------------------------------ MODULE PowProofs ------------------------------
(***************************************************************************)
(* Proofs about proof-of-work keys, for any number of clients, challenges, *)
(* keys and handlers, any lifetimes and any number of failures; then about *)
(* the quotas and the difficulty of challenges and about the limits of a   *)
(* key.                                                                    *)
(***************************************************************************)
EXTENDS PowKeys, PowQuota, KeyLimits, FiniteSetTheorems, WellFoundedInduction,
        TLAPS

Spent == {c \in Challenges : row[c] \in {"used", "gone"}}

\* A handler between the consume and the insertion owns its challenge: it is
\* spent, no key was issued for it and no other handler is there with it.
OwnsOK ==
  /\ \A k \in Issued : origin[k] \in Spent
  /\ \A r \in Redeemers : pc[r] \in {"bump", "issue"} =>
       /\ ch[r] \in Spent
       /\ \A k \in Keys : origin[k] # ch[r]
       /\ \A s \in Redeemers :
            pc[s] \in {"bump", "issue"} /\ ch[s] = ch[r] => s = r

\* A key that was sent, or is about to be, has a row or has expired.
Kept(k) == k \in Issued /\ (k \in stored \/ KeyExpires(k) < now)

KeptOK ==
  /\ \A k \in delivered : Kept(k)
  /\ \A r \in Redeemers : pc[r] = "cache" => Kept(key[r])

Inv == TypeOK /\ OwnsOK /\ OneKeyPerChallenge /\ KeptOK

LEMMA InitInv == Init => Inv
  BY PowAssumption
     DEF Init, Inv, TypeOK, OwnsOK, OneKeyPerChallenge, KeptOK, Kept, Issued

LEMMA NextType ==
  ASSUME TypeOK, Next
  PROVE  TypeOK'
  <1>. USE PowAssumption
       DEF TypeOK, table, keyTable, ipTable, handler, Goto, Fail, Issued
  <1>1. CASE Tick BY <1>1 DEF Tick
  <1>2. ASSUME NEW c \in Challenges, Mint(c) PROVE TypeOK'
    BY <1>2 DEF Mint
  <1>3. ASSUME NEW r \in Redeemers, NEW c \in Challenges, Load(r, c)
        PROVE  TypeOK'
    BY <1>3 DEF Load
  <1>4. ASSUME NEW r \in Redeemers, ConsumeChallenge(r) PROVE TypeOK'
    BY <1>4 DEF ConsumeChallenge
  <1>5. ASSUME NEW r \in Redeemers, BumpIPBonus(r) PROVE TypeOK'
    BY <1>5 DEF BumpIPBonus
  <1>6. ASSUME NEW r \in Redeemers, InsertAPIKey(r) PROVE TypeOK'
    BY <1>6 DEF InsertAPIKey
  <1>7. ASSUME NEW r \in Redeemers, Deliver(r) PROVE TypeOK'
    BY <1>7 DEF Deliver
  <1>8. ASSUME NEW l \in Lookers, GetAPIKey(l) PROVE TypeOK'
    BY <1>8 DEF GetAPIKey, Live
  <1>9. ASSUME NEW l \in Lookers, CacheFetched(l) PROVE TypeOK'
    BY <1>9 DEF CacheFetched
  <1>10. CASE CleanupChallenges BY <1>10 DEF CleanupChallenges
  <1>11. CASE CleanupKeys BY <1>11 DEF CleanupKeys
  <1>12. CASE Restart BY <1>12 DEF Restart, Live
  <1>. QED
    BY <1>1, <1>2, <1>3, <1>4, <1>5, <1>6, <1>7, <1>8, <1>9, <1>10, <1>11,
       <1>12 DEF Next

\* Steps that issue no key, take no challenge back and put no handler between
\* the consume and the insertion.
LEMMA OwnsFrame ==
  ASSUME TypeOK, OwnsOK, OneKeyPerChallenge,
         UNCHANGED origin,
         \A c \in Spent : c \in Spent',
         \A r \in Redeemers : pc'[r] \in {"bump", "issue"} =>
           pc[r] \in {"bump", "issue"} /\ ch'[r] = ch[r]
  PROVE  OwnsOK' /\ OneKeyPerChallenge'
  BY DEF OwnsOK, OneKeyPerChallenge, Issued

LEMMA NextOwns ==
  ASSUME TypeOK, OwnsOK, OneKeyPerChallenge, Next
  PROVE  OwnsOK' /\ OneKeyPerChallenge'
  <1>. USE DEF table, keyTable, ipTable, handler, Goto
  <1>1. CASE Tick BY <1>1, OwnsFrame DEF Tick, Spent
  <1>2. ASSUME NEW c \in Challenges, Mint(c)
        PROVE  OwnsOK' /\ OneKeyPerChallenge'
    BY <1>2, OwnsFrame DEF Mint, Spent, TypeOK
  <1>3. ASSUME NEW r \in Redeemers, NEW c \in Challenges, Load(r, c)
        PROVE  OwnsOK' /\ OneKeyPerChallenge'
    BY <1>3, OwnsFrame DEF Load, Spent, TypeOK
  <1>4. ASSUME NEW r \in Redeemers, ConsumeChallenge(r)
        PROVE  OwnsOK' /\ OneKeyPerChallenge'
    <2>1. CASE pc' = [pc EXCEPT ![r] = "idle"] /\ row' = row
      BY <1>4, <2>1, OwnsFrame DEF ConsumeChallenge, Spent, TypeOK
    <2>2. CASE /\ row[ch[r]] = "fresh"
               /\ row' = [row EXCEPT ![ch[r]] = "used"]
               /\ pc' = [pc EXCEPT ![r] = "bump"]
      <3>1. ch' = ch /\ origin' = origin /\ ch[r] \in Challenges
        BY <1>4 DEF ConsumeChallenge, TypeOK
      <3>2. Spent' = Spent \cup {ch[r]} /\ ch[r] \notin Spent
        BY <2>2, <3>1 DEF Spent, TypeOK
      <3>3. \A k \in Keys : origin[k] # ch[r]
        BY <3>1, <3>2, PowAssumption DEF OwnsOK, Issued
      <3>4. \A s \in Redeemers \ {r} :
              pc'[s] = pc[s] /\ (pc[s] \in {"bump", "issue"} => ch[s] # ch[r])
        BY <2>2, <3>2 DEF OwnsOK, TypeOK
      <3>5. OneKeyPerChallenge'
        BY <3>1 DEF OneKeyPerChallenge, Issued
      <3>6. OwnsOK'
        BY <2>2, <3>1, <3>2, <3>3, <3>4 DEF OwnsOK, Issued, TypeOK
      <3>. QED BY <3>5, <3>6
    <2>. QED BY <1>4, <2>1, <2>2 DEF ConsumeChallenge
  <1>5. ASSUME NEW r \in Redeemers, BumpIPBonus(r)
        PROVE  OwnsOK' /\ OneKeyPerChallenge'
    BY <1>5, OwnsFrame DEF BumpIPBonus, Spent, TypeOK
  <1>6. ASSUME NEW r \in Redeemers, InsertAPIKey(r)
        PROVE  OwnsOK' /\ OneKeyPerChallenge'
    <2>1. CASE pc' = [pc EXCEPT ![r] = "idle"] /\ UNCHANGED keyTable
      BY <1>6, <2>1, OwnsFrame DEF InsertAPIKey, Spent, TypeOK
    <2>2. CASE /\ \E k \in Keys \ Issued : origin' = [origin EXCEPT ![k] = ch[r]]
               /\ pc' = [pc EXCEPT ![r] = "cache"]
      <3>1. PICK k \in Keys : k \notin Issued /\ origin' = [origin EXCEPT ![k] = ch[r]]
        BY <2>2
      <3>2. /\ ch' = ch /\ Spent' = Spent /\ pc[r] = "issue"
            /\ ch[r] \in Challenges /\ ch[r] \in Spent
        BY <1>6 DEF InsertAPIKey, Spent, OwnsOK
      <3>3. Issued' = Issued \cup {k} /\ origin'[k] = ch[r]
        BY <3>1, <3>2, PowAssumption DEF Issued, TypeOK
      <3>4. \A l \in Keys \ {k} : origin'[l] = origin[l] /\ origin[l] # ch[r]
        BY <3>1, <3>2 DEF OwnsOK, TypeOK
      <3>5. OneKeyPerChallenge'
        BY <3>3, <3>4 DEF OneKeyPerChallenge, Issued
      <3>6. \A s \in Redeemers : pc'[s] \in {"bump", "issue"} =>
              s # r /\ pc[s] \in {"bump", "issue"} /\ ch[s] # ch[r]
        BY <2>2, <3>2 DEF OwnsOK, TypeOK
      <3>7. \A l \in Issued' : origin'[l] \in Spent'
        BY <3>2, <3>3, <3>4 DEF OwnsOK, Issued
      <3>8. \A s \in Redeemers : pc'[s] \in {"bump", "issue"} =>
              /\ ch[s] \in Spent
              /\ \A l \in Keys : origin'[l] # ch[s]
              /\ \A t \in Redeemers :
                   pc'[t] \in {"bump", "issue"} /\ ch[t] = ch[s] => t = s
        BY <3>1, <3>3, <3>4, <3>6 DEF OwnsOK
      <3>9. OwnsOK'
        BY <3>2, <3>7, <3>8 DEF OwnsOK
      <3>. QED BY <3>5, <3>9
    <2>. QED BY <1>6, <2>1, <2>2 DEF InsertAPIKey
  <1>7. ASSUME NEW r \in Redeemers, Deliver(r)
        PROVE  OwnsOK' /\ OneKeyPerChallenge'
    BY <1>7, OwnsFrame DEF Deliver, Spent, TypeOK
  <1>8. ASSUME NEW l \in Lookers, GetAPIKey(l) \/ CacheFetched(l)
        PROVE  OwnsOK' /\ OneKeyPerChallenge'
    BY <1>8, OwnsFrame DEF GetAPIKey, CacheFetched, Spent
  <1>9. CASE CleanupChallenges
    BY <1>9, OwnsFrame DEF CleanupChallenges, Spent
  <1>10. CASE CleanupKeys
    BY <1>10, OwnsFrame DEF CleanupKeys, Spent
  <1>11. CASE Restart
    BY <1>11, OwnsFrame DEF Restart, Spent
  <1>. QED
    BY <1>1, <1>2, <1>3, <1>4, <1>5, <1>6, <1>7, <1>8, <1>9, <1>10, <1>11
    DEF Next

\* Steps that leave the rows of the keys alone and send no key.
LEMMA KeptFrame ==
  ASSUME TypeOK, TypeOK', KeptOK, UNCHANGED <<keyTable, delivered>>, now' >= now,
         \A r \in Redeemers :
           pc'[r] = "cache" => pc[r] = "cache" /\ key'[r] = key[r]
  PROVE  KeptOK'
  <1>1. ASSUME NEW k \in Keys, Kept(k) PROVE Kept(k)'
    BY <1>1, PowAssumption DEF Kept, KeyExpires, Issued, keyTable, TypeOK
  <1>. QED BY <1>1 DEF KeptOK, TypeOK, keyTable

LEMMA NextKept ==
  ASSUME TypeOK, TypeOK', KeptOK, Next
  PROVE  KeptOK'
  <1>. USE DEF table, keyTable, ipTable, handler, Goto
  <1>0. now \in Nat BY DEF TypeOK
  <1>1. CASE Tick BY <1>0, <1>1, KeptFrame DEF Tick
  <1>2. ASSUME NEW c \in Challenges, Mint(c) PROVE KeptOK'
    BY <1>0, <1>2, KeptFrame DEF Mint
  <1>3. ASSUME NEW r \in Redeemers, NEW c \in Challenges, Load(r, c)
        PROVE  KeptOK'
    BY <1>0, <1>3, KeptFrame DEF Load, TypeOK
  <1>4. ASSUME NEW r \in Redeemers, ConsumeChallenge(r) \/ BumpIPBonus(r)
        PROVE  KeptOK'
    BY <1>0, <1>4, KeptFrame DEF ConsumeChallenge, BumpIPBonus, TypeOK
  <1>5. ASSUME NEW r \in Redeemers, InsertAPIKey(r) PROVE KeptOK'
    <2>1. CASE pc' = [pc EXCEPT ![r] = "idle"] /\ UNCHANGED <<keyTable, key>>
      BY <1>0, <1>5, <2>1, KeptFrame DEF InsertAPIKey, TypeOK
    <2>2. CASE /\ \E k \in Keys \ Issued :
                    /\ key' = [key EXCEPT ![r] = k]
                    /\ stored' = stored \cup {k}
                    /\ created' = [created EXCEPT ![k] = at[r]]
                    /\ origin' = [origin EXCEPT ![k] = ch[r]]
               /\ pc' = [pc EXCEPT ![r] = "cache"]
      <3>1. PICK k \in Keys \ Issued :
                    /\ key' = [key EXCEPT ![r] = k]
                    /\ stored' = stored \cup {k}
                    /\ created' = [created EXCEPT ![k] = at[r]]
                    /\ origin' = [origin EXCEPT ![k] = ch[r]]
        BY <2>2
      <3>2. now' = now /\ delivered' = delivered /\ ch[r] # None
        BY <1>5 DEF InsertAPIKey, TypeOK
      <3>3. ASSUME NEW l \in Keys, Kept(l) PROVE Kept(l)'
        BY <3>1, <3>2, <3>3 DEF Kept, KeyExpires, Issued, TypeOK
      <3>4. Kept(k)'
        BY <3>1, <3>2 DEF Kept, Issued, TypeOK
      <3>5. \A k2 \in delivered' : Kept(k2)'
        BY <3>2, <3>3 DEF KeptOK, TypeOK
      <3>6. ASSUME NEW s \in Redeemers, pc'[s] = "cache" PROVE Kept(key[s])'
        <4>1. CASE s = r
          BY <3>1, <3>4, <4>1 DEF TypeOK
        <4>2. CASE s # r
          <5>1. pc[s] = "cache" /\ key'[s] = key[s] /\ key[s] \in Keys
            BY <2>2, <3>1, <3>6, <4>2 DEF TypeOK
          <5>2. Kept(key[s])
            BY <5>1 DEF KeptOK
          <5>. QED BY <3>3, <5>1, <5>2
        <4>. QED BY <4>1, <4>2
      <3>. QED BY <3>5, <3>6 DEF KeptOK
    <2>. QED BY <1>5, <2>1, <2>2 DEF InsertAPIKey
  <1>6. ASSUME NEW r \in Redeemers, Deliver(r) PROVE KeptOK'
    <2>1. \A k \in Keys : Kept(k) => Kept(k)'
      BY <1>6 DEF Deliver, Kept, KeyExpires, Issued
    <2>2. key[r] \in Keys /\ Kept(key[r])
      BY <1>6 DEF Deliver, KeptOK, TypeOK
    <2>3. \A k \in delivered' : Kept(k)'
      BY <1>6, <2>1, <2>2 DEF Deliver, KeptOK, TypeOK
    <2>4. \A s \in Redeemers : pc'[s] = "cache" =>
            pc[s] = "cache" /\ key'[s] = key[s] /\ key[s] \in Keys
      BY <1>6 DEF Deliver, TypeOK
    <2>. QED BY <2>1, <2>3, <2>4 DEF KeptOK
  <1>7. ASSUME NEW l \in Lookers, GetAPIKey(l) \/ CacheFetched(l)
        PROVE  KeptOK'
    BY <1>0, <1>7, KeptFrame DEF GetAPIKey, CacheFetched
  <1>8. CASE CleanupChallenges
    BY <1>0, <1>8, KeptFrame DEF CleanupChallenges
  <1>9. CASE CleanupKeys
    <2>1. ASSUME NEW k \in Keys, Kept(k) PROVE Kept(k)'
      BY <1>9, <2>1, PowAssumption
      DEF CleanupKeys, Kept, KeyExpires, Issued, TypeOK
    <2>2. UNCHANGED <<delivered, pc, key>>
      BY <1>9 DEF CleanupKeys
    <2>. QED BY <2>1, <2>2 DEF KeptOK, TypeOK
  <1>10. CASE Restart
    BY <1>0, <1>10, KeptFrame DEF Restart
  <1>. QED
    BY <1>1, <1>2, <1>3, <1>4, <1>5, <1>6, <1>7, <1>8, <1>9, <1>10 DEF Next

\* The inductive invariant of issuance.
THEOREM Invariant == Spec => []Inv
  <1>1. Inv /\ UNCHANGED vars => Inv'
    BY DEF Inv, TypeOK, OwnsOK, OneKeyPerChallenge, KeptOK, Kept, Issued, Spent,
           KeyExpires, vars
  <1>2. Inv /\ Next => Inv'
    BY NextType, NextOwns, NextKept DEF Inv
  <1>. QED BY InitInv, <1>1, <1>2, PTL DEF Spec

\* Every variable of the issuance of keys keeps its type.
THEOREM TypeCorrect == Spec => []TypeOK
  <1>1. Inv => TypeOK BY DEF Inv
  <1>. QED BY <1>1, Invariant, PTL

\* A challenge earns one key at most, however redemptions interleave, fail
\* and restart.
THEOREM OneKeyPerChallengeHolds == Spec => []OneKeyPerChallenge
  <1>1. Inv => OneKeyPerChallenge BY DEF Inv
  <1>. QED BY <1>1, Invariant, PTL

\* A key that was sent to a client is accepted until it expires.
THEOREM DeliveredLastsHolds == Spec => []DeliveredLasts
  <1>1. Inv => DeliveredLasts
    BY PowAssumption
    DEF Inv, KeptOK, Kept, DeliveredLasts, LookupKey, Live, KeyExpires, TypeOK
  <1>. QED BY <1>1, Invariant, PTL

(***************************************************************************)
(* The penalty                                                             *)
(***************************************************************************)

\* The keys a client has, and the redemptions that will give it one: their
\* bump is done or was missed.
KeysOf(b) == {k \in Issued : bind[origin[k]] = b}

Pending(b) == {r \in Redeemers : pc[r] = "issue" /\ bind[ch[r]] = b}

\* Those that began after the last bump that was written.
LateKeys(b) == {k \in KeysOf(b) : created[k] > bonusAt[b]}

LatePending(b) == {r \in Pending(b) : at[r] > bonusAt[b]}

\* Each of them is in the bonus, unless it is at the cap, or was missed; and
\* what began after the last bump was missed.
ClientPaid(b) ==
  /\ IsFiniteSet(Pending(b))
  /\ \/ Cardinality(KeysOf(b)) + Cardinality(Pending(b)) <= bonus[b] + missed[b]
     \/ bonus[b] = BonusCap
  /\ Cardinality(LateKeys(b)) + Cardinality(LatePending(b)) <= missed[b]

\* No key and no redemption is of the future.
ClocksOK ==
  /\ \A k \in Keys : created[k] <= now
  /\ \A r \in Redeemers : at[r] <= now

PaidOK == ClocksOK /\ \A b \in Clients : ClientPaid(b)

\* What is counted is finite.
LEMMA Counts ==
  ASSUME TypeOK, NEW b, IsFiniteSet(Pending(b))
  PROVE  /\ IsFiniteSet(KeysOf(b)) /\ IsFiniteSet(LateKeys(b)) /\ IsFiniteSet(LatePending(b))
         /\ Cardinality(KeysOf(b)) \in Nat /\ Cardinality(Pending(b)) \in Nat
         /\ Cardinality(LateKeys(b)) \in Nat /\ Cardinality(LatePending(b)) \in Nat
  <1>1. KeysOf(b) \subseteq Keys /\ LateKeys(b) \subseteq Keys
    BY DEF KeysOf, LateKeys, Issued
  <1>2. LatePending(b) \subseteq Pending(b)
    BY DEF LatePending
  <1>3. IsFiniteSet(KeysOf(b)) /\ IsFiniteSet(LateKeys(b)) /\ IsFiniteSet(LatePending(b))
    BY <1>1, <1>2, PowAssumption, FS_Subset
  <1>. QED BY <1>3, FS_CardinalityType

\* Steps that neither bump nor issue for a client; redemptions may end.
LEMMA PaidFrame ==
  ASSUME TypeOK, NEW b \in Clients, ClientPaid(b),
         KeysOf(b)' = KeysOf(b), LateKeys(b)' = LateKeys(b),
         Pending(b)' \subseteq Pending(b), LatePending(b)' \subseteq LatePending(b),
         bonus'[b] = bonus[b], missed'[b] = missed[b]
  PROVE  ClientPaid(b)'
  <1>1. IsFiniteSet(Pending(b))
    BY DEF ClientPaid
  <1>2. /\ IsFiniteSet(LatePending(b))
        /\ Cardinality(KeysOf(b)) \in Nat /\ Cardinality(Pending(b)) \in Nat
        /\ Cardinality(LateKeys(b)) \in Nat /\ Cardinality(LatePending(b)) \in Nat
    BY <1>1, Counts
  <1>3. /\ IsFiniteSet(Pending(b)') /\ Cardinality(Pending(b)') <= Cardinality(Pending(b))
        /\ IsFiniteSet(LatePending(b)')
        /\ Cardinality(LatePending(b)') <= Cardinality(LatePending(b))
    BY <1>1, <1>2, FS_Subset
  <1>4. Cardinality(Pending(b)') \in Nat /\ Cardinality(LatePending(b)') \in Nat
    BY <1>3, FS_CardinalityType
  <1>5. bonus[b] \in Nat /\ missed[b] \in Nat
    BY PowAssumption DEF TypeOK
  <1>. QED BY <1>2, <1>3, <1>4, <1>5 DEF ClientPaid

\* BumpIPBonus counts the redemption, in the bonus or among the missed.
LEMMA BumpPaid ==
  ASSUME TypeOK, ClocksOK, NEW b \in Clients, ClientPaid(b),
         NEW r \in Redeemers, BumpIPBonus(r)
  PROVE  ClientPaid(b)'
  <1>. USE DEF table, keyTable, Goto
  <1>0. ch[r] \in Challenges /\ bind[ch[r]] \in Clients /\ pc[r] = "bump"
    BY DEF BumpIPBonus, TypeOK
  <1>1. UNCHANGED <<bind, origin, created, ch, at>> /\ pc' = [pc EXCEPT ![r] = "issue"]
    BY DEF BumpIPBonus
  <1>2. KeysOf(b)' = KeysOf(b)
    BY <1>1 DEF KeysOf, Issued
  <1>3. CASE b # bind[ch[r]]
    <2>1. bonus'[b] = bonus[b] /\ missed'[b] = missed[b] /\ bonusAt'[b] = bonusAt[b]
      BY <1>0, <1>3 DEF BumpIPBonus, TypeOK
    <2>2. Pending(b)' = Pending(b)
      BY <1>0, <1>1, <1>3 DEF Pending, TypeOK
    <2>3. LateKeys(b)' = LateKeys(b) /\ LatePending(b)' = LatePending(b)
      BY <1>1, <1>2, <2>1, <2>2 DEF LateKeys, LatePending
    <2>. QED BY <1>2, <2>1, <2>2, <2>3, PaidFrame
  <1>4. CASE b = bind[ch[r]]
    <2>1. Pending(b)' = Pending(b) \cup {r} /\ r \notin Pending(b)
      BY <1>0, <1>1, <1>4 DEF Pending, TypeOK
    <2>2. IsFiniteSet(Pending(b))
      BY DEF ClientPaid
    <2>3. /\ Cardinality(KeysOf(b)) \in Nat /\ Cardinality(Pending(b)) \in Nat
          /\ Cardinality(LateKeys(b)) \in Nat /\ Cardinality(LatePending(b)) \in Nat
          /\ IsFiniteSet(LatePending(b))
      BY <2>2, Counts
    <2>4. /\ IsFiniteSet(Pending(b)')
          /\ Cardinality(Pending(b)') = Cardinality(Pending(b)) + 1
      BY <2>1, <2>2, FS_AddElement
    <2>5. bonus[b] \in 0 .. BonusCap /\ missed[b] \in Nat /\ BonusCap \in Nat
      BY PowAssumption DEF TypeOK
    <2>6. CASE /\ bonus' = [bonus EXCEPT ![b] = IF @ < BonusCap THEN @ + 1 ELSE BonusCap]
               /\ bonusAt' = [bonusAt EXCEPT ![b] = now] /\ missed' = missed
      <3>1. /\ bonusAt'[b] = now
            /\ bonus'[b] = bonus[b] + 1 \/ bonus'[b] = BonusCap
        BY <2>6 DEF TypeOK
      <3>2. \A k \in Keys : ~(created[k] > now)
        BY DEF ClocksOK, TypeOK
      <3>3. \A s \in Redeemers : ~(at[s] > now)
        BY DEF ClocksOK, TypeOK
      <3>4. LateKeys(b)' = {}
        BY <1>1, <1>2, <3>1, <3>2 DEF LateKeys, KeysOf, Issued
      <3>5. LatePending(b)' = {}
        BY <1>1, <3>1, <3>3 DEF LatePending, Pending
      <3>6. Cardinality(LateKeys(b)') = 0 /\ Cardinality(LatePending(b)') = 0
        BY <3>4, <3>5, FS_EmptySet
      <3>7. \/ Cardinality(KeysOf(b)') + Cardinality(Pending(b)') <= bonus'[b] + missed'[b]
            \/ bonus'[b] = BonusCap
        BY <1>2, <2>3, <2>4, <2>5, <2>6, <3>1 DEF ClientPaid
      <3>. QED BY <2>4, <2>5, <2>6, <3>6, <3>7 DEF ClientPaid
    <2>7. CASE missed' = [missed EXCEPT ![b] = @ + 1] /\ UNCHANGED <<bonus, bonusAt>>
      <3>1. missed'[b] = missed[b] + 1
        BY <2>7 DEF TypeOK
      <3>2. LateKeys(b)' = LateKeys(b)
        BY <1>1, <1>2, <2>7 DEF LateKeys
      <3>3. LatePending(b)' \subseteq LatePending(b) \cup {r}
        BY <1>1, <2>1, <2>7 DEF LatePending
      <3>4. /\ IsFiniteSet(LatePending(b) \cup {r})
            /\ Cardinality(LatePending(b) \cup {r}) \in Nat
            /\ Cardinality(LatePending(b) \cup {r}) <= Cardinality(LatePending(b)) + 1
        <4>1. /\ IsFiniteSet(LatePending(b) \cup {r})
              /\ Cardinality(LatePending(b) \cup {r}) =
                   IF r \in LatePending(b) THEN Cardinality(LatePending(b))
                   ELSE Cardinality(LatePending(b)) + 1
          BY <2>3, FS_AddElement
        <4>. QED BY <2>3, <4>1
      <3>5. /\ Cardinality(LatePending(b)') <= Cardinality(LatePending(b) \cup {r})
            /\ IsFiniteSet(LatePending(b)')
        BY <3>3, <3>4, FS_Subset
      <3>6. Cardinality(LatePending(b)') \in Nat
        BY <3>5, FS_CardinalityType
      <3>7. Cardinality(LatePending(b)') <= Cardinality(LatePending(b)) + 1
        BY <2>3, <3>4, <3>5, <3>6
      <3>8. Cardinality(LateKeys(b)') + Cardinality(LatePending(b)') <= missed'[b]
        BY <2>3, <2>5, <3>1, <3>2, <3>6, <3>7 DEF ClientPaid
      <3>9. \/ Cardinality(KeysOf(b)') + Cardinality(Pending(b)') <= bonus'[b] + missed'[b]
            \/ bonus'[b] = BonusCap
        BY <1>2, <2>3, <2>4, <2>5, <2>7, <3>1 DEF ClientPaid
      <3>. QED BY <2>4, <3>8, <3>9 DEF ClientPaid
    <2>. QED BY <1>4, <2>6, <2>7 DEF BumpIPBonus
  <1>. QED BY <1>3, <1>4

\* InsertAPIKey turns a redemption that was counted into a key.
LEMMA InsertPaid ==
  ASSUME TypeOK, NEW b \in Clients, ClientPaid(b), NEW r \in Redeemers, InsertAPIKey(r)
  PROVE  ClientPaid(b)'
  <1>. USE DEF table, keyTable, ipTable, Goto
  <1>0. ch[r] \in Challenges /\ pc[r] = "issue"
    BY DEF InsertAPIKey, TypeOK
  <1>1. UNCHANGED <<bind, ch, at, bonus, bonusAt, missed>>
    BY DEF InsertAPIKey
  <1>2. Pending(b)' = Pending(b) \ {r} /\ LatePending(b)' = LatePending(b) \ {r}
    <2>1. \A s \in Redeemers : pc'[s] = "issue" <=> pc[s] = "issue" /\ s # r
      BY <1>0 DEF InsertAPIKey, TypeOK
    <2>2. Pending(b)' = Pending(b) \ {r}
      BY <1>1, <2>1 DEF Pending
    <2>. QED BY <1>1, <2>2 DEF LatePending
  <1>3. CASE UNCHANGED <<stored, created, origin>>
    <2>1. KeysOf(b)' = KeysOf(b)
      BY <1>1, <1>3 DEF KeysOf, Issued
    <2>2. LateKeys(b)' = LateKeys(b)
      BY <1>1, <1>3, <2>1 DEF LateKeys
    <2>. QED BY <1>1, <1>2, <2>1, <2>2, PaidFrame
  <1>4. ASSUME NEW k \in Keys \ Issued, created' = [created EXCEPT ![k] = at[r]],
               origin' = [origin EXCEPT ![k] = ch[r]]
        PROVE  ClientPaid(b)'
    <2>1. origin[k] = None /\ ch[r] # None
      BY <1>0, PowAssumption DEF Issued
    <2>2. /\ origin'[k] = ch[r] /\ created'[k] = at[r]
          /\ \A l \in Keys : l # k => origin'[l] = origin[l] /\ created'[l] = created[l]
      BY <1>4 DEF TypeOK
    <2>3. CASE bind[ch[r]] # b
      <3>1. KeysOf(b)' = KeysOf(b) /\ k \notin KeysOf(b)
        BY <1>1, <2>1, <2>2, <2>3 DEF KeysOf, Issued
      <3>2. LateKeys(b)' = LateKeys(b)
        BY <1>1, <2>2, <3>1 DEF LateKeys, KeysOf, Issued
      <3>. QED BY <1>1, <1>2, <3>1, <3>2, PaidFrame
    <2>4. CASE bind[ch[r]] = b
      <3>1. KeysOf(b)' = KeysOf(b) \cup {k} /\ k \notin KeysOf(b)
        BY <1>1, <2>1, <2>2, <2>4 DEF KeysOf, Issued
      <3>2. r \in Pending(b)
        BY <1>0, <2>4 DEF Pending
      <3>3. IsFiniteSet(Pending(b))
        BY DEF ClientPaid
      <3>4. /\ Cardinality(KeysOf(b)) \in Nat /\ Cardinality(Pending(b)) \in Nat
            /\ Cardinality(LateKeys(b)) \in Nat /\ Cardinality(LatePending(b)) \in Nat
            /\ IsFiniteSet(KeysOf(b)) /\ IsFiniteSet(LateKeys(b)) /\ IsFiniteSet(LatePending(b))
        BY <3>3, Counts
      <3>5. /\ Cardinality(KeysOf(b)') = Cardinality(KeysOf(b)) + 1
            /\ Cardinality(Pending(b)') = Cardinality(Pending(b)) - 1
            /\ IsFiniteSet(Pending(b)')
        <4>1. Cardinality(KeysOf(b) \cup {k}) = Cardinality(KeysOf(b)) + 1
          BY <3>1, <3>4, FS_AddElement
        <4>2. /\ Cardinality(Pending(b) \ {r}) = Cardinality(Pending(b)) - 1
              /\ IsFiniteSet(Pending(b) \ {r})
          BY <3>2, <3>3, FS_RemoveElement
        <4>. QED BY <1>2, <3>1, <4>1, <4>2
      <3>6. Cardinality(LateKeys(b)') + Cardinality(LatePending(b)')
              = Cardinality(LateKeys(b)) + Cardinality(LatePending(b))
        <4>1. CASE at[r] > bonusAt[b]
          <5>1. LateKeys(b)' = LateKeys(b) \cup {k} /\ k \notin LateKeys(b)
            BY <1>1, <2>2, <3>1, <4>1 DEF LateKeys, KeysOf, Issued
          <5>2. r \in LatePending(b)
            BY <3>2, <4>1 DEF LatePending
          <5>3. Cardinality(LateKeys(b) \cup {k}) = Cardinality(LateKeys(b)) + 1
            BY <3>4, <5>1, FS_AddElement
          <5>4. Cardinality(LatePending(b) \ {r}) = Cardinality(LatePending(b)) - 1
            BY <3>4, <5>2, FS_RemoveElement
          <5>. QED BY <1>2, <3>4, <5>1, <5>3, <5>4
        <4>2. CASE ~(at[r] > bonusAt[b])
          <5>1. LateKeys(b)' = LateKeys(b)
            BY <1>1, <2>2, <3>1, <4>2 DEF LateKeys, KeysOf, Issued
          <5>2. LatePending(b)' = LatePending(b)
            BY <1>2, <4>2 DEF LatePending
          <5>. QED BY <5>1, <5>2
        <4>. QED BY <4>1, <4>2
      <3>7. bonus[b] \in Nat /\ missed[b] \in Nat
        BY PowAssumption DEF TypeOK
      <3>. QED BY <1>1, <3>4, <3>5, <3>6, <3>7 DEF ClientPaid
    <2>. QED BY <2>3, <2>4
  <1>. QED BY <1>3, <1>4 DEF InsertAPIKey

\* Every step keeps the accounts of every client.
LEMMA NextPaid ==
  ASSUME TypeOK, PaidOK, Next
  PROVE  PaidOK'
  <1>. USE DEF table, keyTable, ipTable, handler, Goto
  <1>1. ClocksOK'
    <2>0. now \in Nat /\ now' \in Nat /\ now' >= now
      BY NextType DEF TypeOK, Next, Tick, Mint, Load, ConsumeChallenge, BumpIPBonus,
         InsertAPIKey, Deliver, GetAPIKey, CacheFetched, CleanupChallenges, CleanupKeys, Restart
    <2>1. \A k \in Keys : created'[k] = created[k] \/ \E r \in Redeemers : created'[k] = at[r]
      BY DEF TypeOK, Next, Tick, Mint, Load, ConsumeChallenge, BumpIPBonus,
         InsertAPIKey, Deliver, GetAPIKey, CacheFetched, CleanupChallenges, CleanupKeys, Restart
    <2>2. \A r \in Redeemers : at'[r] = at[r] \/ at'[r] = now
      BY DEF TypeOK, Next, Tick, Mint, Load, ConsumeChallenge, BumpIPBonus,
         InsertAPIKey, Deliver, GetAPIKey, CacheFetched, CleanupChallenges, CleanupKeys, Restart
    <2>3. /\ \A k \in Keys : created[k] \in Nat /\ created[k] <= now
          /\ \A r \in Redeemers : at[r] \in Nat /\ at[r] <= now
      BY DEF PaidOK, ClocksOK, TypeOK
    <2>. QED BY <2>0, <2>1, <2>2, <2>3 DEF ClocksOK
  <1>2. ASSUME NEW b \in Clients PROVE ClientPaid(b)'
    <2>0. ClientPaid(b)
      BY DEF PaidOK
    <2>1. ASSUME UNCHANGED <<bind, created, origin, bonus, bonusAt, missed>>,
                 \A r \in Redeemers : pc'[r] = "issue" =>
                   pc[r] = "issue" /\ ch'[r] = ch[r] /\ at'[r] = at[r]
          PROVE  ClientPaid(b)'
      <3>1. KeysOf(b)' = KeysOf(b)
        BY <2>1 DEF KeysOf, Issued
      <3>2. LateKeys(b)' = LateKeys(b)
        BY <2>1, <3>1 DEF LateKeys
      <3>3. Pending(b)' \subseteq Pending(b)
        BY <2>1 DEF Pending
      <3>4. LatePending(b)' \subseteq LatePending(b)
        BY <2>1, <3>3 DEF LatePending, Pending
      <3>. QED BY <2>0, <2>1, <3>1, <3>2, <3>3, <3>4, PaidFrame
    <2>2. CASE Tick
      BY <2>1, <2>2 DEF Tick
    <2>3. ASSUME NEW c \in Challenges, Mint(c) PROVE ClientPaid(b)'
      BY <2>1, <2>3 DEF Mint
    <2>4. ASSUME NEW r \in Redeemers, NEW c \in Challenges, Load(r, c) PROVE ClientPaid(b)'
      BY <2>1, <2>4 DEF Load, TypeOK
    <2>5. ASSUME NEW r \in Redeemers, ConsumeChallenge(r) PROVE ClientPaid(b)'
      BY <2>1, <2>5 DEF ConsumeChallenge, TypeOK
    <2>6. ASSUME NEW r \in Redeemers, BumpIPBonus(r) PROVE ClientPaid(b)'
      BY <2>0, <2>6, BumpPaid DEF PaidOK
    <2>7. ASSUME NEW r \in Redeemers, InsertAPIKey(r) PROVE ClientPaid(b)'
      BY <2>0, <2>7, InsertPaid
    <2>8. ASSUME NEW r \in Redeemers, Deliver(r) PROVE ClientPaid(b)'
      BY <2>1, <2>8 DEF Deliver, TypeOK
    <2>9. ASSUME NEW l \in Lookers, GetAPIKey(l) \/ CacheFetched(l) PROVE ClientPaid(b)'
      BY <2>1, <2>9 DEF GetAPIKey, CacheFetched
    <2>10. CASE CleanupChallenges
      BY <2>1, <2>10 DEF CleanupChallenges
    <2>11. CASE CleanupKeys
      BY <2>1, <2>11 DEF CleanupKeys
    <2>12. CASE Restart
      BY <2>1, <2>12 DEF Restart
    <2>. QED
      BY <2>2, <2>3, <2>4, <2>5, <2>6, <2>7, <2>8, <2>9, <2>10, <2>11, <2>12 DEF Next
  <1>. QED BY <1>1, <1>2 DEF PaidOK

\* What the accounts say of the keys a client earned lately.
LEMMA PaidEnough ==
  ASSUME TypeOK, PaidOK
  PROVE  PenaltyPaid
  <1>. SUFFICES ASSUME NEW b \in Clients
                PROVE  \/ Cardinality(Earned(b)) <= IPBonus(b) + missed[b]
                       \/ IPBonus(b) = BonusCap
    BY DEF PenaltyPaid
  <1>1. ClientPaid(b) /\ IsFiniteSet(Pending(b))
    BY DEF PaidOK, ClientPaid
  <1>2. /\ Cardinality(KeysOf(b)) \in Nat /\ Cardinality(Pending(b)) \in Nat
        /\ Cardinality(LateKeys(b)) \in Nat /\ Cardinality(LatePending(b)) \in Nat
        /\ IsFiniteSet(KeysOf(b)) /\ IsFiniteSet(LateKeys(b))
    BY <1>1, Counts
  <1>3. bonus[b] \in Nat /\ missed[b] \in Nat /\ bonusAt[b] \in Nat /\ now \in Nat
        /\ IdleWindow \in Nat
    BY PowAssumption DEF TypeOK
  <1>4. CASE bonusAt[b] > now - IdleWindow
    <2>1. Earned(b) \subseteq KeysOf(b)
      BY DEF Earned, KeysOf
    <2>2. IsFiniteSet(Earned(b)) /\ Cardinality(Earned(b)) <= Cardinality(KeysOf(b))
      BY <1>2, <2>1, FS_Subset
    <2>3. Cardinality(Earned(b)) \in Nat
      BY <2>2, FS_CardinalityType
    <2>4. IPBonus(b) = bonus[b]
      BY <1>4 DEF IPBonus
    <2>. QED BY <1>1, <1>2, <1>3, <2>2, <2>3, <2>4 DEF ClientPaid
  <1>5. CASE ~(bonusAt[b] > now - IdleWindow)
    <2>1. \A k \in Keys : created[k] > now - IdleWindow => created[k] > bonusAt[b]
      BY <1>3, <1>5 DEF TypeOK
    <2>2. Earned(b) \subseteq LateKeys(b)
      BY <2>1 DEF Earned, LateKeys, KeysOf, Issued
    <2>3. IsFiniteSet(Earned(b)) /\ Cardinality(Earned(b)) <= Cardinality(LateKeys(b))
      BY <1>2, <2>2, FS_Subset
    <2>4. Cardinality(Earned(b)) \in Nat
      BY <2>3, FS_CardinalityType
    <2>5. IPBonus(b) = 0
      BY <1>5 DEF IPBonus
    <2>. QED BY <1>1, <1>2, <1>3, <2>3, <2>4, <2>5 DEF ClientPaid
  <1>. QED BY <1>4, <1>5

\* Every key a client earned lately counts in its next difficulty, up to the
\* cap, unless the statement that counts it failed: for any number of
\* redemptions side by side, and although a bonus that lapsed is not read.
THEOREM PenaltyPaidHolds == Spec => []PenaltyPaid
  <1>1. Init => PaidOK
    <2>. SUFFICES ASSUME Init PROVE PaidOK
      OBVIOUS
    <2>1. ClocksOK
      BY DEF Init, ClocksOK
    <2>2. ASSUME NEW b \in Clients PROVE ClientPaid(b)
      <3>1. KeysOf(b) = {} /\ Pending(b) = {}
        BY DEF Init, KeysOf, Pending, Issued
      <3>2. LateKeys(b) = {} /\ LatePending(b) = {}
        BY <3>1 DEF LateKeys, LatePending
      <3>3. bonus[b] = 0 /\ missed[b] = 0
        BY DEF Init
      <3>. QED BY <3>1, <3>2, <3>3, FS_EmptySet DEF ClientPaid
    <2>. QED BY <2>1, <2>2 DEF PaidOK
  <1>2. TypeOK /\ PaidOK /\ [Next]_vars => PaidOK'
    <2>. SUFFICES ASSUME TypeOK, PaidOK, [Next]_vars PROVE PaidOK'
      OBVIOUS
    <2>1. CASE Next
      BY <2>1, NextPaid
    <2>2. CASE UNCHANGED vars
      BY <2>2 DEF vars, PaidOK, ClocksOK, ClientPaid, KeysOf, Pending, LateKeys,
                  LatePending, Issued
    <2>. QED BY <2>1, <2>2
  <1>3. TypeOK /\ PaidOK => PenaltyPaid
    BY PaidEnough
  <1>. QED BY <1>1, <1>2, <1>3, TypeCorrect, PTL DEF Spec

-----------------------------------------------------------------------------
(* Issuance implements the exchange of KeyExchange.                        *)

\* Every key the service knows of was issued, and one whose time is not over
\* has its row.
KnownOK ==
  /\ stored \subseteq Issued /\ keyCache \subseteq Issued
  /\ \A l \in Lookers : fetched[l] # None => fetched[l] \in Issued
  /\ \A k \in Issued : Kept(k)

\* Steps that touch none of the tables of keys.
LEMMA KnownFrame ==
  ASSUME TypeOK, TypeOK', KnownOK, UNCHANGED <<stored, created, origin>>, now' >= now,
         keyCache' \subseteq Issued,
         \A l \in Lookers : fetched'[l] # None => fetched'[l] \in Issued
  PROVE  KnownOK'
  <1>1. Issued' = Issued
    BY DEF Issued
  <1>2. ASSUME NEW k \in Issued PROVE Kept(k)'
    <2>1. Kept(k) /\ k \in Keys
      BY DEF KnownOK, Issued
    <2>. QED BY <1>1, <2>1, PowAssumption DEF Kept, KeyExpires, TypeOK
  <1>. QED BY <1>1, <1>2 DEF KnownOK

\* InsertAPIKey adds the row of a key with the key.
LEMMA KnownInsert ==
  ASSUME TypeOK, KnownOK, NEW r \in Redeemers, NEW k \in Keys \ Issued, ch[r] # None,
         stored' = stored \cup {k},
         created' = [created EXCEPT ![k] = at[r]],
         origin' = [origin EXCEPT ![k] = ch[r]],
         UNCHANGED <<now, keyCache, fetched>>
  PROVE  KnownOK' /\ Issued' = Issued \cup {k}
  <1>1. Issued' = Issued \cup {k}
    BY DEF Issued, TypeOK
  <1>2. ASSUME NEW l \in Issued' PROVE Kept(l)'
    <2>1. CASE l = k
      BY <1>1, <2>1 DEF Kept
    <2>2. CASE l # k
      <3>1. l \in Issued /\ l \in Keys /\ Kept(l)
        BY <1>1, <2>2 DEF KnownOK, Issued
      <3>2. KeyExpires(l)' = KeyExpires(l)
        BY <2>2, <3>1 DEF KeyExpires, TypeOK
      <3>. QED BY <1>1, <3>1, <3>2 DEF Kept
    <2>. QED BY <2>1, <2>2
  <1>. QED BY <1>1, <1>2 DEF KnownOK

\* Every step keeps what the service knows.
LEMMA NextKnown ==
  ASSUME TypeOK, TypeOK', KeptOK, KnownOK, Next
  PROVE  KnownOK'
  <1>. USE DEF table, keyTable, ipTable, handler
  <1>0. /\ now \in Nat /\ stored \subseteq Issued /\ keyCache \subseteq Issued
        /\ \A l \in Lookers : fetched[l] # None => fetched[l] \in Issued
    BY DEF TypeOK, KnownOK
  <1>1. CASE Tick
    BY <1>0, <1>1, KnownFrame DEF Tick
  <1>2. ASSUME NEW c \in Challenges, Mint(c) PROVE KnownOK'
    BY <1>0, <1>2, KnownFrame DEF Mint
  <1>3. ASSUME NEW r \in Redeemers, NEW c \in Challenges, Load(r, c) PROVE KnownOK'
    BY <1>0, <1>3, KnownFrame DEF Load
  <1>4. ASSUME NEW r \in Redeemers, ConsumeChallenge(r) \/ BumpIPBonus(r) PROVE KnownOK'
    BY <1>0, <1>4, KnownFrame DEF ConsumeChallenge, BumpIPBonus
  <1>5. ASSUME NEW r \in Redeemers, InsertAPIKey(r) PROVE KnownOK'
    <2>1. CASE UNCHANGED keyTable
      BY <1>0, <1>5, <2>1, KnownFrame DEF InsertAPIKey
    <2>2. ch[r] # None
      BY <1>5 DEF InsertAPIKey, TypeOK
    <2>. QED BY <1>5, <2>1, <2>2, KnownInsert DEF InsertAPIKey
  <1>6. ASSUME NEW r \in Redeemers, Deliver(r) PROVE KnownOK'
    <2>1. key[r] \in Issued
      BY <1>6 DEF Deliver, KeptOK, Kept
    <2>. QED BY <1>0, <1>6, <2>1, KnownFrame DEF Deliver
  <1>7. ASSUME NEW l \in Lookers, GetAPIKey(l) PROVE KnownOK'
    <2>1. PICK k \in Live : fetched' = [fetched EXCEPT ![l] = k]
      BY <1>7 DEF GetAPIKey
    <2>2. k \in Issued
      BY <1>0 DEF Live
    <2>3. \A m \in Lookers : fetched'[m] # None => fetched'[m] \in Issued
      BY <1>0, <2>1, <2>2 DEF TypeOK
    <2>. QED BY <1>0, <1>7, <2>3, KnownFrame DEF GetAPIKey
  <1>8. ASSUME NEW l \in Lookers, CacheFetched(l) PROVE KnownOK'
    <2>1. \A m \in Lookers : fetched'[m] # None => fetched'[m] \in Issued
      BY <1>0, <1>8 DEF CacheFetched, TypeOK
    <2>2. keyCache' \subseteq Issued
      BY <1>0, <1>8 DEF CacheFetched
    <2>. QED BY <1>0, <1>8, <2>1, <2>2, KnownFrame DEF CacheFetched
  <1>9. CASE CleanupChallenges
    BY <1>0, <1>9, KnownFrame DEF CleanupChallenges
  <1>10. CASE CleanupKeys
    <2>1. Issued' = Issued
      BY <1>10 DEF CleanupKeys, Issued
    <2>2. ASSUME NEW k \in Issued PROVE Kept(k)'
      <3>1. Kept(k) /\ k \in Keys
        BY DEF KnownOK, Issued
      <3>. QED BY <1>10, <2>1, <3>1, PowAssumption DEF CleanupKeys, Kept, KeyExpires, TypeOK
    <2>. QED BY <1>0, <1>10, <2>1, <2>2 DEF CleanupKeys, KnownOK
  <1>11. CASE Restart
    <2>1. Live \subseteq Issued
      BY <1>0 DEF Live
    <2>. QED BY <1>0, <1>11, <2>1, KnownFrame DEF Restart, TypeOK
  <1>. QED
    BY <1>1, <1>2, <1>3, <1>4, <1>5, <1>6, <1>7, <1>8, <1>9, <1>10, <1>11 DEF Next

\* A key whose time is not over is accepted exactly if it was issued.
AcceptedOK ==
  /\ \A k \in Keys : LookupKey(k) => k \in Issued
  /\ \A k \in Issued \ Lapsed : LookupKey(k)

LEMMA AcceptedIffIssued == TypeOK /\ KnownOK => AcceptedOK
  <1>. SUFFICES ASSUME TypeOK, KnownOK PROVE AcceptedOK
    OBVIOUS
  <1>1. \A k \in Keys : LookupKey(k) => k \in Issued
    BY DEF LookupKey, Live, KnownOK
  <1>2. ASSUME NEW k \in Issued \ Lapsed PROVE LookupKey(k)
    <2>1. Kept(k) /\ k \in Keys /\ ~(KeyExpires(k) <= now)
      BY DEF KnownOK, Issued, Lapsed
    <2>2. KeyExpires(k) \in Int /\ now \in Int
      BY <2>1, PowAssumption DEF KeyExpires, TypeOK
    <2>. QED BY <2>1, <2>2 DEF Kept, LookupKey, Live
  <1>. QED BY <1>1, <1>2 DEF AcceptedOK

\* Steps that issue no key are upkeep, whatever they do to the caches, if the
\* challenges of C are closed by them and no other changes its standing.
LEMMA Upholds ==
  ASSUME TypeOK, TypeOK', KnownOK, KnownOK', UNCHANGED <<created, origin>>, now' >= now,
         NEW C \in SUBSET Challenges,
         \A c \in C : Standing(c) = "open",
         \A c \in Challenges : Standing(c)' = IF c \in C THEN "closed" ELSE Standing(c)
  PROVE  Service!Next
  <1>0. AcceptedOK /\ AcceptedOK'
    <2>1. TypeOK' /\ KnownOK' => AcceptedOK'
      BY AcceptedIffIssued, PTL
    <2>. QED BY <2>1, AcceptedIffIssued
  <1>1. Issued' = Issued
    BY DEF Issued
  <1>2. ASSUME NEW k \in Lapsed PROVE k \in Lapsed'
    <2>1. k \in Issued /\ k \in Keys /\ KeyExpires(k) <= now
      BY DEF Lapsed, Issued
    <2>2. KeyExpires(k)' = KeyExpires(k) /\ KeyExpires(k) \in Int /\ now \in Int /\ now' \in Int
      BY <2>1, PowAssumption DEF KeyExpires, TypeOK
    <2>. QED BY <1>1, <2>1, <2>2 DEF Lapsed
  <1>3. \A k \in Lapsed' : origin[k] # None
    BY <1>1 DEF Lapsed, Issued
  <1>4. ASSUME NEW k \in Keys, LookupKey(k), k \notin Lapsed' PROVE LookupKey(k)'
    <2>1. k \in Issued
      BY <1>0, <1>4 DEF AcceptedOK
    <2>2. \A j \in Issued' \ Lapsed' : LookupKey(j)'
      BY <1>0 DEF AcceptedOK
    <2>. QED BY <1>1, <1>4, <2>1, <2>2
  <1>5. ASSUME NEW k \in Keys, LookupKey(k)', ~LookupKey(k) PROVE k \in Lapsed
    <2>1. \A j \in Keys : LookupKey(j)' => j \in Issued'
      BY <1>0 DEF AcceptedOK
    <2>2. k \in Issued
      BY <1>1, <1>5, <2>1
    <2>. QED BY <1>0, <1>5, <2>2 DEF AcceptedOK
  <1>6. Service!Upkeep(C)
    <2>1. [c \in Challenges |-> Standing(c)]'
            = [c \in Challenges |-> IF c \in C THEN "closed"
                                    ELSE [d \in Challenges |-> Standing(d)][c]]
      OBVIOUS
    <2>2. \A c \in C : [d \in Challenges |-> Standing(d)][c] = "open"
      OBVIOUS
    <2>3. {k \in Keys : LookupKey(k)} \ Lapsed' \subseteq {k \in Keys : LookupKey(k)}'
      BY <1>4
    <2>4. {k \in Keys : LookupKey(k)}' \ {k \in Keys : LookupKey(k)} \subseteq Lapsed
      BY <1>5
    <2>5. Lapsed \subseteq Lapsed'
      BY <1>2
    <2>. QED BY <1>3, <2>1, <2>2, <2>3, <2>4, <2>5 DEF Service!Upkeep
  <1>. QED BY <1>6 DEF Service!Next

\* The same for steps that leave every standing alone.
LEMMA UpholdsAll ==
  ASSUME TypeOK, TypeOK', KnownOK, KnownOK', UNCHANGED <<created, origin>>, now' >= now,
         \A c \in Challenges : Standing(c)' = Standing(c)
  PROVE  Service!Next
  <1>1. /\ {} \in SUBSET Challenges
        /\ \A c \in {} : Standing(c) = "open"
        /\ \A c \in Challenges : Standing(c)' = IF c \in {} THEN "closed" ELSE Standing(c)
    OBVIOUS
  <1>. QED BY <1>1, Upholds

\* Holders of a challenge that is not fresh: whether a step changes a standing
\* shows in the row and in who holds the challenge.
LEMMA StandingFrame ==
  ASSUME TypeOK, NEW c \in Challenges, row'[c] = row[c],
         \A r \in Redeemers : (ch'[r] = c /\ pc'[r] \in {"bump", "issue"})
                                <=> (ch[r] = c /\ pc[r] \in {"bump", "issue"})
  PROVE  Standing(c)' = Standing(c)
  <1>1. Holders(c)' = Holders(c)
    BY DEF Holders
  <1>. QED BY <1>1 DEF Standing

\* A fresh challenge has no holder, one with a holder is spent.
LEMMA FreshUnheld ==
  ASSUME TypeOK, OwnsOK, NEW c \in Challenges
  PROVE  /\ row[c] \in {"none", "fresh"} => Holders(c) = {}
         /\ row[c] \in {"used", "gone"} =>
              Standing(c) = IF Holders(c) # {} THEN "open" ELSE "closed"
  BY DEF OwnsOK, Holders, Spent, Standing

\* Mint offers a challenge.
LEMMA MintOffers ==
  ASSUME TypeOK, OwnsOK, NEW c \in Challenges, Mint(c)
  PROVE  Service!Next
  <1>0. /\ row[c] = "none" /\ row' = [row EXCEPT ![c] = "fresh"]
        /\ UNCHANGED <<now, stored, created, origin, keyCache, pc, ch>>
    BY DEF Mint, keyTable, handler
  <1>1. Standing(c) = "new" /\ Standing(c)' = "open"
    BY <1>0 DEF Standing, TypeOK
  <1>2. \A d \in Challenges \ {c} : Standing(d)' = Standing(d)
    BY <1>0, StandingFrame DEF TypeOK
  <1>3. /\ {k \in Keys : LookupKey(k)}' = {k \in Keys : LookupKey(k)}
        /\ Lapsed' = Lapsed
    BY <1>0 DEF LookupKey, Live, Lapsed, Issued, KeyExpires
  <1>4. [d \in Challenges |-> Standing(d)]'
          = [[d \in Challenges |-> Standing(d)] EXCEPT ![c] = "open"]
    BY <1>1, <1>2
  <1>5. Service!Offer(c)
    BY <1>0, <1>1, <1>3, <1>4 DEF Service!Offer
  <1>. QED BY <1>5 DEF Service!Next

\* ConsumeChallenge hands the open challenge to one handler.
LEMMA ConsumeKeepsStanding ==
  ASSUME TypeOK, NEW r \in Redeemers, ConsumeChallenge(r), NEW c \in Challenges
  PROVE  Standing(c)' = Standing(c)
  <1>0. pc[r] = "consume" /\ ch' = ch
    BY DEF ConsumeChallenge
  <1>1. CASE row' = row /\ pc' = [pc EXCEPT ![r] = "idle"]
    BY <1>0, <1>1, StandingFrame DEF TypeOK
  <1>2. CASE /\ row[ch[r]] = "fresh" /\ row' = [row EXCEPT ![ch[r]] = "used"]
             /\ pc' = [pc EXCEPT ![r] = "bump"]
    <2>1. CASE c = ch[r]
      <3>1. r \in Holders(c)'
        BY <1>0, <1>2, <2>1 DEF Holders, TypeOK
      <3>. QED BY <1>2, <2>1, <3>1 DEF Standing, TypeOK
    <2>2. CASE c # ch[r]
      BY <1>0, <1>2, <2>2, StandingFrame DEF TypeOK
    <2>. QED BY <2>1, <2>2
  <1>. QED BY <1>1, <1>2 DEF ConsumeChallenge, Goto

\* A handler that leaves the insertion, with a key or without, closes its
\* challenge and no other.
LEMMA InsertCloses ==
  ASSUME TypeOK, OwnsOK, NEW r \in Redeemers, InsertAPIKey(r)
  PROVE  /\ ch[r] \in Challenges /\ Standing(ch[r]) = "open" /\ Standing(ch[r])' = "closed"
         /\ \A c \in Challenges \ {ch[r]} : Standing(c)' = Standing(c)
  <1>0. /\ pc[r] = "issue" /\ ch' = ch /\ row' = row
        /\ \E l \in {"idle", "cache"} : pc' = [pc EXCEPT ![r] = l]
    BY DEF InsertAPIKey, Goto, table
  <1>1. ch[r] \in Challenges /\ row[ch[r]] \in {"used", "gone"}
    BY <1>0 DEF OwnsOK, Spent
  <1>2. r \in Holders(ch[r])
    BY <1>0 DEF Holders
  <1>3. Standing(ch[r]) = "open"
    BY <1>1, <1>2 DEF Standing
  <1>4. Holders(ch[r])' = {}
    BY <1>0 DEF Holders, OwnsOK, TypeOK
  <1>5. Standing(ch[r])' = "closed"
    BY <1>0, <1>1, <1>4 DEF Standing
  <1>6. \A c \in Challenges \ {ch[r]} : Standing(c)' = Standing(c)
    BY <1>0, StandingFrame DEF TypeOK
  <1>. QED BY <1>1, <1>3, <1>5, <1>6

\* InsertAPIKey is the instant of the exchange.
LEMMA InsertExchanges ==
  ASSUME TypeOK, TypeOK', OwnsOK, KnownOK, KnownOK', NEW r \in Redeemers, InsertAPIKey(r)
  PROVE  Service!Next
  <1>0. PICK c \in Challenges : c = ch[r]
    BY InsertCloses
  <1>1. /\ Standing(c) = "open" /\ Standing(c)' = "closed"
        /\ \A d \in Challenges \ {c} : Standing(d)' = Standing(d)
    <2>1. ch' = ch
      BY DEF InsertAPIKey
    <2>. QED BY <1>0, <2>1, InsertCloses
  <1>2. CASE UNCHANGED <<stored, created, origin>>
    <2>1. now' = now /\ now \in Nat
      BY DEF InsertAPIKey, TypeOK
    <2>2. PICK C \in SUBSET Challenges : C = {c}
      OBVIOUS
    <2>3. /\ \A d \in C : Standing(d) = "open"
          /\ \A d \in Challenges : Standing(d)' = IF d \in C THEN "closed" ELSE Standing(d)
      BY <1>1, <2>2
    <2>. QED BY <1>2, <2>1, <2>3, Upholds
  <1>3. ASSUME NEW k \in Keys \ Issued,
               stored' = stored \cup {k},
               created' = [created EXCEPT ![k] = at[r]],
               origin' = [origin EXCEPT ![k] = ch[r]]
        PROVE  Service!Exchange(c, k)
    <2>0. now' = now /\ keyCache' = keyCache /\ fetched' = fetched /\ ch[r] # None
      BY <1>0, PowAssumption DEF InsertAPIKey
    <2>1. Issued' = Issued \cup {k} /\ k \notin Issued /\ k \in Keys
      BY <1>3, <2>0, KnownInsert
    <2>2. ASSUME NEW l \in Keys \ {k}
          PROVE  KeyExpires(l)' = KeyExpires(l) /\ (LookupKey(l)' <=> LookupKey(l))
      <3>1. KeyExpires(l)' = KeyExpires(l)
        BY <1>3, <2>2 DEF KeyExpires, TypeOK
      <3>. QED BY <1>3, <2>0, <3>1 DEF LookupKey, Live
    <2>3. ~LookupKey(k)
      BY <2>1 DEF KnownOK, LookupKey, Live
    <2>4. KeyExpires(k)' \in Int /\ now \in Int
      BY PowAssumption DEF KeyExpires, TypeOK
    <2>5. \A l \in Keys \ {k} : l \in Lapsed' <=> l \in Lapsed
      BY <2>0, <2>1, <2>2 DEF Lapsed
    <2>6. Lapsed \subseteq Keys \ {k} /\ Lapsed' \subseteq Keys
      BY <2>1 DEF Lapsed, Issued
    <2>7. /\ [d \in Challenges |-> Standing(d)]'
               = [[d \in Challenges |-> Standing(d)] EXCEPT ![c] = "closed"]
          /\ [d \in Challenges |-> Standing(d)][c] = "open"
          /\ origin[k] = None /\ origin' = [origin EXCEPT ![k] = c]
      BY <1>0, <1>1, <1>3, <2>1 DEF Issued
    <2>8. CASE KeyExpires(k)' > now
      <3>1. LookupKey(k)'
        BY <1>3, <2>0, <2>8 DEF LookupKey, Live
      <3>2. {l \in Keys : LookupKey(l)}' = {l \in Keys : LookupKey(l)} \cup {k}
        BY <2>1, <2>2, <3>1
      <3>3. k \notin Lapsed'
        BY <2>0, <2>4, <2>8 DEF Lapsed
      <3>4. Lapsed' = Lapsed
        BY <2>5, <2>6, <3>3
      <3>. QED BY <2>7, <3>2, <3>4 DEF Service!Exchange
    <2>9. CASE ~(KeyExpires(k)' > now)
      <3>1. k \in Lapsed'
        BY <2>0, <2>1, <2>4, <2>9 DEF Lapsed
      <3>2. Lapsed' = Lapsed \cup {k}
        BY <2>1, <2>5, <2>6, <3>1
      <3>3. ~LookupKey(k)'
        BY <2>0, <2>1, <2>9 DEF LookupKey, Live, KnownOK
      <3>4. {l \in Keys : LookupKey(l)}' = {l \in Keys : LookupKey(l)}
        BY <2>2, <2>3, <3>3
      <3>. QED BY <2>7, <3>2, <3>4 DEF Service!Exchange
    <2>. QED BY <2>8, <2>9
  <1>. QED BY <1>2, <1>3 DEF InsertAPIKey, keyTable, Service!Next

\* CleanupChallenges withdraws the fresh challenges it deletes; the ones that
\* are held stay open without their rows.
LEMMA CleanupWithdraws ==
  ASSUME TypeOK, TypeOK', OwnsOK, KnownOK, KnownOK', CleanupChallenges
  PROVE  Service!Next
  <1>. DEFINE C == {c \in Challenges : row[c] = "fresh" /\ row'[c] = "gone"}
  <1>0. /\ UNCHANGED <<now, stored, created, origin, pc, ch>> /\ now \in Nat
        /\ \A c \in Challenges : row'[c] = row[c] \/ (row[c] # "none" /\ row'[c] = "gone")
    <2>1. UNCHANGED <<now, stored, created, origin, pc, ch>> /\ now \in Nat
      BY DEF CleanupChallenges, keyTable, handler, TypeOK
    <2>2. \A c \in Challenges :
            row'[c] = IF row[c] # "none" /\ Expires(c) < now - Grace THEN "gone" ELSE row[c]
      BY DEF CleanupChallenges
    <2>. QED BY <2>1, <2>2
  <1>1. \A c \in Challenges : Holders(c)' = Holders(c)
    BY <1>0 DEF Holders
  <1>2. \A c \in C : Standing(c) = "open" /\ Standing(c)' = "closed"
    BY <1>0, <1>1, FreshUnheld DEF Standing
  <1>3. \A c \in Challenges \ C : Standing(c)' = Standing(c)
    BY <1>0, <1>1 DEF Standing, TypeOK
  <1>. HIDE DEF C
  <1>4. C \in SUBSET Challenges
    BY DEF C
  <1>5. \A c \in Challenges : Standing(c)' = IF c \in C THEN "closed" ELSE Standing(c)
    BY <1>2, <1>3
  <1>. QED BY <1>0, <1>2, <1>4, <1>5, Upholds

\* Restart withdraws the challenges its handlers held.
LEMMA RestartWithdraws ==
  ASSUME TypeOK, TypeOK', OwnsOK, KnownOK, KnownOK', Restart
  PROVE  Service!Next
  <1>. DEFINE C == {c \in Challenges : Holders(c) # {}}
  <1>0. /\ UNCHANGED <<now, row, created, origin, ch>> /\ now \in Nat
        /\ pc' = [r \in Redeemers |-> "idle"]
    BY DEF Restart, table, keyTable, TypeOK
  <1>1. \A c \in Challenges : Holders(c)' = {}
    BY <1>0 DEF Holders
  <1>2. \A c \in C : Standing(c) = "open" /\ Standing(c)' = "closed"
    BY <1>0, <1>1, FreshUnheld DEF Standing, TypeOK
  <1>3. \A c \in Challenges \ C : Standing(c)' = Standing(c)
    BY <1>0, <1>1 DEF Standing
  <1>. HIDE DEF C
  <1>4. C \in SUBSET Challenges
    BY DEF C
  <1>5. \A c \in Challenges : Standing(c)' = IF c \in C THEN "closed" ELSE Standing(c)
    BY <1>2, <1>3
  <1>. QED BY <1>0, <1>2, <1>4, <1>5, Upholds

\* Every step of the service is a step of the exchange.
LEMMA NextExchanges ==
  ASSUME TypeOK, TypeOK', OwnsOK, KnownOK, KnownOK', Next
  PROVE  Service!Next
  <1>. USE DEF table, keyTable, handler, Goto
  <1>0. now \in Nat
    BY DEF TypeOK
  <1>1. CASE Tick
    BY <1>0, <1>1, StandingFrame, UpholdsAll DEF Tick
  <1>2. ASSUME NEW c \in Challenges, Mint(c) PROVE Service!Next
    BY <1>2, MintOffers
  <1>3. ASSUME NEW r \in Redeemers, NEW c \in Challenges, Load(r, c) PROVE Service!Next
    <2>1. \A d \in Challenges : Standing(d)' = Standing(d)
      BY <1>3, StandingFrame DEF Load, TypeOK
    <2>. QED BY <1>0, <1>3, <2>1, UpholdsAll DEF Load
  <1>4. ASSUME NEW r \in Redeemers, ConsumeChallenge(r) PROVE Service!Next
    <2>1. \A d \in Challenges : Standing(d)' = Standing(d)
      BY <1>4, ConsumeKeepsStanding
    <2>. QED BY <1>0, <1>4, <2>1, UpholdsAll DEF ConsumeChallenge
  <1>5. ASSUME NEW r \in Redeemers, BumpIPBonus(r) PROVE Service!Next
    <2>1. \A d \in Challenges : Standing(d)' = Standing(d)
      BY <1>5, StandingFrame DEF BumpIPBonus, TypeOK
    <2>. QED BY <1>0, <1>5, <2>1, UpholdsAll DEF BumpIPBonus
  <1>6. ASSUME NEW r \in Redeemers, InsertAPIKey(r) PROVE Service!Next
    BY <1>6, InsertExchanges
  <1>7. ASSUME NEW r \in Redeemers, Deliver(r) PROVE Service!Next
    <2>1. \A d \in Challenges : Standing(d)' = Standing(d)
      BY <1>7, StandingFrame DEF Deliver, TypeOK
    <2>. QED BY <1>0, <1>7, <2>1, UpholdsAll DEF Deliver
  <1>8. ASSUME NEW l \in Lookers, GetAPIKey(l) \/ CacheFetched(l) PROVE Service!Next
    <2>1. \A d \in Challenges : Standing(d)' = Standing(d)
      BY <1>8, StandingFrame DEF GetAPIKey, CacheFetched
    <2>. QED BY <1>0, <1>8, <2>1, UpholdsAll DEF GetAPIKey, CacheFetched
  <1>9. CASE CleanupChallenges
    BY <1>9, CleanupWithdraws
  <1>10. CASE CleanupKeys
    <2>1. \A d \in Challenges : Standing(d)' = Standing(d)
      BY <1>10, StandingFrame DEF CleanupKeys
    <2>. QED BY <1>0, <1>10, <2>1, UpholdsAll DEF CleanupKeys
  <1>11. CASE Restart
    BY <1>11, RestartWithdraws
  <1>. QED
    BY <1>1, <1>2, <1>3, <1>4, <1>5, <1>6, <1>7, <1>8, <1>9, <1>10, <1>11 DEF Next

\* The service knows only keys it issued, and keeps the rows of those whose
\* time is not over.
THEOREM KnownHolds == Spec => []KnownOK
  <1>1. Init => KnownOK
    BY DEF Init, KnownOK, Issued
  <1>2. Inv /\ Inv' /\ KnownOK /\ [Next]_vars => KnownOK'
    <2>1. Inv /\ Inv' /\ KnownOK /\ Next => KnownOK'
      BY NextKnown DEF Inv
    <2>2. KnownOK /\ UNCHANGED vars => KnownOK'
      BY DEF vars, KnownOK, Issued, Kept, KeyExpires
    <2>. QED BY <2>1, <2>2
  <1>. QED BY <1>1, <1>2, Invariant, PTL DEF Spec

\* handleRedeem, LookupKey, the cleanups and restarts implement KeyExchange:
\* redemption is single-use and takes effect at one instant, an issued key is
\* accepted from then on until its time is over, and no other key ever is.
THEOREM ExchangesHolds == Spec => Exchanges
  <1>1. Init => Service!Init
    <2>. SUFFICES ASSUME Init PROVE Service!Init
      OBVIOUS
    <2>1. /\ row = [c \in Challenges |-> "none"] /\ origin = [k \in Keys |-> None]
          /\ stored = {} /\ keyCache = {}
      BY DEF Init
    <2>2. \A c \in Challenges : Standing(c) = "new"
      BY <2>1 DEF Standing
    <2>3. {k \in Keys : LookupKey(k)} = {} /\ Lapsed = {}
      BY <2>1 DEF LookupKey, Live, Lapsed, Issued
    <2>. QED BY <2>1, <2>2, <2>3 DEF Service!Init
  <1>2. Inv /\ Inv' /\ KnownOK /\ KnownOK' /\ [Next]_vars => [Service!Next]_Service!vars
    <2>1. Inv /\ Inv' /\ KnownOK /\ KnownOK' /\ Next => Service!Next
      BY NextExchanges DEF Inv
    <2>2. UNCHANGED vars => UNCHANGED Service!vars
      BY DEF vars, Service!vars, Standing, Holders, LookupKey, Live, Lapsed, Issued, KeyExpires
    <2>. QED BY <2>1, <2>2
  <1>. QED BY <1>1, <1>2, Invariant, KnownHolds, PTL DEF Spec, Exchanges, Service!Spec

-----------------------------------------------------------------------------
(* Quotas and difficulty: PowQuota.                                        *)

\* The bucket with what was issued is never more than a full one and the time
\* up to its clock; a clock that was turned back left a debt no larger than
\* what the real time pays.
BucketOK ==
  /\ issued \in Nat
  /\ tokens + issued * Minute <= PerMin * Minute + last * PerMin
  /\ 0 <= tokens + (now - last) * PerMin

\* Once there was a flood the escalation is on, for long enough.
FloodOK ==
  /\ flooded \in Int /\ escalateUntil \in Int
  /\ flooded = LongAgo \/ /\ escalation = EscalateBits
                                /\ escalateUntil >= flooded + EscalateFor

\* The average lies between the samples it was taken from.
AverageOK ==
  /\ ewma \in Nat /\ scale \in Nat /\ seen \subseteq SolveTimes
  /\ ewmaCount > 0 /\ (\A s \in seen : s >= TargetMin) => ewma >= TargetMin * scale
  /\ ewmaCount > 0 /\ (\A s \in seen : s <= TargetMax) => ewma <= TargetMax * scale

QuotaInv == QuotaTypeOK /\ BucketOK /\ FloodOK /\ AverageOK

\* The constants, one by one.
LEMMA QuotaConstants ==
  /\ FloodFactor \in Nat /\ EscalateFor \in Nat /\ MinBits \in Nat /\ MaxBits \in Nat
  /\ BaseBits \in Nat /\ TargetMin \in Nat /\ TargetMax \in Nat /\ MinSamples \in Nat
  /\ MaxSamples \in Nat /\ MaxWindow \in Nat /\ MaxTime \in Nat
  /\ Minute \in Nat \ {0} /\ Day \in Nat \ {0} /\ PerMin \in Nat \ {0}
  /\ PerDay \in Nat \ {0} /\ EscalateBits \in Nat \ {0}
  /\ MinBits <= BaseBits /\ BaseBits <= MaxBits /\ SolveTimes \subseteq Nat
  /\ LongAgo \in Int /\ LongAgo < 0 /\ LongAgo + EscalateFor < 0
  <1>1. /\ FloodFactor \in Nat /\ EscalateFor \in Nat /\ MinBits \in Nat /\ MaxBits \in Nat
        /\ BaseBits \in Nat /\ TargetMin \in Nat /\ TargetMax \in Nat /\ MinSamples \in Nat
        /\ MaxSamples \in Nat /\ MaxWindow \in Nat /\ MaxTime \in Nat
    BY QuotaAssumption
  <1>2. /\ Minute \in Nat \ {0} /\ Day \in Nat \ {0} /\ PerMin \in Nat \ {0}
        /\ PerDay \in Nat \ {0} /\ EscalateBits \in Nat \ {0}
    BY QuotaAssumption
  <1>3. MinBits <= BaseBits /\ BaseBits <= MaxBits /\ SolveTimes \subseteq Nat
    BY QuotaAssumption
  <1>4. LongAgo \in Int /\ LongAgo < 0 /\ LongAgo + EscalateFor < 0
    BY <1>1, <1>2 DEF LongAgo
  <1>. QED BY <1>1, <1>2, <1>3, <1>4

\* An address begins with a full bucket and no escalation.
LEMMA QuotaBegins ==
  ASSUME QuotaInit
  PROVE  QuotaInv
  <1>. USE QuotaConstants DEF QuotaInit
  <1>1. QuotaTypeOK
    BY DEF QuotaTypeOK
  <1>2. BucketOK
    BY DEF BucketOK
  <1>3. FloodOK
    BY DEF FloodOK
  <1>4. AverageOK
    BY DEF AverageOK
  <1>. QED BY <1>1, <1>2, <1>3, <1>4 DEF QuotaInv

\* Every step of handleChallenge and RecordSolve keeps the types.
LEMMA QuotaTypes ==
  ASSUME QuotaInv, QuotaNext
  PROVE  QuotaTypeOK'
  <1>. USE QuotaConstants
       DEF QuotaInv, QuotaTypeOK, valve, quota, bits, average, Move
  <1>1. CASE QuotaTick
    BY <1>1 DEF QuotaTick
  <1>2. ASSUME NEW h \in Handlers, Arrive(h) PROVE QuotaTypeOK'
    BY <1>2 DEF Arrive
  <1>3. ASSUME NEW h \in Handlers, Valve(h) PROVE QuotaTypeOK'
    BY <1>3 DEF Valve
  <1>4. ASSUME NEW h \in Handlers, Escalate(h) PROVE QuotaTypeOK'
    BY <1>4 DEF Escalate
  <1>5. ASSUME NEW h \in Handlers, Quota(h) PROVE QuotaTypeOK'
    BY <1>5 DEF Quota
  <1>6. ASSUME NEW secs \in SolveTimes, RecordSolve(secs) PROVE QuotaTypeOK'
    BY <1>6 DEF RecordSolve
  <1>. QED BY <1>1, <1>2, <1>3, <1>4, <1>5, <1>6 DEF QuotaNext

\* The bucket pays what is issued, also when a late handler turns it back.
LEMMA QuotaBucket ==
  ASSUME QuotaInv, QuotaNext
  PROVE  BucketOK'
  <1>0. /\ now \in Nat /\ last \in Nat /\ tokens \in Int /\ issued \in Nat
        /\ Minute \in Nat /\ PerMin \in Nat
        /\ \A h \in Handlers : asked[h] \in 0 .. now
        /\ tokens + issued * Minute <= PerMin * Minute + last * PerMin
        /\ 0 <= tokens + (now - last) * PerMin
    BY QuotaConstants DEF QuotaInv, QuotaTypeOK, BucketOK
  <1>1. CASE QuotaTick
    <2>1. now' = now + 1 /\ UNCHANGED <<tokens, last, issued>>
      BY <1>1 DEF QuotaTick, quota
    <2>2. (now + 1 - last) * PerMin = (now - last) * PerMin + PerMin
      BY <1>0
    <2>. QED BY <1>0, <2>1, <2>2 DEF BucketOK
  <1>2. ASSUME NEW h \in Handlers, Quota(h) PROVE BucketOK'
    <2>. DEFINE t == tokens + (asked[h] - last) * PerMin
                f == IF t > PerMin * Minute THEN PerMin * Minute ELSE t
    <2>1. /\ last' = asked[h] /\ now' = now
          /\ \/ tokens' = f - Minute /\ f >= Minute /\ issued' = issued + 1
             \/ tokens' = f - Minute /\ f >= Minute /\ issued' = issued
             \/ tokens' = f /\ f < Minute /\ issued' = issued
      BY <1>0, <1>2 DEF Quota
    <2>2. asked[h] \in Nat /\ t \in Int /\ PerMin * Minute \in Int /\ f \in Int
      BY <1>0
    <2>3. f <= t /\ (f = t \/ f = PerMin * Minute)
      BY <2>2
    <2>4. /\ (asked[h] - last) * PerMin = asked[h] * PerMin - last * PerMin
          /\ (now - last) * PerMin = now * PerMin - last * PerMin
          /\ (now - asked[h]) * PerMin = now * PerMin - asked[h] * PerMin
          /\ (issued + 1) * Minute = issued * Minute + Minute
          /\ 0 <= (now - asked[h]) * PerMin
      BY <1>0, <2>2
    <2>5. PerMin * Minute >= 0 /\ issued * Minute \in Int /\ last * PerMin \in Int
          /\ asked[h] * PerMin \in Int /\ now * PerMin \in Int
      BY <1>0, <2>2
    <2>6. f + issued * Minute <= PerMin * Minute + asked[h] * PerMin
      BY <1>0, <2>2, <2>3, <2>4, <2>5
    <2>7. 0 <= f + (now - asked[h]) * PerMin
      BY <1>0, <2>2, <2>3, <2>4, <2>5
    <2>. HIDE DEF f, t
    <2>8. tokens' + issued' * Minute <= PerMin * Minute + asked[h] * PerMin
      BY <1>0, <2>1, <2>2, <2>4, <2>5, <2>6
    <2>9. 0 <= tokens' + (now - asked[h]) * PerMin
      BY <1>0, <2>1, <2>2, <2>4, <2>5, <2>7
    <2>10. issued' \in Nat
      BY <1>0, <2>1
    <2>. QED BY <2>1, <2>8, <2>9, <2>10 DEF BucketOK
  <1>3. CASE UNCHANGED <<now, tokens, last, issued>>
    BY <1>0, <1>3 DEF BucketOK
  <1>. QED
    BY <1>1, <1>2, <1>3
       DEF QuotaNext, Arrive, Valve, Escalate, RecordSolve, quota

\* Escalate leaves the escalation on for long enough, and nothing takes it back.
LEMMA QuotaFlood ==
  ASSUME QuotaInv, QuotaNext
  PROVE  FloodOK'
  <1>0. /\ now \in Nat /\ EscalateFor \in Nat /\ EscalateBits \in Nat
        /\ escalation \in {0, EscalateBits} /\ escalateUntil \in Int /\ flooded \in Int
        /\ flooded = LongAgo \/ /\ escalation = EscalateBits
                                      /\ escalateUntil >= flooded + EscalateFor
    BY QuotaConstants DEF QuotaInv, QuotaTypeOK, FloodOK
  <1>1. ASSUME NEW h \in Handlers, Escalate(h) PROVE FloodOK'
    <2>1. /\ flooded' = now
          /\ escalation' = IF escalation < EscalateBits \/ now > escalateUntil
                           THEN EscalateBits ELSE escalation
          /\ escalateUntil' = IF EscalateFor > escalateUntil - now \/ now > escalateUntil
                              THEN now + EscalateFor ELSE escalateUntil
      BY <1>1 DEF Escalate
    <2>2. escalation' = EscalateBits
      BY <1>0, <2>1
    <2>3. escalateUntil' \in Int /\ escalateUntil' >= now + EscalateFor
      BY <1>0, <2>1
    <2>. QED BY <1>0, <2>1, <2>2, <2>3 DEF FloodOK
  <1>2. CASE UNCHANGED <<escalation, escalateUntil, flooded>>
    BY <1>0, <1>2 DEF FloodOK
  <1>. QED
    BY <1>1, <1>2
       DEF QuotaNext, QuotaTick, Arrive, Valve, Quota, RecordSolve,
           bits

\* Products keep their order.
LEMMA Scaled ==
  ASSUME NEW a \in Nat, NEW b \in Nat, NEW c \in Nat, a <= b
  PROVE  a * c <= b * c
  OBVIOUS

\* What a sample does to the average: it stays between the samples.
LEMMA Averaged ==
  ASSUME NEW T \in Nat, NEW x \in Nat, NEW e \in Nat, NEW d \in Nat
  PROVE  /\ x >= T /\ e >= T * d => x * d + 4 * e >= T * (5 * d)
         /\ x <= T /\ e <= T * d => x * d + 4 * e <= T * (5 * d)
  <1>1. T * (5 * d) = 5 * (T * d) /\ T * d \in Nat /\ x * d \in Nat
    OBVIOUS
  <1>2. (x >= T => x * d >= T * d) /\ (x <= T => x * d <= T * d)
    BY Scaled
  <1>. QED BY <1>1, <1>2

\* With the next sample the average still lies between the samples.
LEMMA QuotaSample ==
  ASSUME QuotaInv, NEW secs \in SolveTimes
  PROVE  LET n == ewmaCount + 1
             e == IF n = 1 THEN secs ELSE secs * scale + 4 * ewma
             d == IF n = 1 THEN 1 ELSE 5 * scale
         IN  /\ e \in Nat /\ d \in Nat
             /\ (\A s \in seen \cup {secs} : s >= TargetMin) => e >= TargetMin * d
             /\ (\A s \in seen \cup {secs} : s <= TargetMax) => e <= TargetMax * d
  <1>. DEFINE n == ewmaCount + 1
              e == IF n = 1 THEN secs ELSE secs * scale + 4 * ewma
              d == IF n = 1 THEN 1 ELSE 5 * scale
  <1>0. /\ ewmaCount \in Nat /\ ewma \in Nat /\ scale \in Nat
        /\ ewmaCount > 0 /\ (\A s \in seen : s >= TargetMin) => ewma >= TargetMin * scale
        /\ ewmaCount > 0 /\ (\A s \in seen : s <= TargetMax) => ewma <= TargetMax * scale
        /\ TargetMin \in Nat /\ TargetMax \in Nat /\ secs \in Nat
    BY QuotaConstants DEF QuotaInv, QuotaTypeOK, AverageOK
  <1>1. e \in Nat /\ d \in Nat
    BY <1>0
  <1>2. ASSUME \A s \in seen \cup {secs} : s >= TargetMin PROVE e >= TargetMin * d
    <2>1. secs >= TargetMin /\ (n # 1 => ewma >= TargetMin * scale)
      <3>1. secs >= TargetMin /\ \A s \in seen : s >= TargetMin
        BY <1>2
      <3>2. n # 1 => ewmaCount > 0
        BY <1>0
      <3>. QED BY <1>0, <3>1, <3>2
    <2>2. CASE n = 1
      BY <1>0, <2>1, <2>2
    <2>3. CASE n # 1
      <3>1. secs * scale + 4 * ewma >= TargetMin * (5 * scale)
        BY <1>0, <2>1, <2>3, Averaged
      <3>. QED BY <2>3, <3>1
    <2>. QED BY <2>2, <2>3
  <1>3. ASSUME \A s \in seen \cup {secs} : s <= TargetMax PROVE e <= TargetMax * d
    <2>1. secs <= TargetMax /\ (n # 1 => ewma <= TargetMax * scale)
      <3>1. secs <= TargetMax /\ \A s \in seen : s <= TargetMax
        BY <1>3
      <3>2. n # 1 => ewmaCount > 0
        BY <1>0
      <3>. QED BY <1>0, <3>1, <3>2
    <2>2. CASE n = 1
      BY <1>0, <2>1, <2>2
    <2>3. CASE n # 1
      <3>1. secs * scale + 4 * ewma <= TargetMax * (5 * scale)
        BY <1>0, <2>1, <2>3, Averaged
      <3>. QED BY <2>3, <3>1
    <2>. QED BY <2>2, <2>3
  <1>. QED BY <1>1, <1>2, <1>3

\* A sample moves the average towards itself; a base that moves starts afresh.
LEMMA QuotaAverage ==
  ASSUME QuotaInv, QuotaNext
  PROVE  AverageOK'
  <1>0. /\ ewmaCount \in Nat /\ ewma \in Nat /\ scale \in Nat /\ seen \subseteq SolveTimes
        /\ ewmaCount > 0 /\ (\A s \in seen : s >= TargetMin) => ewma >= TargetMin * scale
        /\ ewmaCount > 0 /\ (\A s \in seen : s <= TargetMax) => ewma <= TargetMax * scale
        /\ TargetMin \in Nat /\ TargetMax \in Nat /\ SolveTimes \subseteq Nat
    BY QuotaConstants DEF QuotaInv, QuotaTypeOK, AverageOK
  <1>1. ASSUME NEW secs \in SolveTimes, RecordSolve(secs) PROVE AverageOK'
    <2>. DEFINE n == ewmaCount + 1
                e == IF n = 1 THEN secs ELSE secs * scale + 4 * ewma
                d == IF n = 1 THEN 1 ELSE 5 * scale
    <2>1. \/ ewmaCount' = 0 /\ ewma' = 0 /\ scale' = 1 /\ seen' = {}
          \/ ewmaCount' = n /\ ewma' = e /\ scale' = d /\ seen' = seen \cup {secs}
      BY <1>1 DEF RecordSolve
    <2>2. /\ e \in Nat /\ d \in Nat
          /\ (\A s \in seen \cup {secs} : s >= TargetMin) => e >= TargetMin * d
          /\ (\A s \in seen \cup {secs} : s <= TargetMax) => e <= TargetMax * d
      BY QuotaSample
    <2>. HIDE DEF e, d
    <2>5. CASE ewmaCount' = 0 /\ ewma' = 0 /\ scale' = 1 /\ seen' = {}
      BY <2>5 DEF AverageOK
    <2>6. CASE ewmaCount' = n /\ ewma' = e /\ scale' = d /\ seen' = seen \cup {secs}
      BY <1>0, <2>2, <2>6 DEF AverageOK
    <2>. QED BY <2>1, <2>5, <2>6
  <1>2. CASE UNCHANGED <<ewmaCount, ewma, scale, seen>>
    BY <1>0, <1>2 DEF AverageOK
  <1>. QED
    BY <1>1, <1>2
       DEF QuotaNext, QuotaTick, Arrive, Valve, Escalate, Quota,
           average

\* The invariant is kept by every step.
LEMMA QuotaStep ==
  ASSUME QuotaInv, [QuotaNext]_quotaVars
  PROVE  QuotaInv'
  <1>1. CASE QuotaNext
    BY <1>1, QuotaTypes, QuotaBucket, QuotaFlood, QuotaAverage DEF QuotaInv
  <1>2. CASE UNCHANGED quotaVars
    BY <1>2 DEF quotaVars, QuotaInv, QuotaTypeOK, BucketOK, FloodOK, AverageOK
  <1>. QED BY <1>1, <1>2

\* What was issued is paid by the bucket, whose clock is not ahead.
LEMMA QuotaRate ==
  ASSUME QuotaInv
  PROVE  RateBound
  <1>1. /\ now \in Nat /\ last \in Nat /\ tokens \in Int /\ issued \in Nat
        /\ Minute \in Nat /\ PerMin \in Nat
        /\ tokens + issued * Minute <= PerMin * Minute + last * PerMin
        /\ 0 <= tokens + (now - last) * PerMin
    BY QuotaConstants DEF QuotaInv, QuotaTypeOK, BucketOK
  <1>2. (now - last) * PerMin = now * PerMin - last * PerMin
    BY <1>1
  <1>3. /\ issued * Minute \in Int /\ PerMin * Minute \in Int
        /\ last * PerMin \in Int /\ now * PerMin \in Int
    BY <1>1
  <1>4. issued * Minute <= PerMin * Minute + now * PerMin
    BY <1>1, <1>2, <1>3
  <1>. QED BY <1>4 DEF RateBound

\* While a flood is recent its bits are added, as far as MaxBits allows.
LEMMA QuotaRaised ==
  ASSUME QuotaInv
  PROVE  FloodRaises
  <1>. SUFFICES ASSUME now < flooded + EscalateFor
                PROVE  /\ escalateUntil >= flooded + EscalateFor
                       /\ \/ Current(0, 0) >= base + EscalateBits
                          \/ Current(0, 0) = MaxBits
    BY DEF FloodRaises
  <1>1. /\ now \in Nat /\ base \in Nat /\ MinBits \in Nat /\ MaxBits \in Nat
        /\ EscalateBits \in Nat /\ flooded # LongAgo
    BY QuotaConstants DEF QuotaInv, QuotaTypeOK
  <1>2. escalation = EscalateBits /\ escalateUntil >= flooded + EscalateFor
    BY <1>1 DEF QuotaInv, FloodOK
  <1>3. Current(0, 0) >= base + EscalateBits \/ Current(0, 0) = MaxBits
    BY <1>1, <1>2 DEF Current
  <1>. QED BY <1>2, <1>3

\* A base that rises has an average under the target, so a sample under it.
LEMMA QuotaMoves ==
  ASSUME QuotaInv, NEW secs \in SolveTimes, RecordSolve(secs)
  PROVE  /\ base' > base => \E s \in seen \cup {secs} : s < TargetMin
         /\ base' < base => \E s \in seen \cup {secs} : s > TargetMax
  <1>0. /\ ewmaCount \in Nat /\ ewma \in Nat /\ scale \in Nat /\ seen \subseteq SolveTimes
        /\ ewmaCount > 0 /\ (\A s \in seen : s >= TargetMin) => ewma >= TargetMin * scale
        /\ ewmaCount > 0 /\ (\A s \in seen : s <= TargetMax) => ewma <= TargetMax * scale
        /\ TargetMin \in Nat /\ TargetMax \in Nat /\ SolveTimes \subseteq Nat /\ base \in Nat
    BY QuotaConstants DEF QuotaInv, QuotaTypeOK, AverageOK
  <1>. DEFINE n == ewmaCount + 1
              e == IF n = 1 THEN secs ELSE secs * scale + 4 * ewma
              d == IF n = 1 THEN 1 ELSE 5 * scale
  <1>1. /\ base' > base => e < TargetMin * d
        /\ base' < base => e > TargetMax * d
    BY <1>0 DEF RecordSolve
  <1>2. /\ e \in Nat /\ d \in Nat
        /\ (\A s \in seen \cup {secs} : s >= TargetMin) => e >= TargetMin * d
        /\ (\A s \in seen \cup {secs} : s <= TargetMax) => e <= TargetMax * d
    BY QuotaSample
  <1>3. \A s \in seen \cup {secs} : s \in Nat
    BY <1>0
  <1>. HIDE DEF e, d, n
  <1>4. TargetMin * d \in Nat /\ TargetMax * d \in Nat
    BY <1>0, <1>2
  <1>5. base' > base => \E s \in seen \cup {secs} : s < TargetMin
    BY <1>0, <1>1, <1>2, <1>3, <1>4
  <1>6. base' < base => \E s \in seen \cup {secs} : s > TargetMax
    BY <1>0, <1>1, <1>2, <1>3, <1>4
  <1>. QED BY <1>5, <1>6

\* The bucket, the escalation and the average stay consistent.
THEOREM QuotaInvariant == QuotaSpec => []QuotaInv
  <1>1. QuotaInit => QuotaInv
    BY QuotaBegins
  <1>2. QuotaInv /\ [QuotaNext]_quotaVars => QuotaInv'
    BY QuotaStep
  <1>. QED BY <1>1, <1>2, PTL DEF QuotaSpec

\* Every variable of the quotas keeps its type: no sample moves the base out
\* of the configured bits and no day counts more than its cap.
THEOREM QuotaTypeCorrect == QuotaSpec => []QuotaTypeOK
  <1>1. QuotaInv => QuotaTypeOK
    BY DEF QuotaInv
  <1>. QED BY <1>1, QuotaInvariant, PTL

\* handleChallenge: whatever order late handlers come in, no more challenges
\* are issued to an address than its bucket and the time that passed allow.
THEOREM RateBoundHolds == QuotaSpec => []RateBound
  <1>1. QuotaInv => RateBound
    BY QuotaRate
  <1>. QED BY <1>1, QuotaInvariant, PTL

\* Escalate: a flood raises the difficulty for the whole time that follows it,
\* also when an escalation was running already.
THEOREM FloodRaisesHolds == QuotaSpec => []FloodRaises
  <1>1. QuotaInv => FloodRaises
    BY QuotaRaised
  <1>. QED BY <1>1, QuotaInvariant, PTL

\* RecordSolve: the base rises only if somebody was faster than the target,
\* and falls only if somebody was slower, since it last moved.
THEOREM BaseFollowsHolds == QuotaSpec => BaseFollows
  <1>1. QuotaInv => [\A secs \in SolveTimes : RecordSolve(secs) =>
                       /\ base' > base => \E s \in seen \cup {secs} : s < TargetMin
                       /\ base' < base => \E s \in seen \cup {secs} : s > TargetMax]_quotaVars
    BY QuotaMoves
  <1>. QED BY <1>1, QuotaInvariant, PTL DEF BaseFollows

-----------------------------------------------------------------------------
(* The limits of a key: KeyLimits.                                        *)

\* Requests are let through in the order of the clock, none of them later
\* than now.
AdmittedOK ==
  /\ admitted \in Seq(Nat)
  /\ \A i \in 1 .. Len(admitted) : admitted[i] <= now
  /\ \A i, j \in 1 .. Len(admitted) : i <= j => admitted[i] <= admitted[j]

\* A call that took its time long ago turns the bucket's clock back; the debt
\* is one that the time it was late pays.
DebtOK ==
  /\ now \in Nat /\ keyLast \in Nat /\ keyLast <= now /\ keyTokens \in Int
  /\ keyTokens <= RPM * Token
  /\ 0 <= keyTokens + (now - keyLast) * RPM
  /\ 0 <= keyTokens + Lag * RPM

\* What was let through since any admission and what is left in the bucket
\* are a full bucket and the time since, up to the bucket's clock.
PaidFor ==
  \A i \in 1 .. Len(admitted) :
    (Len(admitted) - i + 1) * Token + keyTokens
      <= RPM * Token + (keyLast - admitted[i] + Lag) * RPM

RateInv == AdmittedOK /\ DebtOK /\ PaidFor /\ RpmBound

\* The constants, one by one.
LEMMA LimitConstants ==
  /\ Second \in Nat /\ Token \in Nat /\ RPM \in Nat /\ RPM > 0 /\ BurstRPS \in Nat
  /\ BurstCooldown \in Nat /\ BurstCooldown >= Second /\ Lag \in Nat
  /\ RPM * Token \in Nat /\ RPM * Token >= Token /\ Lag * RPM \in Nat
  <1>1. /\ Second \in Nat /\ Token \in Nat /\ RPM \in Nat /\ RPM > 0 /\ BurstRPS \in Nat
        /\ BurstCooldown \in Nat /\ BurstCooldown >= Second /\ Lag \in Nat
    BY LimitAssumption
  <1>2. RPM * Token \in Nat /\ Lag * RPM \in Nat /\ (RPM - 1) * Token >= 0
    BY <1>1
  <1>3. (RPM - 1) * Token = RPM * Token - Token
    BY <1>1
  <1>. QED BY <1>1, <1>2, <1>3

\* A key begins with a full bucket.
LEMMA RateInit ==
  ASSUME LimitInit
  PROVE  RateInv
  <1>1. AdmittedOK
    BY DEF LimitInit, AdmittedOK
  <1>2. DebtOK
    BY LimitConstants DEF LimitInit, DebtOK
  <1>3. PaidFor /\ RpmBound
    BY DEF LimitInit, PaidFor, RpmBound
  <1>. QED BY <1>1, <1>2, <1>3 DEF RateInv

\* The time passes.
LEMMA RateElapse ==
  ASSUME RateInv, Elapse
  PROVE  RateInv'
  <1>0. /\ now' = now + 1 /\ keyTokens' = keyTokens /\ keyLast' = keyLast
        /\ admitted' = admitted
    BY DEF Elapse
  <1>1. AdmittedOK'
    <2>1. now \in Nat /\ AdmittedOK
      BY DEF RateInv, DebtOK
    <2>2. \A i \in 1 .. Len(admitted) : admitted[i] \in Nat
      BY <2>1 DEF AdmittedOK
    <2>. QED BY <1>0, <2>1, <2>2 DEF AdmittedOK
  <1>2. DebtOK'
    <2>1. (now + 1 - keyLast) * RPM = (now - keyLast) * RPM + RPM
      BY LimitConstants DEF RateInv, DebtOK
    <2>. QED BY <1>0, <2>1, LimitConstants DEF RateInv, DebtOK
  <1>3. PaidFor' /\ RpmBound'
    BY <1>0 DEF RateInv, PaidFor, RpmBound
  <1>. QED BY <1>1, <1>2, <1>3 DEF RateInv

\* Products over sums.
LEMMA Spread ==
  ASSUME NEW x \in Int, NEW y \in Int, NEW z \in Int, NEW r \in Int
  PROVE  /\ (x - y + z) * r = x * r - y * r + z * r
         /\ (x - y) * r = x * r - y * r
         /\ x * r \in Int /\ y * r \in Int /\ z * r \in Int
  OBVIOUS

\* The account of n requests since time a, when the bucket with k units at
\* time l becomes one with f units at time t.
LEMMA Account ==
  ASSUME NEW n \in Int, NEW m \in Int, NEW k \in Int, NEW f \in Int, NEW c \in Int,
         NEW l \in Int, NEW t \in Int, NEW a \in Int, NEW g \in Int, NEW r \in Int,
         n * m + k <= c + (l - a + g) * r,
         f <= k + t * r - l * r
  PROVE  n * m + f <= c + (t - a + g) * r
  <1>1. (l - a + g) * r = l * r - a * r + g * r /\ (t - a + g) * r = t * r - a * r + g * r
    BY Spread
  <1>2. PICK nm \in Int : nm = n * m
    OBVIOUS
  <1>3. PICK lr \in Int, ar \in Int, gr \in Int, tr \in Int :
          lr = l * r /\ ar = a * r /\ gr = g * r /\ tr = t * r
    BY Spread
  <1>4. nm + k <= c + (lr - ar + gr) /\ f <= k + tr - lr
    BY <1>1, <1>2, <1>3
  <1>5. nm + f <= c + (tr - ar + gr)
    BY <1>2, <1>3, <1>4
  <1>. QED BY <1>1, <1>2, <1>3, <1>5

\* One request more for one token less.
LEMMA AccountOne ==
  ASSUME NEW n \in Int, NEW m \in Int, NEW f \in Int
  PROVE  (n + 1) * m + (f - m) = n * m + f
  OBVIOUS

\* The numbers of a call that came to the bucket with time t.
LEMMA RateFilled ==
  ASSUME RateInv, NEW t \in Stamps
  PROVE  /\ t \in Nat /\ t <= now /\ now - Lag <= t
         /\ Filled(t) \in Int
         /\ Filled(t) <= RPM * Token
         /\ Filled(t) <= keyTokens + t * RPM - keyLast * RPM
         /\ 0 <= Filled(t) + (now - t) * RPM
         /\ 0 <= Filled(t) + Lag * RPM
         /\ (now - t) * RPM \in Int /\ 0 <= (now - t) * RPM
  <1>0. /\ now \in Nat /\ keyLast \in Nat /\ keyTokens \in Int
        /\ 0 <= keyTokens + (now - keyLast) * RPM
        /\ RPM \in Nat /\ Lag \in Nat /\ RPM * Token \in Nat
    BY LimitConstants DEF RateInv, DebtOK
  <1>1. t \in Nat /\ t <= now /\ now - Lag <= t
    BY <1>0 DEF Stamps
  <1>2. /\ (t - keyLast) * RPM = t * RPM - keyLast * RPM
        /\ (now - keyLast) * RPM = now * RPM - keyLast * RPM
        /\ (now - t) * RPM = now * RPM - t * RPM
        /\ (t + Lag - now) * RPM = t * RPM + Lag * RPM - now * RPM
    BY <1>0, <1>1
  <1>3. /\ t * RPM \in Int /\ keyLast * RPM \in Int /\ now * RPM \in Int /\ Lag * RPM \in Int
        /\ 0 <= (now - t) * RPM /\ 0 <= (t + Lag - now) * RPM
    BY <1>0, <1>1
  <1>4. Filled(t) = IF keyTokens + t * RPM - keyLast * RPM > RPM * Token
                           THEN RPM * Token ELSE keyTokens + t * RPM - keyLast * RPM
    BY <1>0, <1>2, <1>3 DEF Filled
  <1>5. /\ Filled(t) \in Int
        /\ Filled(t) <= RPM * Token
        /\ Filled(t) <= keyTokens + t * RPM - keyLast * RPM
    BY <1>0, <1>3, <1>4
  <1>6. /\ 0 <= Filled(t) + (now - t) * RPM
        /\ 0 <= Filled(t) + Lag * RPM
    BY <1>0, <1>2, <1>3, <1>4
  <1>. QED BY <1>1, <1>2, <1>3, <1>5, <1>6

\* A call that finds no token moves the bucket's clock and nothing else.
LEMMA RateLimit ==
  ASSUME RateInv, NEW t \in Stamps, Limit(t)
  PROVE  RateInv'
  <1>0. /\ now' = now /\ keyTokens' = Filled(t) /\ keyLast' = t
        /\ admitted' = admitted
    BY DEF Limit, Pass
  <1>1. AdmittedOK'
    BY <1>0 DEF RateInv, AdmittedOK
  <1>2. DebtOK'
    <2>1. now \in Nat
      BY DEF RateInv, DebtOK
    <2>. QED BY <1>0, <2>1, RateFilled DEF DebtOK
  <1>3. PaidFor'
    <2>. SUFFICES ASSUME NEW i \in 1 .. Len(admitted)
                  PROVE  (Len(admitted) - i + 1) * Token + Filled(t)
                           <= RPM * Token + (t - admitted[i] + Lag) * RPM
      BY <1>0 DEF PaidFor
    <2>1. /\ Len(admitted) \in Nat /\ i \in Nat /\ admitted[i] \in Nat /\ keyLast \in Nat
          /\ keyTokens \in Int
          /\ (Len(admitted) - i + 1) * Token + keyTokens
               <= RPM * Token + (keyLast - admitted[i] + Lag) * RPM
      BY DEF RateInv, AdmittedOK, DebtOK, PaidFor
    <2>2. /\ t \in Nat /\ Filled(t) \in Int
          /\ Filled(t) <= keyTokens + t * RPM - keyLast * RPM
      BY RateFilled
    <2>3. RPM \in Nat /\ Lag \in Nat /\ Token \in Nat /\ RPM * Token \in Nat
      BY LimitConstants
    <2>4. PICK n : n \in Int /\ n = Len(admitted) - i + 1
      BY <2>1
    <2>4a. PICK a : a \in Int /\ a = admitted[i]
      BY <2>1
    <2>5. PICK f \in Int, c \in Int : f = Filled(t) /\ c = RPM * Token
      BY <2>2, <2>3
    <2>6. n * Token + keyTokens <= c + (keyLast - a + Lag) * RPM
      BY <2>1, <2>4, <2>4a, <2>5
    <2>7. f <= keyTokens + t * RPM - keyLast * RPM
      BY <2>2, <2>5
    <2>8. n * Token + f <= c + (t - a + Lag) * RPM
      <3>1. /\ n \in Int /\ a \in Int /\ f \in Int /\ c \in Int /\ t \in Int /\ keyLast \in Int
            /\ keyTokens \in Int /\ Token \in Int /\ Lag \in Int /\ RPM \in Int
        BY <2>1, <2>2, <2>3, <2>4, <2>4a, <2>5
      <3>. QED BY <2>6, <2>7, <3>1, Account
    <2>. QED BY <2>4, <2>4a, <2>5, <2>8
  <1>4. RpmBound'
    BY <1>0 DEF RateInv, RpmBound
  <1>. QED BY <1>1, <1>2, <1>3, <1>4 DEF RateInv

\* The list of admissions with one more, which is the latest.
LEMMA OneMore ==
  ASSUME now \in Nat, AdmittedOK, admitted' = Append(admitted, now), now' = now
  PROVE  /\ AdmittedOK'
         /\ Len(admitted) \in Nat /\ Len(admitted') = Len(admitted) + 1
         /\ admitted'[Len(admitted) + 1] = now
         /\ \A i \in 1 .. Len(admitted) : admitted'[i] = admitted[i]
  <1>1. /\ Len(admitted) \in Nat /\ Len(admitted') = Len(admitted) + 1
        /\ admitted' \in Seq(Nat)
        /\ admitted'[Len(admitted) + 1] = now
        /\ \A i \in 1 .. Len(admitted) : admitted'[i] = admitted[i]
    BY DEF AdmittedOK
  <1>2. \A i \in 1 .. Len(admitted) : admitted[i] \in Nat /\ admitted[i] <= now
    BY DEF AdmittedOK
  <1>3. \A i \in 1 .. Len(admitted') : i \in 1 .. Len(admitted) \/ i = Len(admitted) + 1
    BY <1>1
  <1>4. \A i \in 1 .. Len(admitted') : admitted'[i] <= now
    BY <1>1, <1>2, <1>3
  <1>5. ASSUME NEW i \in 1 .. Len(admitted'), NEW j \in 1 .. Len(admitted'), i <= j
        PROVE  admitted'[i] <= admitted'[j]
    <2>1. CASE j = Len(admitted) + 1
      BY <1>1, <1>4, <2>1
    <2>2. CASE j \in 1 .. Len(admitted)
      <3>1. i \in 1 .. Len(admitted)
        BY <1>1, <1>5, <2>2
      <3>. QED BY <1>1, <1>5, <2>2, <3>1 DEF AdmittedOK
    <2>. QED BY <1>3, <2>1, <2>2
  <1>. QED BY <1>1, <1>4, <1>5 DEF AdmittedOK

\* A call that takes a token.
LEMMA RateAdmit ==
  ASSUME RateInv, NEW t \in Stamps, Admit(t)
  PROVE  RateInv'
  <1>0. /\ now' = now /\ keyTokens' = Filled(t) - Token /\ keyLast' = t
        /\ admitted' = Append(admitted, now) /\ Filled(t) >= Token
    BY DEF Admit, Pass
  <1>1. /\ AdmittedOK'
        /\ Len(admitted) \in Nat /\ Len(admitted') = Len(admitted) + 1
        /\ admitted'[Len(admitted) + 1] = now
        /\ \A i \in 1 .. Len(admitted) : admitted'[i] = admitted[i]
    BY <1>0, OneMore DEF RateInv, DebtOK
  <1>2. /\ t \in Nat /\ t <= now /\ now - Lag <= t /\ now \in Nat
        /\ Filled(t) \in Int /\ Filled(t) <= RPM * Token
        /\ Filled(t) <= keyTokens + t * RPM - keyLast * RPM
        /\ (now - t) * RPM \in Int /\ 0 <= (now - t) * RPM
    BY RateFilled DEF RateInv, DebtOK
  <1>3. /\ RPM \in Nat /\ Lag \in Nat /\ Token \in Nat /\ RPM * Token \in Nat
        /\ Lag * RPM \in Nat
    BY LimitConstants
  <1>4. DebtOK'
    <2>1. PICK f \in Int : f = Filled(t)
      BY <1>2
    <2>2. f - Token <= RPM * Token /\ 0 <= f - Token /\ f - Token \in Int
      BY <1>0, <1>2, <1>3, <2>1
    <2>3. 0 <= f - Token + (now - t) * RPM /\ 0 <= f - Token + Lag * RPM
      BY <1>2, <1>3, <2>2
    <2>. QED BY <1>0, <1>2, <2>1, <2>2, <2>3 DEF DebtOK
  <1>5. PaidFor'
    <2>. SUFFICES ASSUME NEW i \in 1 .. Len(admitted) + 1
                  PROVE  (Len(admitted) + 1 - i + 1) * Token + (Filled(t) - Token)
                           <= RPM * Token + (t - admitted'[i] + Lag) * RPM
      BY <1>0, <1>1 DEF PaidFor
    <2>1. CASE i \in 1 .. Len(admitted)
      <3>1. /\ i \in Nat /\ admitted[i] \in Nat /\ keyLast \in Nat
            /\ keyTokens \in Int
            /\ (Len(admitted) - i + 1) * Token + keyTokens
                 <= RPM * Token + (keyLast - admitted[i] + Lag) * RPM
        BY <2>1 DEF RateInv, AdmittedOK, DebtOK, PaidFor
      <3>2. PICK n : n \in Int /\ n = Len(admitted) - i + 1
        BY <1>1, <3>1
      <3>2a. PICK a : a \in Int /\ a = admitted[i]
        BY <3>1
      <3>3. PICK f \in Int, c \in Int : f = Filled(t) /\ c = RPM * Token
        BY <1>2, <1>3
      <3>4. n * Token + keyTokens <= c + (keyLast - a + Lag) * RPM
        BY <3>1, <3>2, <3>2a, <3>3
      <3>5. f <= keyTokens + t * RPM - keyLast * RPM
        BY <1>2, <3>3
      <3>6. n * Token + f <= c + (t - a + Lag) * RPM
        <4>1. /\ n \in Int /\ a \in Int /\ f \in Int /\ c \in Int /\ t \in Int /\ keyLast \in Int
              /\ keyTokens \in Int /\ Token \in Int /\ Lag \in Int /\ RPM \in Int
          BY <1>2, <1>3, <3>1, <3>2, <3>2a, <3>3
        <4>. QED BY <3>4, <3>5, <4>1, Account
      <3>7. (n + 1) * Token + (f - Token) <= c + (t - a + Lag) * RPM
        BY <1>3, <3>2, <3>6, AccountOne
      <3>8. Len(admitted) + 1 - i + 1 = n + 1 /\ admitted'[i] = a
        BY <1>1, <2>1, <3>1, <3>2, <3>2a
      <3>. QED BY <3>3, <3>7, <3>8
    <2>2. CASE i = Len(admitted) + 1
      <3>1. Len(admitted) + 1 - i + 1 = 1 /\ admitted'[i] = now
        BY <1>1, <2>2
      <3>2. PICK f \in Int, c \in Int : f = Filled(t) /\ c = RPM * Token
        BY <1>2, <1>3
      <3>3. PICK p \in Int : p = (t - now + Lag) * RPM /\ 0 <= p
        <4>1. t - now + Lag \in Nat
          BY <1>2, <1>3
        <4>. QED BY <1>3, <4>1
      <3>4. 1 * Token + (f - Token) <= c + p
        BY <1>2, <1>3, <3>2, <3>3
      <3>. QED BY <3>1, <3>2, <3>3, <3>4
    <2>. QED BY <1>1, <2>1, <2>2
  <1>6. RpmBound'
    <2>. SUFFICES ASSUME NEW i \in 1 .. Len(admitted) + 1, NEW j \in 1 .. Len(admitted) + 1,
                         i <= j
                  PROVE  (j - i + 1) * Token
                           <= RPM * Token + (admitted'[j] - admitted'[i] + Lag) * RPM
      BY <1>1 DEF RpmBound
    <2>1. CASE j \in 1 .. Len(admitted)
      <3>1. i \in 1 .. Len(admitted)
        BY <1>1, <2>1
      <3>2. RpmBound
        BY DEF RateInv
      <3>3. (j - i + 1) * Token <= RPM * Token + (admitted[j] - admitted[i] + Lag) * RPM
        BY <2>1, <3>1, <3>2 DEF RpmBound
      <3>. QED BY <1>1, <2>1, <3>1, <3>3
    <2>2. CASE j = Len(admitted) + 1
      <3>1. (Len(admitted) + 1 - i + 1) * Token + (Filled(t) - Token)
              <= RPM * Token + (t - admitted'[i] + Lag) * RPM
        BY <1>0, <1>1, <1>5 DEF PaidFor
      <3>2. admitted'[i] \in Nat /\ admitted'[j] = now
        BY <1>1, <2>2 DEF AdmittedOK
      <3>3. PICK n : n \in Int /\ n = Len(admitted) + 1 - i + 1
        BY <1>1
      <3>3a. PICK a : a \in Int /\ a = admitted'[i]
        BY <3>2
      <3>4. PICK f \in Int, c \in Int : f = Filled(t) - Token /\ c = RPM * Token
        BY <1>2, <1>3
      <3>5. 0 <= f
        BY <1>0, <1>2, <1>3, <3>4
      <3>5a. n * Token + f <= c + (t - a + Lag) * RPM
        BY <3>1, <3>3, <3>3a, <3>4
      <3>6. 0 <= f + now * RPM - t * RPM
        BY <1>2, <1>3, <3>5, Spread
      <3>7. n * Token + 0 <= c + (now - a + Lag) * RPM
        <4>1. /\ n \in Int /\ a \in Int /\ f \in Int /\ c \in Int /\ t \in Int /\ now \in Int
              /\ 0 \in Int /\ Token \in Int /\ Lag \in Int /\ RPM \in Int
          BY <1>2, <1>3, <3>3, <3>3a, <3>4
        <4>. QED BY <3>5a, <3>6, <4>1, Account
      <3>8. n * Token <= c + (now - a + Lag) * RPM
        BY <1>3, <3>3, <3>7
      <3>9. n = j - i + 1
        BY <1>1, <2>2, <3>3
      <3>. QED BY <3>2, <3>3, <3>3a, <3>4, <3>8, <3>9
    <2>. QED BY <1>1, <2>1, <2>2
  <1>. QED BY <1>1, <1>4, <1>5, <1>6 DEF RateInv

\* Every step of checkKeyLimits keeps the account.
LEMMA RateStep ==
  ASSUME RateInv, [LimitNext]_limitVars
  PROVE  RateInv'
  <1>1. CASE UNCHANGED <<now, keyTokens, keyLast, admitted>>
    BY <1>1 DEF RateInv, AdmittedOK, DebtOK, PaidFor, RpmBound
  <1>2. ASSUME NEW t \in Stamps, Refuse(t) \/ Slip(t) \/ Trip(t) PROVE RateInv'
    BY <1>1, <1>2 DEF Refuse, Slip, Trip, limitVars
  <1>3. CASE UNCHANGED limitVars
    BY <1>1, <1>3 DEF limitVars
  <1>. QED BY <1>2, <1>3, RateElapse, RateLimit, RateAdmit DEF LimitNext

\* A call that comes late enough finds a token.
LEMMA RatePolite ==
  ASSUME RateInv
  PROVE  PoliteIsServed
  <1>. SUFFICES ASSUME NEW t \in Stamps, (t - keyLast - Lag) * RPM >= Token
                PROVE  Verdict(t) # "rate_limited"
    BY DEF PoliteIsServed
  <1>1. /\ keyLast \in Nat /\ keyTokens \in Int /\ now \in Nat /\ 0 <= keyTokens + Lag * RPM
        /\ RPM \in Nat /\ Lag \in Nat /\ Token \in Nat /\ RPM * Token \in Nat
        /\ RPM * Token >= Token /\ t \in Nat /\ Lag * RPM \in Nat
    BY LimitConstants, RateFilled DEF RateInv, DebtOK
  <1>2. /\ (t - keyLast - Lag) * RPM = (t - keyLast) * RPM - Lag * RPM
        /\ (t - keyLast) * RPM \in Int
    BY <1>1
  <1>3. Filled(t) >= Token /\ Filled(t) \in Int
    BY <1>1, <1>2 DEF Filled
  <1>. QED BY <1>1, <1>3 DEF Verdict

\* checkKeyLimits: between any two counted admissions a key used no more than a minute's
\* worth and what the time between them refills, whatever late calls do.
THEOREM RpmBoundHolds == LimitSpec => []RpmBound
  <1>1. LimitInit => RateInv
    BY RateInit
  <1>2. RateInv /\ [LimitNext]_limitVars => RateInv'
    BY RateStep
  <1>3. RateInv => RpmBound
    BY DEF RateInv
  <1>. QED BY <1>1, <1>2, <1>3, PTL DEF LimitSpec

\* checkKeyLimits: whoever waits a minute / RPM is never rate_limited, whatever
\* debt late calls have left.
THEOREM PoliteIsServedHolds == LimitSpec => []PoliteIsServed
  <1>1. LimitInit => RateInv
    BY RateInit
  <1>2. RateInv /\ [LimitNext]_limitVars => RateInv'
    BY RateStep
  <1>3. RateInv => PoliteIsServed
    BY RatePolite
  <1>. QED BY <1>1, <1>2, <1>3, PTL DEF LimitSpec

-----------------------------------------------------------------------------
(* The burst window.                                                       *)

\* Induction over the naturals, as the least counterexample.
LEMMA LeastNumber ==
  ASSUME NEW T, T \subseteq Nat, T # {}
  PROVE  \E m \in T : \A k \in T : m <= k
  <1>. DEFINE R == OpToRel(<, Nat)
  <1>1. IsWellFoundedOn(R, Nat)
    BY NatLessThanWellFounded
  <1>2. \A x, y \in Nat : x < y => <<x, y>> \in R
    BY DEF OpToRel
  <1>. HIDE DEF R
  <1>3. PICK m \in T : \A y \in T : ~(<<y, m>> \in R)
    BY <1>1, WFMin
  <1>4. \A k \in T : ~(k < m) /\ k \in Nat /\ m \in Nat
    BY <1>2, <1>3
  <1>. QED BY <1>4

\* The places up to n of the times that are after x.
After(s, n, x) == {k \in 1 .. n : s[k] > x}

\* There are finitely many, and the next place is one more or none.
LEMMA AfterNext ==
  ASSUME NEW s, NEW n \in Nat, NEW x
  PROVE  /\ Cardinality(After(s, n, x)) \in Nat
         /\ Cardinality(After(s, n, x)) <= n
         /\ s[n + 1] > x =>
              Cardinality(After(s, n + 1, x)) = Cardinality(After(s, n, x)) + 1
         /\ ~(s[n + 1] > x) =>
              Cardinality(After(s, n + 1, x)) = Cardinality(After(s, n, x))
  <1>1. IsFiniteSet(1 .. n) /\ Cardinality(1 .. n) = n
    BY FS_Interval
  <1>2. After(s, n, x) \subseteq 1 .. n
    BY DEF After
  <1>3. IsFiniteSet(After(s, n, x)) /\ Cardinality(After(s, n, x)) <= n
    BY <1>1, <1>2, FS_Subset
  <1>4. Cardinality(After(s, n, x)) \in Nat
    BY <1>3, FS_CardinalityType
  <1>5. 1 .. n + 1 = (1 .. n) \cup {n + 1} /\ n + 1 \notin 1 .. n
    OBVIOUS
  <1>6. s[n + 1] > x => After(s, n + 1, x) = After(s, n, x) \cup {n + 1}
    BY <1>5 DEF After
  <1>7. ~(s[n + 1] > x) => After(s, n + 1, x) = After(s, n, x)
    BY <1>5 DEF After
  <1>8. n + 1 \notin After(s, n, x)
    BY <1>5 DEF After
  <1>9. s[n + 1] > x => Cardinality(After(s, n + 1, x)) = Cardinality(After(s, n, x)) + 1
    BY <1>3, <1>6, <1>8, FS_AddElement
  <1>. QED BY <1>3, <1>4, <1>7, <1>9

\* With one more time at the end.
LEMMA AfterAppend ==
  ASSUME NEW s \in Seq(Int), NEW e \in Int, NEW x \in Int
  PROVE  LET r == Append(s, e) IN
         /\ Cardinality(After(s, Len(s), x)) \in Nat
         /\ e > x => Cardinality(After(r, Len(r), x)) = Cardinality(After(s, Len(s), x)) + 1
         /\ e <= x => Cardinality(After(r, Len(r), x)) = Cardinality(After(s, Len(s), x))
  <1>. DEFINE r == Append(s, e)
  <1>1. Len(s) \in Nat /\ Len(r) = Len(s) + 1 /\ r[Len(s) + 1] = e
    OBVIOUS
  <1>2. \A k \in 1 .. Len(s) : r[k] = s[k]
    OBVIOUS
  <1>. HIDE DEF r
  <1>3. After(r, Len(s), x) = After(s, Len(s), x)
    BY <1>2 DEF After
  <1>4. e <= x <=> ~(e > x)
    OBVIOUS
  <1>5. /\ Cardinality(After(s, Len(s), x)) \in Nat
        /\ e > x => Cardinality(After(r, Len(r), x)) = Cardinality(After(s, Len(s), x)) + 1
        /\ e <= x => Cardinality(After(r, Len(r), x)) = Cardinality(After(s, Len(s), x))
    BY <1>1, <1>3, <1>4, AfterNext
  <1>. QED BY <1>5 DEF r

\* One turn of the loop that drops the times not after c.
Sieve(w, c, f, n) ==
  IF n = 0 THEN <<>>
  ELSE IF w[n] > c THEN Append(f[n - 1], w[n])
  ELSE f[n - 1]

\* The loop runs up to any place.
LEMMA SieveRuns ==
  ASSUME NEW w, NEW c, NEW N \in Nat
  PROVE  \E f : f = [i \in 0 .. N |-> Sieve(w, c, f, i)]
  <1>. DEFINE P(n) == \E f : f = [i \in 0 .. n |-> Sieve(w, c, f, i)]
              Bad == {n \in Nat : ~P(n)}
  <1>1. SUFFICES ASSUME Bad # {} PROVE FALSE
    BY <1>1
  <1>2. PICK m \in Bad : \A k \in Bad : m <= k
    <2>. HIDE DEF Bad
    <2>1. Bad \subseteq Nat
      BY DEF Bad
    <2>. QED BY <1>1, <2>1, LeastNumber
  <1>3. CASE m = 0
    <2>1. [i \in 0 .. 0 |-> <<>>] = [i \in 0 .. 0 |-> Sieve(w, c, [j \in 0 .. 0 |-> <<>>], i)]
      BY DEF Sieve
    <2>. QED BY <1>2, <1>3, <2>1
  <1>4. CASE m # 0
    <2>1. m - 1 \in Nat /\ P(m - 1)
      BY <1>2, <1>4
    <2>2. PICK f : f = [i \in 0 .. m - 1 |-> Sieve(w, c, f, i)]
      BY <2>1
    <2>. DEFINE g == [i \in 0 .. m |-> IF i < m THEN f[i] ELSE Sieve(w, c, f, m)]
    <2>3. \A i \in 0 .. m : g[i] = Sieve(w, c, g, i)
      <3>. TAKE i \in 0 .. m
      <3>1. i # 0 => g[i - 1] = f[i - 1]
        OBVIOUS
      <3>2. Sieve(w, c, g, i) = Sieve(w, c, f, i)
        BY <3>1 DEF Sieve
      <3>3. i < m => f[i] = Sieve(w, c, f, i)
        BY <2>2
      <3>. QED BY <3>2, <3>3
    <2>4. g = [i \in 0 .. m |-> Sieve(w, c, g, i)]
      BY <2>3
    <2>. QED BY <1>2, <2>4
  <1>. QED BY <1>3, <1>4

\* RecentUpTo is the loop.
LEMMA RecentUpToDef ==
  ASSUME burstWin \in Seq(Int), NEW t
  PROVE  RecentUpTo(t)
           = [i \in 0 .. Len(burstWin) |-> Sieve(burstWin, t - Second, RecentUpTo(t), i)]
  <1>. DEFINE Loop(f) == f = [i \in 0 .. Len(burstWin) |-> Sieve(burstWin, t - Second, f, i)]
  <1>0. Len(burstWin) \in Nat
    OBVIOUS
  <1>1. \E f : Loop(f)
    BY <1>0, SieveRuns
  <1>2. Loop(CHOOSE f : Loop(f))
    BY <1>1
  <1>3. RecentUpTo(t) = CHOOSE f : Loop(f)
    BY DEF RecentUpTo, Sieve
  <1>. QED BY <1>2, <1>3

\* What the loop keeps: every time after c, and so every time after x.
LEMMA Sieved ==
  ASSUME NEW w \in Seq(Int), NEW c \in Int, NEW f, NEW x \in Int, x >= c,
         f = [i \in 0 .. Len(w) |-> Sieve(w, c, f, i)],
         NEW N \in 0 .. Len(w)
  PROVE  /\ f[N] \in Seq(Int)
         /\ Cardinality(After(f[N], Len(f[N]), x)) = Cardinality(After(w, N, x))
  <1>. DEFINE P(n) == /\ f[n] \in Seq(Int)
                      /\ Cardinality(After(f[n], Len(f[n]), x)) = Cardinality(After(w, n, x))
              Bad == {n \in 0 .. Len(w) : ~P(n)}
  <1>0. \A n \in 0 .. Len(w) : f[n] = Sieve(w, c, f, n)
    OBVIOUS
  <1>1. SUFFICES ASSUME Bad # {} PROVE FALSE
    BY <1>1
  <1>2. PICK m \in Bad : \A k \in Bad : m <= k
    <2>. HIDE DEF Bad
    <2>1. Bad \subseteq Nat
      BY DEF Bad
    <2>. QED BY <1>1, <2>1, LeastNumber
  <1>. HIDE DEF P
  <1>2a. m \in 0 .. Len(w) /\ ~P(m) /\ \A k \in 0 .. Len(w) : ~P(k) => m <= k
    BY <1>2
  <1>3. CASE m = 0
    <2>1. f[0] = <<>>
      BY <1>0, <1>2a, <1>3 DEF Sieve
    <2>2. After(f[0], Len(f[0]), x) = {} /\ After(w, 0, x) = {}
      BY <2>1 DEF After
    <2>3. f[0] \in Seq(Int)
      BY <2>1
    <2>. QED BY <1>2a, <1>3, <2>2, <2>3 DEF P
  <1>4. CASE m # 0
    <2>1. m \in 1 .. Len(w) /\ m - 1 \in 0 .. Len(w) /\ m - 1 \in Nat /\ w[m] \in Int
      BY <1>2a, <1>4
    <2>2. P(m - 1)
      BY <1>2a, <2>1
    <2>3. f[m] = IF w[m] > c THEN Append(f[m - 1], w[m]) ELSE f[m - 1]
      <3>1. f[m] = Sieve(w, c, f, m)
        BY <1>0, <1>2a
      <3>. QED BY <1>4, <3>1 DEF Sieve
    <2>4. /\ w[m] > x => Cardinality(After(w, m, x)) = Cardinality(After(w, m - 1, x)) + 1
          /\ ~(w[m] > x) => Cardinality(After(w, m, x)) = Cardinality(After(w, m - 1, x))
      <3>1. m - 1 + 1 = m
        BY <2>1
      <3>. QED BY <2>1, <3>1, AfterNext
    <2>5. PICK g \in Seq(Int) : g = f[m - 1]
      BY <2>2 DEF P
    <2>6. Cardinality(After(g, Len(g), x)) = Cardinality(After(w, m - 1, x))
      BY <2>2, <2>5 DEF P
    <2>7. CASE w[m] > c
      <3>. DEFINE r == Append(g, w[m])
      <3>1. f[m] = r /\ r \in Seq(Int)
        BY <2>1, <2>3, <2>5, <2>7
      <3>2. /\ w[m] > x => Cardinality(After(r, Len(r), x)) = Cardinality(After(g, Len(g), x)) + 1
            /\ w[m] <= x => Cardinality(After(r, Len(r), x)) = Cardinality(After(g, Len(g), x))
        BY <2>1, AfterAppend
      <3>. HIDE DEF r
      <3>3. Cardinality(After(r, Len(r), x)) = Cardinality(After(w, m, x))
        BY <2>1, <2>4, <2>6, <3>2
      <3>. QED BY <1>2a, <3>1, <3>3 DEF P
    <2>8. CASE ~(w[m] > c)
      <3>1. ~(w[m] > x)
        BY <2>1, <2>8
      <3>. QED BY <1>2a, <2>3, <2>4, <2>5, <2>6, <2>8, <3>1 DEF P
    <2>. QED BY <2>7, <2>8
  <1>. QED BY <1>3, <1>4

\* The window knows every admission of the last second, by the time its call
\* took; while a cooldown is recorded the admissions are older than its trip.
WindowOK ==
  /\ burstWin \in Seq(Int) /\ cooldown \in Int
  /\ cooldown # 0 =>
       \A i \in 1 .. Len(admitted) : admitted[i] <= cooldown - BurstCooldown + Lag
  /\ cooldown = 0 =>
       \A x \in Int : x >= now - Second =>
         Cardinality(After(admitted, Len(admitted), x + Lag))
           <= Cardinality(After(burstWin, Len(burstWin), x))

\* With the burst limit on, the window is right and the bound holds.
BurstInv == BurstOn => WindowOK /\ Spaced

\* The times of admissions are numbers up to now.
LEMMA AdmittedTimes ==
  ASSUME RateInv
  PROVE  /\ now \in Nat /\ Len(admitted) \in Nat /\ admitted \in Seq(Int)
         /\ \A i \in 1 .. Len(admitted) : admitted[i] \in Nat /\ admitted[i] <= now
  <1>1. now \in Nat
    BY DEF RateInv, DebtOK
  <1>2. admitted \in Seq(Nat) /\ \A i \in 1 .. Len(admitted) : admitted[i] <= now
    BY DEF RateInv, AdmittedOK
  <1>3. admitted \in Seq(Int)
    BY <1>2
  <1>. QED BY <1>1, <1>2, <1>3

\* A key begins with an empty window.
LEMMA BurstInit ==
  ASSUME LimitInit
  PROVE  BurstInv
  <1>0. /\ now = 0 /\ cooldown = 0 /\ burstWin = <<>> /\ admitted = <<>>
    BY DEF LimitInit
  <1>1. \A x : After(admitted, Len(admitted), x) = {} /\ After(burstWin, Len(burstWin), x) = {}
    BY <1>0 DEF After
  <1>2. Cardinality({}) <= Cardinality({})
    BY FS_EmptySet
  <1>3. burstWin \in Seq(Int) /\ cooldown \in Int
    BY <1>0
  <1>4. WindowOK
    BY <1>0, <1>1, <1>2, <1>3 DEF WindowOK
  <1>5. Spaced
    BY <1>0, LimitConstants DEF Spaced
  <1>. QED BY <1>4, <1>5 DEF BurstInv

\* When a call passes, the window has every admission of the last second, also
\* if a cooldown has just ended.
LEMMA WindowComplete ==
  ASSUME RateInv, WindowOK, NEW t \in Stamps, ~Cooling(t),
         NEW x \in Int, x >= now - Second
  PROVE  Cardinality(After(admitted, Len(admitted), x + Lag))
           <= Cardinality(After(burstWin, Len(burstWin), x))
  <1>1. CASE cooldown = 0
    BY <1>1 DEF WindowOK
  <1>2. CASE cooldown # 0
    <2>0. t \in Nat /\ t <= now /\ now \in Nat
      BY RateFilled, AdmittedTimes
    <2>1. /\ cooldown \in Int /\ t >= cooldown
          /\ \A i \in 1 .. Len(admitted) : admitted[i] <= cooldown - BurstCooldown + Lag
      BY <1>2, <2>0 DEF WindowOK, Cooling
    <2>2. Lag \in Nat /\ Second \in Nat /\ BurstCooldown \in Nat /\ BurstCooldown >= Second
      BY LimitConstants
    <2>3. \A i \in 1 .. Len(admitted) : ~(admitted[i] > x + Lag)
      BY <2>0, <2>1, <2>2, AdmittedTimes
    <2>4. After(admitted, Len(admitted), x + Lag) = {}
      BY <2>3 DEF After
    <2>5. Len(burstWin) \in Nat
      BY DEF WindowOK
    <2>6. Cardinality(After(burstWin, Len(burstWin), x)) \in Nat
      BY <2>5, AfterNext
    <2>7. Cardinality(After(admitted, Len(admitted), x + Lag)) = 0
      BY <2>4, FS_EmptySet
    <2>. QED BY <2>6, <2>7
  <1>. QED BY <1>1, <1>2

\* The window after a call that passes: what it had after x, and this call.
LEMMA WindowGrows ==
  ASSUME RateInv, WindowOK, NEW t \in Stamps,
         NEW x \in Int, x >= now - Second
  PROVE  LET v == Window(t) IN
         /\ v \in Seq(Int)
         /\ Cardinality(After(burstWin, Len(burstWin), x)) \in Nat
         /\ t > x => Cardinality(After(v, Len(v), x))
                       = Cardinality(After(burstWin, Len(burstWin), x)) + 1
         /\ t <= x => Cardinality(After(v, Len(v), x))
                        = Cardinality(After(burstWin, Len(burstWin), x))
  <1>1. /\ t \in Int /\ t <= now /\ now \in Nat /\ Second \in Nat /\ burstWin \in Seq(Int)
    BY RateFilled, LimitConstants DEF RateInv, DebtOK, WindowOK
  <1>2. /\ t - Second \in Int /\ x >= t - Second /\ Len(burstWin) \in 0 .. Len(burstWin)
        /\ Len(burstWin) \in Nat
    BY <1>1
  <1>3. PICK f : /\ f = RecentUpTo(t)
                 /\ f = [i \in 0 .. Len(burstWin) |-> Sieve(burstWin, t - Second, f, i)]
    BY <1>1, RecentUpToDef
  <1>4. PICK r : r = f[Len(burstWin)]
    OBVIOUS
  <1>5. /\ r \in Seq(Int)
        /\ Cardinality(After(r, Len(r), x)) = Cardinality(After(burstWin, Len(burstWin), x))
    BY <1>1, <1>2, <1>3, <1>4, Sieved
  <1>6. PICK v : v = Append(r, t)
    OBVIOUS
  <1>7. Window(t) = v
    BY <1>3, <1>4, <1>6 DEF Window
  <1>8. v \in Seq(Int)
    BY <1>1, <1>5, <1>6
  <1>9. /\ Cardinality(After(r, Len(r), x)) \in Nat
        /\ t > x => Cardinality(After(v, Len(v), x)) = Cardinality(After(r, Len(r), x)) + 1
        /\ t <= x => Cardinality(After(v, Len(v), x)) = Cardinality(After(r, Len(r), x))
    BY <1>1, <1>5, <1>6, AfterAppend
  <1>. QED BY <1>5, <1>7, <1>8, <1>9

\* The window after a call that finds no token.
LEMMA BurstLimit ==
  ASSUME RateInv, BurstInv, NEW t \in Stamps, Limit(t)
  PROVE  BurstInv'
  <1>. SUFFICES ASSUME BurstOn PROVE WindowOK' /\ Spaced'
    BY DEF BurstInv, BurstOn
  <1>0. /\ now' = now /\ admitted' = admitted /\ cooldown' = 0
        /\ burstWin' = Window(t) /\ ~Cooling(t) /\ WindowOK /\ Spaced
    BY DEF Limit, Pass, BurstInv
  <1>1. Spaced'
    BY <1>0 DEF Spaced, BurstOn
  <1>2. Window(t) \in Seq(Int)
    <2>1. now - Second \in Int /\ now - Second >= now - Second
      BY LimitConstants DEF RateInv, DebtOK
    <2>. QED BY <1>0, <2>1, WindowGrows
  <1>3. ASSUME NEW x \in Int, x >= now - Second
        PROVE  Cardinality(After(admitted, Len(admitted), x + Lag))
                 <= Cardinality(After(burstWin', Len(burstWin'), x))
    <2>1. Cardinality(After(admitted, Len(admitted), x + Lag))
            <= Cardinality(After(burstWin, Len(burstWin), x))
      BY <1>0, <1>3, WindowComplete
    <2>2. PICK v : v = Window(t)
      OBVIOUS
    <2>3. /\ Cardinality(After(burstWin, Len(burstWin), x)) \in Nat
          /\ t > x => Cardinality(After(v, Len(v), x))
                        = Cardinality(After(burstWin, Len(burstWin), x)) + 1
          /\ t <= x => Cardinality(After(v, Len(v), x))
                         = Cardinality(After(burstWin, Len(burstWin), x))
      BY <1>0, <1>3, <2>2, WindowGrows
    <2>4. t \in Int /\ Len(admitted) \in Nat
      BY RateFilled DEF RateInv, AdmittedOK
    <2>5. Cardinality(After(admitted, Len(admitted), x + Lag)) \in Nat
      BY <2>4, AfterNext
    <2>6. Cardinality(After(admitted, Len(admitted), x + Lag))
            <= Cardinality(After(v, Len(v), x))
      BY <2>1, <2>3, <2>4, <2>5
    <2>. QED BY <1>0, <2>2, <2>6
  <1>4. WindowOK'
    BY <1>0, <1>2, <1>3 DEF WindowOK
  <1>. QED BY <1>1, <1>4

\* The window after a call that takes a token: more admissions within a second
\* than the limit would be more entries than the window has.
LEMMA BurstAdmit ==
  ASSUME RateInv, BurstInv, NEW t \in Stamps, Admit(t)
  PROVE  BurstInv'
  <1>. SUFFICES ASSUME BurstOn PROVE WindowOK' /\ Spaced'
    BY DEF BurstInv, BurstOn
  <1>0. /\ now' = now /\ admitted' = Append(admitted, now) /\ cooldown' = 0
        /\ burstWin' = Window(t) /\ ~Cooling(t) /\ WindowOK /\ Spaced
        /\ ~(Len(burstWin') > BurstRPS)
    BY DEF Admit, Pass, BurstInv, Trips
  <1>1. /\ t \in Int /\ t <= now /\ now - Lag <= t /\ now \in Nat
        /\ Second \in Nat /\ Lag \in Nat /\ BurstRPS \in Nat
        /\ admitted \in Seq(Int)
    BY RateFilled, LimitConstants, AdmittedTimes
  <1>2. /\ AdmittedOK'
        /\ Len(admitted) \in Nat /\ Len(admitted') = Len(admitted) + 1
        /\ admitted'[Len(admitted) + 1] = now
        /\ \A i \in 1 .. Len(admitted) : admitted'[i] = admitted[i]
    BY <1>0, <1>1, OneMore DEF RateInv
  <1>3. burstWin' \in Seq(Int)
    <2>1. now - Second \in Int /\ now - Second >= now - Second
      BY <1>1
    <2>. QED BY <1>0, <2>1, WindowGrows
  <1>4. ASSUME NEW x \in Int, x >= now - Second
        PROVE  Cardinality(After(admitted', Len(admitted'), x + Lag))
                 <= Cardinality(After(burstWin', Len(burstWin'), x))
    <2>1. Cardinality(After(admitted, Len(admitted), x + Lag))
            <= Cardinality(After(burstWin, Len(burstWin), x))
      BY <1>0, <1>4, WindowComplete
    <2>2. PICK v : v = Window(t)
      OBVIOUS
    <2>3. /\ Cardinality(After(burstWin, Len(burstWin), x)) \in Nat
          /\ t > x => Cardinality(After(v, Len(v), x))
                        = Cardinality(After(burstWin, Len(burstWin), x)) + 1
          /\ t <= x => Cardinality(After(v, Len(v), x))
                         = Cardinality(After(burstWin, Len(burstWin), x))
      BY <1>0, <1>4, <2>2, WindowGrows
    <2>4. PICK b : b = Append(admitted, now)
      OBVIOUS
    <2>5. x + Lag \in Int /\ now \in Int
      BY <1>1
    <2>6. /\ Cardinality(After(admitted, Len(admitted), x + Lag)) \in Nat
          /\ now > x + Lag => Cardinality(After(b, Len(b), x + Lag))
                                = Cardinality(After(admitted, Len(admitted), x + Lag)) + 1
          /\ now <= x + Lag => Cardinality(After(b, Len(b), x + Lag))
                                 = Cardinality(After(admitted, Len(admitted), x + Lag))
      BY <1>1, <2>4, <2>5, AfterAppend
    <2>7. now > x + Lag => t > x
      BY <1>1
    <2>8. (t > x \/ t <= x) /\ (now > x + Lag \/ now <= x + Lag)
      BY <1>1
    <2>9. Cardinality(After(b, Len(b), x + Lag)) <= Cardinality(After(v, Len(v), x))
      BY <2>1, <2>3, <2>6, <2>7, <2>8
    <2>. QED BY <1>0, <2>2, <2>4, <2>9
  <1>5. WindowOK'
    BY <1>0, <1>3, <1>4 DEF WindowOK
  <1>6. Spaced'
    <2>. SUFFICES ASSUME NEW i \in 1 .. Len(admitted) + 1, i + BurstRPS <= Len(admitted) + 1,
                         admitted'[i + BurstRPS] - admitted'[i] < Second - Lag
                  PROVE  FALSE
      <3>1. \A i \in 1 .. Len(admitted') : admitted'[i] \in Nat
        BY <1>2 DEF AdmittedOK
      <3>2. ASSUME NEW i \in 1 .. Len(admitted'), i + BurstRPS <= Len(admitted')
            PROVE  admitted'[i + BurstRPS] - admitted'[i] >= Second - Lag
        <4>1. i + BurstRPS \in 1 .. Len(admitted')
          BY <1>1, <1>2, <3>2
        <4>2. admitted'[i + BurstRPS] - admitted'[i] \in Int /\ Second - Lag \in Int
          BY <1>1, <3>1, <3>2, <4>1
        <4>3. ~(admitted'[i + BurstRPS] - admitted'[i] < Second - Lag)
          BY <1>2, <3>2
        <4>. QED BY <4>2, <4>3
      <3>. QED BY <3>2 DEF Spaced
    <2>1. CASE i + BurstRPS <= Len(admitted)
      <3>1. i \in 1 .. Len(admitted) /\ i + BurstRPS \in 1 .. Len(admitted)
        BY <1>1, <1>2, <2>1
      <3>2. admitted[i + BurstRPS] - admitted[i] >= Second - Lag
        BY <1>0, <2>1, <3>1 DEF Spaced
      <3>3. /\ admitted'[i + BurstRPS] = admitted[i + BurstRPS] /\ admitted'[i] = admitted[i]
            /\ admitted[i + BurstRPS] \in Int /\ admitted[i] \in Int
        BY <1>1, <1>2, <3>1
      <3>. QED BY <1>1, <3>2, <3>3
    <2>2. CASE i + BurstRPS = Len(admitted) + 1
      <3>1. PICK n \in Nat : n = Len(admitted) + 1
        BY <1>2
      <3>2. /\ n = Len(admitted') /\ admitted'[n] = now /\ i \in 1 .. n
            /\ \A j \in 1 .. n : admitted'[j] \in Nat
            /\ \A j, k \in 1 .. n : j <= k => admitted'[j] <= admitted'[k]
        BY <1>2, <3>1 DEF AdmittedOK
      <3>3. admitted'[i] > now - Second + Lag
        BY <1>1, <2>2, <3>1, <3>2
      <3>4. \A j \in i .. n : admitted'[j] > now - Second + Lag
        <4>. TAKE j \in i .. n
        <4>1. j \in 1 .. n /\ i <= j
          BY <3>2
        <4>2. admitted'[i] <= admitted'[j] /\ admitted'[i] \in Nat /\ admitted'[j] \in Nat
          BY <3>2, <4>1
        <4>. QED BY <1>1, <3>3, <4>2
      <3>5. i .. n \subseteq After(admitted', n, now - Second + Lag)
        BY <3>2, <3>4 DEF After
      <3>6. /\ IsFiniteSet(After(admitted', n, now - Second + Lag))
            /\ Cardinality(After(admitted', n, now - Second + Lag)) \in Nat
        <4>1. After(admitted', n, now - Second + Lag) \subseteq 1 .. n /\ IsFiniteSet(1 .. n)
          BY FS_Interval DEF After
        <4>. QED BY <4>1, FS_Subset, FS_CardinalityType
      <3>7. Cardinality(i .. n) = BurstRPS + 1
        <4>1. i \in Int /\ n \in Int /\ ~(i > n) /\ n - i + 1 = BurstRPS + 1
          BY <1>1, <2>2, <3>1, <3>2
        <4>. QED BY <4>1, FS_Interval
      <3>8. Cardinality(i .. n) <= Cardinality(After(admitted', n, now - Second + Lag))
        BY <3>5, <3>6, FS_Subset
      <3>9. now - Second \in Int /\ now - Second >= now - Second
        BY <1>1
      <3>10. Cardinality(After(admitted', n, now - Second + Lag))
               <= Cardinality(After(burstWin', Len(burstWin'), now - Second))
        BY <1>4, <3>2, <3>9
      <3>11. /\ Len(burstWin') \in Nat
             /\ Cardinality(After(burstWin', Len(burstWin'), now - Second)) \in Nat
             /\ Cardinality(After(burstWin', Len(burstWin'), now - Second)) <= Len(burstWin')
        <4>1. Len(burstWin') \in Nat
          BY <1>3
        <4>. QED BY <4>1, AfterNext
      <3>. QED BY <1>0, <1>1, <3>6, <3>7, <3>8, <3>10, <3>11
    <2>. QED BY <1>1, <1>2, <2>1, <2>2
  <1>. QED BY <1>5, <1>6

\* Every step of checkKeyLimits keeps the window right.
LEMMA BurstStep ==
  ASSUME RateInv, BurstInv, [LimitNext]_limitVars
  PROVE  BurstInv'
  <1>1. CASE UNCHANGED <<now, cooldown, burstWin, admitted>>
    BY <1>1 DEF BurstInv, WindowOK, Spaced, BurstOn
  <1>2. CASE Elapse
    <2>1. /\ now' = now + 1 /\ cooldown' = cooldown /\ burstWin' = burstWin
          /\ admitted' = admitted
      BY <1>2 DEF Elapse
    <2>2. now \in Nat /\ Second \in Nat
      BY LimitConstants DEF RateInv, DebtOK
    <2>3. \A x \in Int : x >= now + 1 - Second => x >= now - Second
      BY <2>2
    <2>4. Spaced => Spaced'
      BY <2>1 DEF Spaced, BurstOn
    <2>5. WindowOK => WindowOK'
      <3>. SUFFICES ASSUME WindowOK PROVE WindowOK'
        OBVIOUS
      <3>1. cooldown = 0 =>
              \A x \in Int : x >= now + 1 - Second =>
                Cardinality(After(admitted, Len(admitted), x + Lag))
                  <= Cardinality(After(burstWin, Len(burstWin), x))
        BY <2>3 DEF WindowOK
      <3>2. cooldown' = 0 =>
              \A x \in Int : x >= now' - Second =>
                Cardinality(After(admitted', Len(admitted'), x + Lag))
                  <= Cardinality(After(burstWin', Len(burstWin'), x))
        <4>. SUFFICES ASSUME cooldown' = 0, NEW x \in Int, x >= now' - Second
                      PROVE  Cardinality(After(admitted', Len(admitted'), x + Lag))
                               <= Cardinality(After(burstWin', Len(burstWin'), x))
          OBVIOUS
        <4>1. Cardinality(After(admitted, Len(admitted), x + Lag))
                <= Cardinality(After(burstWin, Len(burstWin), x))
          <5>1. cooldown = 0 /\ x >= now + 1 - Second
            BY <2>1, <2>2
          <5>. QED BY <3>1, <5>1, Zenon
        <4>. QED BY <2>1, <4>1
      <3>3. /\ burstWin' \in Seq(Int) /\ cooldown' \in Int
            /\ cooldown' # 0 =>
                 \A i \in 1 .. Len(admitted') : admitted'[i] <= cooldown' - BurstCooldown + Lag
        BY <2>1 DEF WindowOK
      <3>. QED BY <3>2, <3>3 DEF WindowOK
    <2>. QED BY <2>4, <2>5 DEF BurstInv, BurstOn
  <1>3. ASSUME NEW t \in Stamps, Trip(t) PROVE BurstInv'
    <2>. SUFFICES ASSUME BurstOn PROVE WindowOK' /\ Spaced'
      BY DEF BurstInv, BurstOn
    <2>1. /\ cooldown' = t + BurstCooldown /\ burstWin' = <<>> /\ now' = now
          /\ admitted' = admitted
      BY <1>3 DEF Trip
    <2>2. /\ t \in Nat /\ now - Lag <= t /\ now \in Nat /\ Lag \in Nat
          /\ BurstCooldown \in Nat /\ BurstCooldown > 0
          /\ \A i \in 1 .. Len(admitted) : admitted[i] \in Nat /\ admitted[i] <= now
      <3>1. BurstCooldown > 0
        BY DEF BurstOn
      <3>. QED BY <3>1, RateFilled, LimitConstants, AdmittedTimes
    <2>3. cooldown' \in Int /\ cooldown' # 0 /\ cooldown' - BurstCooldown + Lag = t + Lag
      BY <2>1, <2>2
    <2>4. \A i \in 1 .. Len(admitted) : admitted[i] <= t + Lag
      BY <2>2
    <2>5. burstWin' \in Seq(Int)
      BY <2>1
    <2>6. WindowOK'
      BY <2>1, <2>3, <2>4, <2>5 DEF WindowOK
    <2>7. Spaced'
      BY <2>1 DEF BurstInv, Spaced, BurstOn
    <2>. QED BY <2>6, <2>7
  <1>4. ASSUME NEW t \in Stamps, Refuse(t) \/ Slip(t) PROVE BurstInv'
    BY <1>1, <1>4 DEF Refuse, Slip, limitVars
  <1>5. CASE UNCHANGED limitVars
    BY <1>1, <1>5 DEF limitVars
  <1>. QED BY <1>2, <1>3, <1>4, <1>5, BurstLimit, BurstAdmit DEF LimitNext

\* A slip is never later than the clock, and SlipsApart.
SlipInv == slipped \subseteq 0 .. now /\ SlipsApart

\* Every step of checkKeyLimits keeps the slips apart from what was counted
\* before: while a cooldown is recorded the admissions are older than its trip.
LEMMA SlipStep ==
  ASSUME RateInv, BurstInv, SlipInv, [LimitNext]_limitVars
  PROVE  SlipInv'
  <1>0. now \in Nat /\ Lag \in Nat /\ BurstCooldown \in Nat
    BY LimitConstants DEF RateInv, DebtOK
  <1>1. CASE UNCHANGED <<now, admitted, slipped>>
    BY <1>1 DEF SlipInv, SlipsApart, BurstOn
  <1>2. CASE Elapse
    BY <1>0, <1>2 DEF Elapse, SlipInv, SlipsApart, BurstOn
  <1>3. ASSUME NEW t \in Stamps, Refuse(t) \/ Trip(t) \/ Limit(t) PROVE SlipInv'
    BY <1>1, <1>3 DEF Refuse, Trip, Limit, limitVars
  <1>4. ASSUME NEW t \in Stamps, Admit(t) PROVE SlipInv'
    <2>1. now' = now /\ admitted' = Append(admitted, now) /\ slipped' = slipped
      BY <1>4 DEF Admit
    <2>2. /\ Len(admitted) \in Nat /\ Len(admitted') = Len(admitted) + 1
          /\ admitted'[Len(admitted) + 1] = now
          /\ \A i \in 1 .. Len(admitted) : admitted'[i] = admitted[i]
      BY <1>0, <2>1, OneMore DEF RateInv
    <2>3. \A s \in slipped : ~(now < s)
      BY <1>0 DEF SlipInv
    <2>4. \A i \in 1 .. Len(admitted') : i \in 1 .. Len(admitted) \/ i = Len(admitted) + 1
      BY <2>2
    <2>. QED BY <2>1, <2>2, <2>3, <2>4 DEF SlipInv, SlipsApart, BurstOn
  <1>5. ASSUME NEW t \in Stamps, Slip(t) PROVE SlipInv'
    <2>1. /\ now' = now /\ admitted' = admitted /\ slipped' = slipped \cup {now}
          /\ cooldown # 0 /\ now >= cooldown
      BY <1>5 DEF Slip, Outlasts, Cooling
    <2>2. slipped' \subseteq 0 .. now
      BY <1>0, <2>1 DEF SlipInv
    <2>3. ASSUME BurstOn, NEW i \in 1 .. Len(admitted)
          PROVE  admitted[i] <= now - BurstCooldown + Lag
      <3>1. cooldown \in Int /\ admitted[i] <= cooldown - BurstCooldown + Lag
        BY <2>1, <2>3 DEF BurstInv, WindowOK
      <3>2. admitted[i] \in Int
        BY <2>3, AdmittedTimes
      <3>. QED BY <1>0, <2>1, <3>1, <3>2
    <2>. QED BY <2>1, <2>2, <2>3 DEF SlipInv, SlipsApart, BurstOn
  <1>6. CASE UNCHANGED limitVars
    BY <1>1, <1>6 DEF limitVars
  <1>. QED BY <1>2, <1>3, <1>4, <1>5, <1>6 DEF LimitNext

\* checkKeyLimits: no second sees more than BurstRPS counted requests, but for
\* what a call waited for the lock, also across the end of a cooldown; and what
\* that end lets through uncounted comes a full cooldown after what was counted.
THEOREM BurstBoundHolds == LimitSpec => []BurstBound
  <1>1. LimitInit => RateInv /\ BurstInv /\ SlipInv
    <2>1. LimitInit => SlipInv
      BY DEF LimitInit, SlipInv, SlipsApart
    <2>. QED BY <2>1, RateInit, BurstInit
  <1>2. RateInv /\ BurstInv /\ SlipInv /\ [LimitNext]_limitVars
          => RateInv' /\ BurstInv' /\ SlipInv'
    BY RateStep, BurstStep, SlipStep
  <1>3. BurstInv /\ SlipInv => BurstBound
    BY DEF BurstInv, SlipInv, BurstBound, Spaced
  <1>. QED BY <1>1, <1>2, <1>3, PTL DEF LimitSpec

\* Every step of a call keeps the types.
LEMMA LimitTypes ==
  ASSUME RateInv, BurstInv, LimitTypeOK, [LimitNext]_limitVars, RateInv', SlipInv'
  PROVE  LimitTypeOK'
  <1>. DEFINE RestOK == /\ now \in 0 .. MaxTime
                        /\ cooldown \in 0 .. MaxTime + BurstCooldown
                        /\ Len(burstWin) <= BurstRPS
                        /\ retryAt \in Nat
  <1>0. /\ MaxTime \in Nat /\ BurstCooldown \in Nat /\ BurstRPS \in Nat /\ Second \in Nat
        /\ Token \in Nat /\ Token > 0 /\ RPM \in Nat /\ RPM > 0 /\ Lag \in Nat
    BY LimitAssumption
  <1>1. RestOK' => LimitTypeOK'
    <2>1. /\ keyTokens' \in -(Lag * RPM) .. RPM * Token
          /\ keyLast' \in 0 .. now'
      <3>1. Lag * RPM \in Int /\ RPM * Token \in Int
        BY <1>0
      <3>2. /\ now' \in Nat /\ keyLast' \in Nat /\ keyLast' <= now' /\ keyTokens' \in Int
            /\ keyTokens' <= RPM * Token /\ 0 <= keyTokens' + Lag * RPM
        BY DEF RateInv, DebtOK
      <3>. QED BY <3>1, <3>2
    <2>2. \A i \in 1 .. Len(admitted') : admitted'[i] \in 0 .. now'
      <3>1. /\ now' \in Nat /\ admitted' \in Seq(Nat)
            /\ \A i \in 1 .. Len(admitted') : admitted'[i] <= now'
        BY DEF RateInv, DebtOK, AdmittedOK
      <3>. QED BY <3>1
    <2>. QED BY <2>1, <2>2 DEF LimitTypeOK, SlipInv
  <1>2. RestOK
    BY DEF LimitTypeOK
  <1>3. CASE Elapse
    BY <1>0, <1>1, <1>2, <1>3 DEF Elapse
  <1>4. ASSUME NEW t \in Stamps, Trip(t) PROVE RestOK'
    <2>1. t \in 0 .. MaxTime
      BY <1>0, <1>2 DEF Stamps
    <2>. QED BY <1>0, <1>2, <1>4, <2>1 DEF Trip
  <1>5. ASSUME NEW t \in Stamps, Pass(t), now' = now, retryAt' \in Nat PROVE RestOK'
    <2>1. Len(burstWin') <= BurstRPS
      <3>1. CASE ~BurstOn
        BY <1>2, <1>5, <3>1 DEF Pass
      <3>2. CASE BurstOn
        <4>1. burstWin' = Window(t) /\ ~(Len(Window(t)) > BurstRPS)
          BY <1>5, <3>2 DEF Pass, Trips
        <4>2. WindowOK /\ now \in Int
          BY <1>2, <3>2 DEF BurstInv
        <4>3. Window(t) \in Seq(Int)
          BY <1>0, <4>2, WindowGrows
        <4>4. Len(Window(t)) \in Nat
          BY <4>3
        <4>. QED BY <1>0, <4>1, <4>4
      <3>. QED BY <3>1, <3>2
    <2>. QED BY <1>0, <1>2, <1>5, <2>1 DEF Pass
  <1>6. ASSUME NEW t \in Stamps, Limit(t) PROVE RestOK'
    <2>1. Pass(t) /\ now' = now /\ retryAt' = now + RetryAfter(t) * Second /\ Filled(t) < Token
      BY <1>6 DEF Limit
    <2>2. PICK n \in Int : n = Token - Filled(t)
      BY <1>0, RateFilled
    <2>3. PICK d \in Int : d = Token * RPM
      BY <1>0
    <2>4. n > 0 /\ d > 0
      <3>1. Filled(t) \in Int
        BY RateFilled
      <3>. QED BY <1>0, <2>1, <2>2, <2>3, <3>1
    <2>5. n \div d \in Nat
      BY <2>4
    <2>6. RetryAfter(t) \in Nat
      BY <2>2, <2>3, <2>5 DEF RetryAfter
    <2>7. RetryAfter(t) * Second \in Nat
      BY <1>0, <2>6
    <2>8. retryAt' \in Nat
      BY <1>2, <2>1, <2>7
    <2>. QED BY <1>5, <2>1, <2>8
  <1>7. ASSUME NEW t \in Stamps, Admit(t) PROVE RestOK'
    BY <1>5, <1>7 DEF Admit
  <1>8. CASE UNCHANGED limitVars
    BY <1>1, <1>2, <1>8 DEF limitVars
  <1>9. ASSUME NEW t \in Stamps, Refuse(t) \/ Slip(t) PROVE RestOK'
    BY <1>2, <1>9 DEF Refuse, Slip, limitVars
  <1>. QED BY <1>1, <1>3, <1>4, <1>6, <1>7, <1>8, <1>9 DEF LimitNext

\* Every variable of the limits keeps its type: the window never outgrows the
\* burst limit and no debt of a bucket is larger than a call may be late.
THEOREM LimitTypeCorrect == LimitSpec => []LimitTypeOK
  <1>1. LimitInit => RateInv /\ BurstInv /\ SlipInv /\ LimitTypeOK
    <2>. SUFFICES ASSUME LimitInit PROVE RateInv /\ BurstInv /\ SlipInv /\ LimitTypeOK
      OBVIOUS
    <2>1. LimitTypeOK
      BY LimitConstants, LimitAssumption DEF LimitInit, LimitTypeOK
    <2>2. SlipInv
      BY DEF LimitInit, SlipInv, SlipsApart
    <2>. QED BY <2>1, <2>2, RateInit, BurstInit
  <1>2. RateInv /\ BurstInv /\ SlipInv /\ LimitTypeOK /\ [LimitNext]_limitVars
          => RateInv' /\ BurstInv' /\ SlipInv' /\ LimitTypeOK'
    BY RateStep, BurstStep, SlipStep, LimitTypes
  <1>. QED BY <1>1, <1>2, PTL DEF LimitSpec
=============================================================================
