------------------------------- MODULE PowKeys -------------------------------
(***************************************************************************)
(* Proof-of-work API keys: handleChallenge, handleRedeem and LookupKey of  *)
(* internal/handler/pow.go over the SQLite store of internal/pow/store.go. *)
(*                                                                         *)
(* Each database statement is a step of its own, so redemptions of one     *)
(* challenge interleave, and the gateway may stop and start again between  *)
(* any two steps: the tables survive, the auth cache and the handlers do   *)
(* not.  The clock counts seconds, the resolution of the stored times.     *)
(* Whether counters solve a challenge is the client's business: any may.   *)
(* Quotas and difficulty are in PowQuota, limits of a key in KeyLimits.    *)
(***************************************************************************)
EXTENDS Integers, FiniteSets, PowClock

CONSTANTS
  Clients,       \* binding hashes: address and user agent of a client
  Challenges,    \* challenge ids (bound: how many are minted)
  Keys,          \* key hashes (bound: how many are drawn)
  None,          \* no challenge, no key
  Redeemers,     \* goroutines of handleRedeem
  Lookers,       \* goroutines of LookupKey
  ChallengeTTL,  \* cfg.PowChallengeTTL
  KeyTTL,        \* cfg.PowKeyTTL
  Grace,         \* how long CleanupExpired keeps an expired challenge
  BonusCap,      \* 8 bits
  IdleWindow,    \* 24 hours, after which a bonus is not read any more
  MaxFaults      \* how many statements fail (bound)

ASSUME PowAssumption ==
  /\ {ChallengeTTL, KeyTTL, Grace, IdleWindow, MaxTime, MaxFaults} \subseteq Nat
  /\ BonusCap \in Nat \ {0}
  /\ None \notin Challenges \cup Keys
  /\ IsFiniteSet(Keys)

VARIABLES
  row,        \* pow_challenges: the state of each challenge
  bind,       \* its bind column
  minted,     \* its issued_at column
  stored,     \* api_keys: the keys that have a row
  created,    \* the created_at column of a key
  bonus,      \* pow_ip_bonus.bonus_bits
  bonusAt,    \* pow_ip_bonus.updated_at
  keyCache,   \* PoWService.keyCache
  pc,         \* where each handleRedeem is
  ch,         \* the challenge it redeems
  at,         \* the time it took at the start
  key,        \* the key it drew
  fetched,    \* the key a LookupKey has read from the store
  origin,     \* history: the challenge each key was issued for
  delivered,  \* history: keys that were sent to a client
  missed,     \* history: bonus bits that were not written
  faults      \* failed statements so far

table    == <<row, bind, minted>>
keyTable == <<stored, created, origin>>
ipTable  == <<bonus, bonusAt, missed>>
handler  == <<pc, ch, at, key>>
vars == <<now, row, bind, minted, stored, created, bonus, bonusAt, keyCache, pc,
          ch, at, key, fetched, origin, delivered, missed, faults>>

Expires(c) == minted[c] + ChallengeTTL
KeyExpires(k) == created[k] + KeyTTL

\* The keys ListAPIKeys and GetAPIKey return.
Live == {k \in stored : KeyExpires(k) > now}

\* LookupKey: a cached key is accepted as it is, any other by its row.
LookupKey(k) == k \in keyCache \cup Live

\* IPBonus: a row that was not touched for a while does not count.
IPBonus(b) == IF bonusAt[b] > now - IdleWindow THEN bonus[b] ELSE 0

Issued == {k \in Keys : origin[k] # None}

Fail == faults < MaxFaults /\ faults' = faults + 1

Goto(r, l) == pc' = [pc EXCEPT ![r] = l]

(***************************************************************************)
(* Actions                                                                 *)
(***************************************************************************)

Init ==
  /\ now = 0
  /\ row = [c \in Challenges |-> "none"]
  /\ bind \in [Challenges -> Clients]
  /\ minted = [c \in Challenges |-> 0]
  /\ stored = {}
  /\ created = [k \in Keys |-> 0]
  /\ bonus = [b \in Clients |-> 0]
  /\ bonusAt = [b \in Clients |-> 0]
  /\ keyCache = {}
  /\ pc = [r \in Redeemers |-> "idle"]
  /\ ch = [r \in Redeemers |-> None]
  /\ at = [r \in Redeemers |-> 0]
  /\ key = [r \in Redeemers |-> None]
  /\ fetched = [l \in Lookers |-> None]
  /\ origin = [k \in Keys |-> None]
  /\ delivered = {}
  /\ missed = [b \in Clients |-> 0]
  /\ faults = 0

Tick ==
  /\ now < MaxTime
  /\ now' = now + 1
  /\ UNCHANGED <<table, keyTable, ipTable, keyCache, handler, fetched, delivered,
                 faults>>

\* handleChallenge within the quota: the client is part of the new id.
Mint(c) ==
  /\ row[c] = "none"
  /\ row' = [row EXCEPT ![c] = "fresh"]
  /\ minted' = [minted EXCEPT ![c] = now]
  /\ UNCHANGED <<now, bind, keyTable, ipTable, keyCache, handler, fetched,
                 delivered, faults>>

\* handleRedeem up to Verify: every check is made on the row as it was read
\* here, at the time taken here.  A wrong client or wrong counters end it.
\* At the second of issue the too-fast guard may let a solution pass.
Load(r, c) ==
  /\ pc[r] = "idle"
  /\ row[c] = "fresh"
  /\ now <= Expires(c)
  /\ ch' = [ch EXCEPT ![r] = c]
  /\ at' = [at EXCEPT ![r] = now]
  /\ Goto(r, "consume")
  /\ UNCHANGED <<now, table, keyTable, ipTable, keyCache, key, fetched,
                 delivered, faults>>

\* Mutant: the update does not look at the used flag again.
ConsumeChallengeBlindly(r) ==
  /\ pc[r] = "consume"
  /\ \/ /\ row[ch[r]] # "gone"
        /\ Expires(ch[r]) > now
        /\ row' = [row EXCEPT ![ch[r]] = "used"]
        /\ Goto(r, "bump")
     \/ /\ row[ch[r]] = "gone" \/ Expires(ch[r]) <= now
        /\ Goto(r, "idle")
        /\ UNCHANGED row
  /\ UNCHANGED <<now, bind, minted, keyTable, ipTable, keyCache, ch, at, key,
                 fetched, delivered, faults>>

\* ConsumeChallenge, one UPDATE: only the redemption that changes the row
\* goes on.
ConsumeChallenge(r) ==
  /\ pc[r] = "consume"
  /\ \/ /\ row[ch[r]] = "fresh"
        /\ Expires(ch[r]) > now
        /\ row' = [row EXCEPT ![ch[r]] = "used"]
        /\ Goto(r, "bump")
        /\ UNCHANGED faults
     \/ /\ row[ch[r]] # "fresh" \/ Expires(ch[r]) <= now
        /\ Goto(r, "idle")
        /\ UNCHANGED <<row, faults>>
     \/ /\ Fail
        /\ Goto(r, "idle")
        /\ UNCHANGED row
  /\ UNCHANGED <<now, bind, minted, keyTable, ipTable, keyCache, ch, at, key,
                 fetched, delivered>>

\* Mutant: the row is replaced instead of being incremented.
BumpIPBonusAfresh(r) ==
  LET b == bind[ch[r]]
  IN  /\ pc[r] = "bump"
      /\ bonus' = [bonus EXCEPT ![b] = 1]
      /\ bonusAt' = [bonusAt EXCEPT ![b] = now]
      /\ Goto(r, "issue")
      /\ UNCHANGED <<now, table, keyTable, missed, keyCache, ch, at, key,
                     fetched, delivered, faults>>

\* BumpIPBonus; a failure is logged and the redemption goes on.
BumpIPBonus(r) ==
  LET b == bind[ch[r]]
  IN  /\ pc[r] = "bump"
      /\ \/ /\ bonus' = [bonus EXCEPT ![b] = IF @ < BonusCap THEN @ + 1
                                             ELSE BonusCap]
            /\ bonusAt' = [bonusAt EXCEPT ![b] = now]
            /\ UNCHANGED <<missed, faults>>
         \/ /\ Fail
            /\ missed' = [missed EXCEPT ![b] = @ + 1]
            /\ UNCHANGED <<bonus, bonusAt>>
      /\ Goto(r, "issue")
      /\ UNCHANGED <<now, table, keyTable, keyCache, ch, at, key, fetched,
                     delivered>>

\* InsertAPIKey of a key never drawn before.  When it fails the challenge is
\* spent all the same.
InsertAPIKey(r) ==
  /\ pc[r] = "issue"
  /\ \/ /\ \E k \in Keys \ Issued :
             /\ key' = [key EXCEPT ![r] = k]
             /\ stored' = stored \cup {k}
             /\ created' = [created EXCEPT ![k] = at[r]]
             /\ origin' = [origin EXCEPT ![k] = ch[r]]
        /\ Goto(r, "cache")
        /\ UNCHANGED faults
     \/ /\ Fail
        /\ Goto(r, "idle")
        /\ UNCHANGED <<keyTable, key>>
  /\ UNCHANGED <<now, table, ipTable, keyCache, ch, at, fetched, delivered>>

\* cacheKey, and the answer with the key.
Deliver(r) ==
  /\ pc[r] = "cache"
  /\ keyCache' = keyCache \cup {key[r]}
  /\ delivered' = delivered \cup {key[r]}
  /\ key' = [key EXCEPT ![r] = None]
  /\ Goto(r, "idle")
  /\ UNCHANGED <<now, table, keyTable, ipTable, ch, at, fetched, faults>>

\* LookupKey on a cache miss: GetAPIKey, then the cache.
GetAPIKey(l) ==
  /\ fetched[l] = None
  /\ \E k \in Live \ keyCache : fetched' = [fetched EXCEPT ![l] = k]
  /\ UNCHANGED <<now, table, keyTable, ipTable, keyCache, handler, delivered,
                 faults>>

CacheFetched(l) ==
  /\ fetched[l] # None
  /\ keyCache' = keyCache \cup {fetched[l]}
  /\ fetched' = [fetched EXCEPT ![l] = None]
  /\ UNCHANGED <<now, table, keyTable, ipTable, handler, delivered, faults>>

\* CleanupExpired, from maintenanceLoop: two statements nobody relies on
\* being one.
CleanupChallenges ==
  /\ row' = [c \in Challenges |->
               IF row[c] # "none" /\ Expires(c) < now - Grace THEN "gone"
               ELSE row[c]]
  /\ UNCHANGED <<now, bind, minted, keyTable, ipTable, keyCache, handler,
                 fetched, delivered, faults>>

\* Mutant: the cleanup deletes by the time of creation.
CleanupKeysByAge ==
  /\ stored' = {k \in stored : created[k] >= now}
  /\ UNCHANGED <<now, table, created, origin, ipTable, keyCache, handler,
                 fetched, delivered, faults>>

CleanupKeys ==
  /\ stored' = {k \in stored : KeyExpires(k) >= now}
  /\ UNCHANGED <<now, table, created, origin, ipTable, keyCache, handler,
                 fetched, delivered, faults>>

\* The gateway stops, whatever its handlers were doing, and newPoWService
\* warms the cache from the store.
Restart ==
  /\ keyCache' = Live
  /\ pc' = [r \in Redeemers |-> "idle"]
  /\ key' = [r \in Redeemers |-> None]
  /\ fetched' = [l \in Lookers |-> None]
  /\ UNCHANGED <<now, table, keyTable, ipTable, ch, at, delivered, faults>>

Next ==
  \/ Tick
  \/ \E c \in Challenges : Mint(c)
  \/ \E r \in Redeemers, c \in Challenges : Load(r, c)
  \/ \E r \in Redeemers :
       ConsumeChallenge(r) \/ BumpIPBonus(r) \/ InsertAPIKey(r) \/ Deliver(r)
  \/ \E l \in Lookers : GetAPIKey(l) \/ CacheFetched(l)
  \/ CleanupChallenges
  \/ CleanupKeys
  \/ Restart

Spec == Init /\ [][Next]_vars

-----------------------------------------------------------------------------
(***************************************************************************)
(* Properties                                                              *)
(***************************************************************************)

\* Every variable keeps its type; a handler past the consume step has a
\* challenge, one about to answer has a key.
TypeOK ==
  /\ now \in Nat
  /\ row \in [Challenges -> {"none", "fresh", "used", "gone"}]
  /\ bind \in [Challenges -> Clients]
  /\ minted \in [Challenges -> Nat]
  /\ stored \subseteq Keys
  /\ created \in [Keys -> Nat]
  /\ bonus \in [Clients -> 0 .. BonusCap]
  /\ bonusAt \in [Clients -> Nat]
  /\ keyCache \subseteq Keys
  /\ pc \in [Redeemers -> {"idle", "consume", "bump", "issue", "cache"}]
  /\ ch \in [Redeemers -> Challenges \cup {None}]
  /\ at \in [Redeemers -> Nat]
  /\ key \in [Redeemers -> Keys \cup {None}]
  /\ fetched \in [Lookers -> Keys \cup {None}]
  /\ origin \in [Keys -> Challenges \cup {None}]
  /\ delivered \subseteq Keys
  /\ missed \in [Clients -> Nat]
  /\ faults \in Nat
  /\ \A r \in Redeemers : pc[r] # "idle" => ch[r] # None
  /\ \A r \in Redeemers : pc[r] = "cache" => key[r] # None

\* However many redemptions of a challenge run side by side, and whatever
\* fails or restarts between their steps, it earns one key at most.
OneKeyPerChallenge ==
  \A k, l \in Issued : origin[k] = origin[l] => k = l

\* A key that was sent to a client is accepted until it expires, across
\* restarts, cleanups and failing statements.
DeliveredLasts ==
  \A k \in delivered : KeyExpires(k) > now => LookupKey(k)

\* The keys a client earned lately.
Earned(b) ==
  {k \in Issued : bind[origin[k]] = b /\ created[k] > now - IdleWindow}

\* Every key earned lately counts in the difficulty of the client's next
\* challenge, up to the cap; only a failed statement can lose a bit.
PenaltyPaid ==
  \A b \in Clients :
    \/ Cardinality(Earned(b)) <= IPBonus(b) + missed[b]
    \/ IPBonus(b) = BonusCap

\* The handlers that have consumed a challenge and not yet drawn its key.
Holders(c) == {r \in Redeemers : ch[r] = c /\ pc[r] \in {"bump", "issue"}}

Standing(c) ==
  IF row[c] = "none" THEN "new"
  ELSE IF row[c] = "fresh" \/ Holders(c) # {} THEN "open" ELSE "closed"

Lapsed == {k \in Issued : KeyExpires(k) <= now}

Service == INSTANCE KeyExchange WITH
             standing <- [c \in Challenges |-> Standing(c)],
             earned <- origin,
             accepted <- {k \in Keys : LookupKey(k)},
             lapsed <- Lapsed

\* The statements of handleRedeem, the cache of LookupKey, the cleanups and
\* the restarts amount to the exchange of KeyExchange: a challenge is open
\* until the row of its key is written, or until the handler that consumed it
\* fails or is lost with the process.
Exchanges == Service!Spec

\* "Keys expire after POW_KEY_TTL": an expired key is not accepted.
ExpiredRejected == \A k \in Issued : LookupKey(k) => KeyExpires(k) > now
=============================================================================
