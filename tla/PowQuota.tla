------------------------------ MODULE PowQuota ------------------------------
(***************************************************************************)
(* What a challenge costs and how many there are: the first half of        *)
(* handleChallenge in internal/handler/pow.go (flood valve, challenge rate *)
(* and daily cap of one address) and the adaptive difficulty of            *)
(* internal/pow/difficulty.go.                                             *)
(*                                                                         *)
(* handleChallenge takes the time once, before it locks anything, and runs *)
(* two sections of s.mu with it, so a handler may use a time older than    *)
(* what others have written meanwhile.  Solve times are seconds; their     *)
(* average is kept exactly, as the fraction ewma / scale.                  *)
(***************************************************************************)
EXTENDS Integers, PowClock

CONSTANTS
  Handlers,        \* goroutines of handleChallenge, all of one address
  Minute,          \* ticks in a minute
  Day,             \* ticks in a day
  PerMin,          \* max1(cfg.PowChallengePerMin)
  ValveOn,         \* cfg.PowChallengePerMin > 0; PerMin is 1 if it is not
  PerDay,          \* max1(cfg.PowChallengePerDay)
  FloodFactor,     \* 10: a flood is that many times PerMin in a minute
  EscalateBits,    \* 2
  EscalateFor,     \* 15 minutes
  MinBits,         \* cfg.PowMinDifficulty
  MaxBits,         \* cfg.PowMaxDifficulty
  BaseBits,        \* cfg.PowBaseDifficulty, clamped by NewDifficulty
  TargetMin,       \* 30 seconds
  TargetMax,       \* 90 seconds
  MinSamples,      \* 5
  SolveTimes,      \* solve times that occur, all within the plausible day
  MaxSamples,      \* how many samples one average takes (bound)
  MaxWindow        \* how many requests one flood window takes (bound)

\* What Load and the constants of the code leave open.
ASSUME QuotaAssumption ==
  /\ {FloodFactor, EscalateFor, MinBits, MaxBits, BaseBits, TargetMin,
      TargetMax, MinSamples, MaxSamples, MaxWindow, MaxTime} \subseteq Nat
  /\ {Minute, Day, PerMin, PerDay, EscalateBits} \subseteq Nat \ {0}
  /\ ValveOn \in BOOLEAN /\ (ValveOn \/ PerMin = 1)
  /\ MinBits <= BaseBits /\ BaseBits <= MaxBits
  /\ TargetMin < TargetMax
  /\ SolveTimes \subseteq Nat

VARIABLES
  asks,           \* where each handler is
  asked,          \* the time it took at the start
  escWindowStart, escWindowCount,
  tokens, last,   \* chBuckets[ip], in units of 1/Minute token
  day, used,      \* chDaily[ip]
  base, escalation, escalateUntil,
  ewmaCount,
  ewma, scale,    \* the average, its numerator and its denominator
  issued,         \* history: how many challenges passed the quota,
  flooded,        \* when a handler last saw a flood, and
  seen            \* the solve times since base last moved

valve   == <<escWindowStart, escWindowCount>>
quota   == <<tokens, last, day, used, issued>>
bits    == <<escalation, escalateUntil, flooded>>
average == <<base, ewmaCount, ewma, scale, seen>>
quotaVars == <<now, asks, asked, escWindowStart, escWindowCount, tokens, last,
               day, used, base, escalation, escalateUntil, ewmaCount, ewma,
               scale, issued, flooded, seen>>

\* Difficulty.Current
Current(planBits, ipBonus) ==
  LET total == base + planBits + escalation + ipBonus
  IN  IF total < MinBits THEN MinBits
      ELSE IF total > MaxBits THEN MaxBits ELSE total

\* The zero of time.Time: every window that began or ended then is over.
LongAgo == -(Minute + EscalateFor + 1)

Move(h, l) == asks' = [asks EXCEPT ![h] = l]

(***************************************************************************)
(* Actions                                                                 *)
(***************************************************************************)

QuotaInit ==
  /\ now = 0
  /\ asks = [h \in Handlers |-> "idle"]
  /\ asked = [h \in Handlers |-> 0]
  /\ escWindowStart = LongAgo
  /\ escWindowCount = 0
  /\ tokens = PerMin * Minute
  /\ last = 0
  /\ day = 0
  /\ used = 0
  /\ base = BaseBits
  /\ escalation = 0
  /\ escalateUntil = LongAgo
  /\ ewmaCount = 0
  /\ ewma = 0
  /\ scale = 1
  /\ issued = 0
  /\ flooded = LongAgo
  /\ seen = {}

QuotaTick ==
  /\ now < MaxTime
  /\ now' = now + 1
  /\ UNCHANGED <<asks, asked, valve, quota, bits, average>>

Arrive(h) ==
  /\ asks[h] = "idle"
  /\ escWindowCount < MaxWindow \/ now - escWindowStart > Minute
  /\ asked' = [asked EXCEPT ![h] = now]
  /\ Move(h, "valve")
  /\ UNCHANGED <<now, valve, quota, bits, average>>

\* The flood valve counts every request, of whatever address.
Valve(h) ==
  LET fresh == asked[h] - escWindowStart > Minute
      count == IF fresh THEN 1 ELSE escWindowCount + 1
  IN  /\ asks[h] = "valve"
      /\ escWindowStart' = IF fresh THEN asked[h] ELSE escWindowStart
      /\ escWindowCount' = count
      /\ Move(h, IF ValveOn /\ count > PerMin * FloodFactor THEN "flood" ELSE "quota")
      /\ UNCHANGED <<now, asked, quota, bits, average>>

\* Mutant: an escalation that is active is not prolonged.
EscalateOnce(h) ==
  /\ asks[h] = "flood"
  /\ escalation' = EscalateBits
  /\ escalateUntil' = IF now >= escalateUntil THEN now + EscalateFor
                      ELSE escalateUntil
  /\ flooded' = now
  /\ Move(h, "quota")
  /\ UNCHANGED <<now, asked, valve, quota, average>>

\* Difficulty.Escalate, which reads the clock itself.
Escalate(h) ==
  /\ asks[h] = "flood"
  /\ escalation' = IF escalation < EscalateBits \/ now > escalateUntil
                   THEN EscalateBits ELSE escalation
  /\ escalateUntil' = IF EscalateFor > escalateUntil - now
                         \/ now > escalateUntil
                      THEN now + EscalateFor ELSE escalateUntil
  /\ flooded' = now
  /\ Move(h, "quota")
  /\ UNCHANGED <<now, asked, valve, quota, average>>

\* Mutant: a handler that comes late with an old time leaves last as it is
\* and is given the time it is late.
QuotaLate(h) ==
  LET gone   == IF asked[h] > last THEN asked[h] - last ELSE last - asked[h]
      t      == tokens + gone * PerMin
      filled == IF t > PerMin * Minute THEN PerMin * Minute ELSE t
  IN  /\ asks[h] = "quota"
      /\ tokens' = IF filled >= Minute THEN filled - Minute ELSE filled
      /\ last' = asked[h]
      /\ issued' = IF filled >= Minute THEN issued + 1 ELSE issued
      /\ Move(h, "idle")
      /\ UNCHANGED <<now, asked, day, used, valve, bits, average>>

\* tokenBucket.allow and dailyCount.allow, both with the handler's time and
\* both asked, whatever the other says.
Quota(h) ==
  LET t      == tokens + (asked[h] - last) * PerMin
      filled == IF t > PerMin * Minute THEN PerMin * Minute ELSE t
      today  == asked[h] \div Day
      n      == IF day # today THEN 0 ELSE used
      ok1    == filled >= Minute
      ok2    == n < PerDay
  IN  /\ asks[h] = "quota"
      /\ tokens' = IF ok1 THEN filled - Minute ELSE filled
      /\ last' = asked[h]
      /\ day' = today
      /\ used' = IF ok2 THEN n + 1 ELSE n
      /\ issued' = IF ok1 /\ ok2 THEN issued + 1 ELSE issued
      /\ Move(h, "idle")
      /\ UNCHANGED <<now, asked, valve, bits, average>>

\* Mutant: the first sample is averaged with the zero of an empty average.
RecordSolveFromZero(secs) ==
  LET n   == ewmaCount + 1
      e   == secs * 5 ^ (n - 1) + 4 * ewma
      low == n >= MinSamples /\ e < TargetMin * 5 ^ n /\ base < MaxBits
  IN  /\ n <= MaxSamples
      /\ base' = IF low THEN base + 1 ELSE base
      /\ ewmaCount' = IF low THEN 0 ELSE n
      /\ ewma' = IF low THEN 0 ELSE e
      /\ seen' = IF low THEN {} ELSE seen \cup {secs}
      /\ UNCHANGED <<now, asks, asked, valve, quota, bits, scale>>

\* Difficulty.RecordSolve: alpha is 1/5, the first sample is the average.
\* What is left in ewma when the count restarts is never read.
RecordSolve(secs) ==
  LET n    == ewmaCount + 1
      e    == IF n = 1 THEN secs ELSE secs * scale + 4 * ewma
      d    == IF n = 1 THEN 1 ELSE 5 * scale
      low  == n >= MinSamples /\ e < TargetMin * d /\ base < MaxBits
      high == n >= MinSamples /\ e > TargetMax * d /\ base > MinBits
  IN  /\ n <= MaxSamples
      /\ base' = IF low THEN base + 1 ELSE IF high THEN base - 1 ELSE base
      /\ ewmaCount' = IF low \/ high THEN 0 ELSE n
      /\ ewma' = IF low \/ high THEN 0 ELSE e
      /\ scale' = IF low \/ high THEN 1 ELSE d
      /\ seen' = IF low \/ high THEN {} ELSE seen \cup {secs}
      /\ UNCHANGED <<now, asks, asked, valve, quota, bits>>

QuotaNext ==
  \/ QuotaTick
  \/ \E h \in Handlers : Arrive(h) \/ Valve(h) \/ Escalate(h) \/ Quota(h)
  \/ \E secs \in SolveTimes : RecordSolve(secs)

QuotaSpec == QuotaInit /\ [][QuotaNext]_quotaVars

-----------------------------------------------------------------------------
(***************************************************************************)
(* Properties                                                              *)
(***************************************************************************)

\* Every variable keeps its type, and what is asked of a client stays within
\* the configured bits.
QuotaTypeOK ==
  /\ now \in 0 .. MaxTime
  /\ asks \in [Handlers -> {"idle", "valve", "flood", "quota"}]
  /\ asked \in [Handlers -> 0 .. now]
  /\ escWindowStart \in LongAgo .. now
  /\ escWindowCount \in Nat
  /\ tokens \in Int /\ tokens <= PerMin * Minute
  /\ last \in 0 .. now
  /\ day \in Nat /\ used \in 0 .. PerDay
  /\ base \in MinBits .. MaxBits
  /\ escalation \in {0, EscalateBits}
  /\ ewmaCount \in 0 .. MaxSamples

\* Handlers that come late with an old time turn the bucket's clock back; all
\* the same no more challenges are issued than a full bucket and the time
\* that has passed allow.
RateBound == issued * Minute <= PerMin * Minute + now * PerMin

\* Whoever sees a flood makes challenges harder for the whole time that
\* follows, also when an escalation was running already.
FloodRaises ==
  now < flooded + EscalateFor =>
    /\ escalateUntil >= flooded + EscalateFor
    /\ Current(0, 0) >= base + EscalateBits \/ Current(0, 0) = MaxBits

\* The base rises only if somebody was faster than the target, and falls only
\* if somebody was slower, since it last moved.
BaseFollows ==
  [][\A secs \in SolveTimes : RecordSolve(secs) =>
       /\ base' > base => \E s \in seen \cup {secs} : s < TargetMin
       /\ base' < base => \E s \in seen \cup {secs} : s > TargetMax]_quotaVars

\* "it decays automatically after its window passes"
EscalationEnds ==
  now > escalateUntil => Current(0, 0) = base
=============================================================================
