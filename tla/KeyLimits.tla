------------------------------ MODULE KeyLimits ------------------------------
(***************************************************************************)
(* The limits of one issued key: checkKeyLimits of internal/handler/pow.go *)
(* and the verdict gatewayAuthMiddleware draws from it.                    *)
(*                                                                         *)
(* A call is one section of s.mu, but it takes its time before it has the  *)
(* lock: calls of many goroutines are a sequence of sections, each with a  *)
(* time t that may be behind the clock and behind the times of the calls   *)
(* before it.  The answer to a running cooldown is measured with a second  *)
(* look at the clock, under the lock.  The clock counts ticks, Second of   *)
(* them in a second.  Tokens are counted in units of 1/Token, in which the *)
(* refill of a tick is the whole number RPM: the floating point rounding,  *)
(* by which less than 60 ns to the next token is no time, is left out.     *)
(***************************************************************************)
EXTENDS Integers, Sequences, PowClock

CONSTANTS
  Second,         \* ticks in a second
  Token,          \* ticks in a minute, and the units of a token
  BurstRPS,       \* cfg.PowBurstRPS, 0 to disable
  BurstCooldown,  \* cfg.PowBurstCooldown, in ticks
  RPM,            \* the plan's requests in a minute, at least 1 by max1
  Lag             \* how long a call may wait for the lock (bound)

\* A cooldown shorter than the window would forget the burst it punishes.
ASSUME LimitAssumption ==
  /\ Second \in Nat \ {0}
  /\ Token \in Nat /\ Token > Second
  /\ RPM \in Nat \ {0}
  /\ BurstRPS \in Nat
  /\ BurstCooldown \in Nat /\ BurstCooldown >= Second
  /\ Lag \in Nat
  /\ MaxTime \in Nat

VARIABLES
  cooldown,  \* cooldowns[keyHash], 0 if there is none
  burstWin,  \* burstWin[keyHash].t
  keyTokens, \* rpmBuckets[keyHash].tokens; full before the first call
  keyLast,   \* rpmBuckets[keyHash].last
  admitted,  \* history: when requests were counted and let through
  slipped,   \* history: when requests were let through without being counted
  retryAt    \* history: when the last rate_limited client was told to return

limitVars == <<now, cooldown, burstWin, keyTokens, keyLast, admitted, slipped,
               retryAt>>

BurstOn == BurstRPS > 0 /\ BurstCooldown > 0

\* The times a call that gets the lock now may have taken.
Stamps == {t \in now - Lag .. now : t >= 0}

Cooling(t) == cooldown # 0 /\ t < cooldown

\* now.Before(until) with the time of the call, but time.Until(until) with the
\* clock: nothing is left of the cooldown, and the middleware blocks only on
\* more than nothing.
Outlasts(t) == Cooling(t) /\ now >= cooldown

\* The requests of the second before t, of the first n in the window.
RecentUpTo(t) ==
  LET recent[n \in 0 .. Len(burstWin)] ==
        IF n = 0 THEN <<>>
        ELSE IF burstWin[n] > t - Second THEN Append(recent[n - 1], burstWin[n])
        ELSE recent[n - 1]
  IN  recent

\* Those of the whole window, and this one.
Window(t) == Append(RecentUpTo(t)[Len(burstWin)], t)

Trips(t) == BurstOn /\ Len(Window(t)) > BurstRPS

\* Mutant: tokens per second taken for tokens per minute.
FilledSlowly(t) ==
  LET filled == keyTokens + ((t - keyLast) * RPM * Second) \div Token
  IN  IF filled > RPM * Token THEN RPM * Token ELSE filled

\* The tokens once the time since the last call is accounted for.
Filled(t) ==
  LET filled == keyTokens + (t - keyLast) * RPM
  IN  IF filled > RPM * Token THEN RPM * Token ELSE filled

\* The code of the answer: "" lets the request through.
Verdict(t) ==
  IF Outlasts(t) THEN ""
  ELSE IF Cooling(t) \/ Trips(t) THEN "key_cooldown"
  ELSE IF Filled(t) < Token THEN "rate_limited" ELSE ""

\* The seconds of the Retry-After header of a rate_limited answer:
\* deficit / rpm, rounded down, and one.
RetryAfter(t) == (Token - Filled(t)) \div (Token * RPM) + 1

(***************************************************************************)
(* Actions                                                                 *)
(***************************************************************************)

LimitInit ==
  /\ now = 0
  /\ cooldown = 0
  /\ burstWin = <<>>
  /\ keyTokens = RPM * Token
  /\ keyLast = 0
  /\ admitted = <<>>
  /\ slipped = {}
  /\ retryAt = 0

Elapse ==
  /\ now < MaxTime
  /\ now' = now + 1
  /\ UNCHANGED <<cooldown, burstWin, keyTokens, keyLast, admitted, slipped, retryAt>>

\* Step 1 of a call: an active cooldown answers for everything.
Refuse(t) ==
  /\ Cooling(t)
  /\ ~Outlasts(t)
  /\ UNCHANGED limitVars

\* The cooldown ended while the call waited for the lock: the request goes
\* through, and neither the window nor the bucket knows of it.
Slip(t) ==
  /\ Outlasts(t)
  /\ slipped' = slipped \cup {now}
  /\ UNCHANGED <<now, cooldown, burstWin, keyTokens, keyLast, admitted, retryAt>>

\* Mutant: the cooldown is not recorded.
TripUnpunished(t) ==
  /\ ~Cooling(t)
  /\ Trips(t)
  /\ cooldown' = 0
  /\ burstWin' = <<>>
  /\ UNCHANGED <<now, keyTokens, keyLast, admitted, slipped, retryAt>>

\* Step 2: this request is one too many within a second.
Trip(t) ==
  /\ ~Cooling(t)
  /\ Trips(t)
  /\ cooldown' = t + BurstCooldown
  /\ burstWin' = <<>>
  /\ UNCHANGED <<now, keyTokens, keyLast, admitted, slipped, retryAt>>

\* A request that goes on to step 3 is in the window, whatever happens there.
Pass(t) ==
  /\ ~Cooling(t)
  /\ ~Trips(t)
  /\ cooldown' = 0
  /\ burstWin' = IF BurstOn THEN Window(t) ELSE burstWin
  /\ keyLast' = t

\* Step 3: no token.
Limit(t) ==
  /\ Pass(t)
  /\ Filled(t) < Token
  /\ keyTokens' = Filled(t)
  /\ retryAt' = now + RetryAfter(t) * Second
  /\ UNCHANGED <<now, admitted, slipped>>

\* Mutant: no token is taken.
AdmitFree(t) ==
  /\ Pass(t)
  /\ Filled(t) >= Token
  /\ keyTokens' = Filled(t)
  /\ admitted' = Append(admitted, now)
  /\ retryAt' = 0
  /\ UNCHANGED <<now, slipped>>

\* A token is taken.
Admit(t) ==
  /\ Pass(t)
  /\ Filled(t) >= Token
  /\ keyTokens' = Filled(t) - Token
  /\ admitted' = Append(admitted, now)
  /\ retryAt' = 0
  /\ UNCHANGED <<now, slipped>>

LimitNext ==
  \/ Elapse
  \/ \E t \in Stamps : Refuse(t) \/ Slip(t) \/ Trip(t) \/ Limit(t) \/ Admit(t)

LimitSpec == LimitInit /\ [][LimitNext]_limitVars

-----------------------------------------------------------------------------
(***************************************************************************)
(* Properties                                                              *)
(***************************************************************************)

\* Every variable keeps its type, and the window never holds more than the
\* limit.
LimitTypeOK ==
  /\ now \in 0 .. MaxTime
  /\ cooldown \in 0 .. MaxTime + BurstCooldown
  /\ Len(burstWin) <= BurstRPS
  /\ keyTokens \in -(Lag * RPM) .. RPM * Token
  /\ keyLast \in 0 .. now
  /\ \A i \in 1 .. Len(admitted) : admitted[i] \in 0 .. now
  /\ slipped \subseteq 0 .. now
  /\ retryAt \in Nat

\* No second sees more than BurstRPS counted requests, whatever the order in
\* which late calls get the lock, and also across the end of a cooldown, whose
\* trip cleared the window.  A call that waits for the lock may shorten the
\* second by what it waited and no more.
Spaced ==
  BurstOn =>
    \A i \in 1 .. Len(admitted) :
      i + BurstRPS <= Len(admitted) =>
        admitted[i + BurstRPS] - admitted[i] >= Second - Lag

\* A request that slips through uncounted does so a cooldown after whatever was
\* counted before it.
SlipsApart ==
  BurstOn =>
    \A s \in slipped : \A i \in 1 .. Len(admitted) :
      admitted[i] < s => admitted[i] <= s - BurstCooldown + Lag

\* What a punished key gains: never more than BurstRPS counted requests in a
\* second, and the requests that the end of a cooldown lets through uncounted
\* come only when the punishment has been served in full.  How many of those
\* there are the code does not bound (NoneSlips).
BurstBound == Spaced /\ SlipsApart

\* Between any two counted admissions the key used no more than a minute's
\* worth and what the time between them refills, although a late call turns
\* the clock of the bucket back.  The requests in slipped are outside of this
\* account, as they are outside of the code's.
RpmBound ==
  \A i, j \in 1 .. Len(admitted) :
    i <= j =>
      (j - i + 1) * Token
        <= RPM * Token + (admitted[j] - admitted[i] + Lag) * RPM

\* "checkKeyLimits enforces burst cooldown then plan RPM": every request that
\* is let through has been counted.  A call that outlasts a cooldown in the
\* queue for the lock has not.
NoneSlips == slipped = {}

\* A call that comes a minute / RPM after the ones before is never
\* rate_limited, whatever was asked before: a late call may leave a debt, but
\* none larger than the time it was late.
PoliteIsServed ==
  \A t \in Stamps :
    (t - keyLast - Lag) * RPM >= Token => Verdict(t) # "rate_limited"

\* "retry after %d second(s)": a client that returns when it was told to, with
\* no request in between, is not rate_limited again.
HintHonest ==
  retryAt # 0 /\ now >= retryAt => Verdict(now) # "rate_limited"
=============================================================================
