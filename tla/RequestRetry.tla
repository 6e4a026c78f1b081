---------------------------- MODULE RequestRetry ----------------------------
(***************************************************************************)
(* One client request in internal/handler/handler.go: the acquire, forward *)
(* and retry loop of handleChatCompletions and of handleModels, and the    *)
(* single attempt of handleModelRetrieve.                                  *)
(*                                                                         *)
(* The pool (module ProxyPool) and the provider are the environment: they  *)
(* give any answer at any call.  A nil dereference ends the goroutine with *)
(* pc = "crashed": net/http recovers it and the client gets no response.   *)
(***************************************************************************)
EXTENDS Integers, FiniteSets

CONSTANTS
  Proxies,      \* the proxies of the pool
  None,         \* the nil *Proxy
  Endpoints,    \* the handlers in use, some of "chat", "models", "retrieve"
  MaxRetries    \* cfg.MaxRetries

ASSUME RetryAssumption == MaxRetries \in Nat /\ None \notin Proxies

VARIABLES
  endpoint,     \* the handler that serves the request
  public,       \* isPublicTier(auth)
  pc,           \* where the handler is
  attempt,      \* the loop variable
  proxy,        \* the proxy of the next call
  ownProxy,     \* chat only: the proxy to release at the end
  rateLimited,  \* the last call was throttled
  deadline,     \* freshDeadline has been set
  lastUpstream, \* a 5xx of the provider is remembered
  mark,         \* the State this request left each proxy in
  answer,       \* the response sent to the client
  calls,        \* calls made to the provider
  why           \* history: what happened last

vars == <<endpoint, public, pc, attempt, proxy, ownProxy, rateLimited,
          deadline, lastUpstream, mark, answer, calls, why>>
request == <<endpoint, public>>

Answers == {"none", "200", "4xx", "relay", "429", "502"}
Reasons == {"none", "ok", "ratelimit", "transport", "5xx", "fresh", "nofresh"}

\* The proxies that are busy because of this request.
Busy == {p \in Proxies : mark[p] = "active"}

\* Proxies GetProxy may return.  One that was marked may have recovered.
Obtainable == Proxies \ Busy

\* The proxy a handler gives back when it ends.
Mine == IF endpoint = "chat" THEN ownProxy ELSE proxy

\* PoolManager.ReleaseProxy, on a copy of mark.
Released(m, p) ==
  IF p \in Proxies /\ m[p] = "active" THEN [m EXCEPT ![p] = "idle"] ELSE m

\* The loop makes another turn.
Turns == pc = "loop" /\ attempt <= MaxRetries

\* It waits for a fresh proxy before it does.
Throttled == attempt > 0 /\ rateLimited

Respond(a) == answer' = a /\ pc' = "done"

Crash == pc' = "crashed" /\ UNCHANGED <<answer, mark>>

(***************************************************************************)
(* Actions                                                                 *)
(***************************************************************************)

Init ==
  /\ endpoint \in Endpoints
  /\ public \in BOOLEAN
  /\ pc = "start"
  /\ attempt = 0
  /\ proxy = None
  /\ ownProxy = None
  /\ rateLimited = FALSE
  /\ deadline = FALSE
  /\ lastUpstream = FALSE
  /\ mark = [p \in Proxies |-> "idle"]
  /\ answer = "none"
  /\ calls = 0
  /\ why = "none"

\* The first GetProxy, bounded by RateLimitFreshIPWait.
Acquire ==
  /\ pc = "start"
  /\ \/ \E p \in Obtainable :
          /\ mark' = [mark EXCEPT ![p] = "active"]
          /\ proxy' = p
          /\ ownProxy' = p
          /\ pc' = "loop"
          /\ UNCHANGED answer
     \/ /\ Respond("429")
        /\ UNCHANGED <<mark, proxy, ownProxy>>
  /\ UNCHANGED <<request, attempt, rateLimited, deadline, lastUpstream, calls,
                 why>>

\* Mutant: a fresh proxy starts the attempts afresh.
FreshFoundRestarts ==
  /\ Turns
  /\ Throttled
  /\ \E p \in Obtainable :
       /\ mark' = [mark EXCEPT ![p] = "active"]
       /\ proxy' = p
       /\ ownProxy' = p
  /\ deadline' = TRUE
  /\ rateLimited' = FALSE
  /\ attempt' = 0
  /\ why' = "fresh"
  /\ UNCHANGED <<request, pc, lastUpstream, answer, calls>>

\* A throttled request waits for a fresh proxy, for what is left of the time
\* that started at the first such wait.  Finding one takes a turn of the loop.
FreshFound ==
  /\ Turns
  /\ Throttled
  /\ \E p \in Obtainable :
       /\ mark' = [mark EXCEPT ![p] = "active"]
       /\ proxy' = p
       /\ ownProxy' = p
  /\ deadline' = TRUE
  /\ rateLimited' = FALSE
  /\ attempt' = attempt + 1
  /\ why' = "fresh"
  /\ UNCHANGED <<request, pc, lastUpstream, answer, calls>>

\* GetProxy returns a nil proxy and an error.
FreshFails ==
  /\ Turns
  /\ Throttled
  /\ proxy' = IF endpoint = "chat" THEN proxy ELSE None
  /\ ownProxy' = None
  /\ deadline' = TRUE
  /\ rateLimited' = FALSE
  /\ pc' = "end"
  /\ why' = "nofresh"
  /\ UNCHANGED <<request, attempt, lastUpstream, mark, answer, calls>>

\* No time is left; it was all there at the first wait.
FreshTooLate ==
  /\ Turns
  /\ Throttled
  /\ deadline
  /\ rateLimited' = FALSE
  /\ pc' = "end"
  /\ why' = "nofresh"
  /\ UNCHANGED <<request, attempt, proxy, ownProxy, deadline, lastUpstream,
                 mark, answer, calls>>

\* The provider is called, through the proxy of this attempt.
Calls ==
  /\ Turns
  /\ ~Throttled
  /\ endpoint # "retrieve"
  /\ proxy # None
  /\ calls' = calls + 1

\* getClient takes the lock of the client cache without a deadline: once a
\* request has died with it (module ClientCache) a later one may wait for ever,
\* with its proxy.
CallBlocks ==
  /\ Turns
  /\ ~Throttled
  /\ proxy # None
  /\ pc' = "blocked"
  /\ UNCHANGED <<request, attempt, proxy, ownProxy, rateLimited, deadline,
                 lastUpstream, mark, answer, calls, why>>

\* client.Do reads proxy.ID.
CallWithoutProxy ==
  /\ Turns
  /\ ~Throttled
  /\ endpoint # "retrieve"
  /\ proxy = None
  /\ Crash
  /\ UNCHANGED <<request, attempt, proxy, ownProxy, rateLimited, deadline,
                 lastUpstream, calls, why>>

\* Mutant: the next turn is not told that the last call was throttled.
CallRateLimitedForgets ==
  /\ Calls
  /\ why' = "ratelimit"
  /\ mark' = [mark EXCEPT ![proxy] = "cooldown"]
  /\ attempt' = attempt + 1
  /\ proxy' = IF endpoint = "chat" THEN proxy ELSE None
  /\ UNCHANGED <<request, pc, ownProxy, rateLimited, deadline, lastUpstream,
                 answer>>

\* rl # nil: the proxy goes to cooldown.  On the public tier that is the end,
\* else the next turn waits for a fresh one.
CallRateLimited ==
  /\ Calls
  /\ why' = "ratelimit"
  /\ LET marked == [mark EXCEPT ![proxy] = "cooldown"]
     IN  \/ /\ public
            /\ mark' = IF endpoint = "chat" THEN Released(marked, ownProxy)
                       ELSE marked
            /\ Respond("429")
            /\ UNCHANGED <<attempt, proxy, rateLimited>>
         \/ /\ ~public
            /\ mark' = marked
            /\ rateLimited' = TRUE
            /\ attempt' = attempt + 1
            /\ proxy' = IF endpoint = "chat" THEN proxy ELSE None
            /\ UNCHANGED <<pc, answer>>
  /\ UNCHANGED <<request, ownProxy, deadline, lastUpstream>>

\* Mutant: the failed proxy is neither marked nor released.
CallFailsUnmarked ==
  /\ Calls
  /\ why' = "transport"
  /\ attempt' = attempt + 1
  /\ \E p \in Obtainable :
       /\ mark' = [mark EXCEPT ![p] = "active"]
       /\ proxy' = p
       /\ ownProxy' = p
  /\ UNCHANGED <<request, pc, rateLimited, deadline, lastUpstream, answer>>

\* err # nil: the proxy is marked unhealthy and another one is asked for; the
\* old one is released once it is there.  It may be the same one, recovered:
\* then it is used without being busy.
CallFails ==
  /\ Calls
  /\ why' = "transport"
  /\ attempt' = attempt + 1
  /\ LET marked == [mark EXCEPT ![proxy] = "unhealthy"]
     IN  \/ \E p \in Obtainable \cup {proxy} :
              /\ mark' = Released([marked EXCEPT ![p] = "active"], Mine)
              /\ proxy' = p
              /\ ownProxy' = p
         \/ /\ mark' = marked
            /\ proxy' = None
            /\ UNCHANGED ownProxy
  /\ UNCHANGED <<request, pc, rateLimited, deadline, lastUpstream, answer>>

\* A 5xx is remembered while there are attempts left.
CallServerError ==
  /\ Calls
  /\ why' = "5xx"
  /\ \/ /\ attempt < MaxRetries
        /\ lastUpstream' = TRUE
        /\ attempt' = attempt + 1
        /\ UNCHANGED <<pc, mark, answer>>
     \/ /\ attempt = MaxRetries
        /\ mark' = Released(mark, Mine)
        /\ Respond("relay")
        /\ UNCHANGED <<lastUpstream, attempt>>
  /\ UNCHANGED <<request, proxy, ownProxy, rateLimited, deadline>>

\* Any other response is handed to the client, a 4xx as it is.
CallAnswers ==
  /\ Calls
  /\ why' = "ok"
  /\ mark' = Released(mark, Mine)
  /\ Respond("200") \/ Respond("4xx")
  /\ UNCHANGED <<request, attempt, proxy, ownProxy, rateLimited, deadline,
                 lastUpstream>>

LoopEnds ==
  /\ pc = "loop"
  /\ attempt > MaxRetries
  /\ pc' = "end"
  /\ UNCHANGED <<request, attempt, proxy, ownProxy, rateLimited, deadline,
                 lastUpstream, mark, answer, calls, why>>

\* handleChatCompletions after the loop: the proxy is released whether or not
\* there is one.
ChatEnd ==
  /\ pc = "end"
  /\ endpoint = "chat"
  /\ \/ ownProxy = None /\ Crash
     \/ /\ ownProxy # None
        /\ mark' = Released(mark, ownProxy)
        /\ Respond(IF rateLimited THEN "429"
                   ELSE IF lastUpstream THEN "relay" ELSE "502")
  /\ UNCHANGED <<request, attempt, proxy, ownProxy, rateLimited, deadline,
                 lastUpstream, calls, why>>

\* Mutant: a remembered 5xx is relayed without releasing the proxy.
ModelsEndKeeps ==
  /\ pc = "end"
  /\ endpoint = "models"
  /\ \/ lastUpstream /\ Respond("relay")
     \/ ~lastUpstream /\ Respond("502")
  /\ UNCHANGED <<request, attempt, proxy, ownProxy, rateLimited, deadline,
                 lastUpstream, mark, calls, why>>

\* handleModels after the loop: a remembered 5xx comes before a rate limit.
ModelsEnd ==
  /\ pc = "end"
  /\ endpoint = "models"
  /\ \/ /\ lastUpstream \/ ~rateLimited
        /\ mark' = Released(mark, proxy)
        /\ Respond(IF lastUpstream THEN "relay" ELSE "502")
     \/ /\ ~lastUpstream /\ rateLimited
        /\ Respond("429")
        /\ UNCHANGED mark
  /\ UNCHANGED <<request, attempt, proxy, ownProxy, rateLimited, deadline,
                 lastUpstream, calls, why>>

\* handleModelRetrieve: one call; every failure of it is answered as a rate
\* limit, and only a rate limit marks the proxy.
Retrieve ==
  /\ Turns
  /\ endpoint = "retrieve"
  /\ calls' = calls + 1
  /\ \/ /\ why' = "ratelimit"
        /\ mark' = Released([mark EXCEPT ![proxy] = "cooldown"], proxy)
        /\ Respond("429")
     \/ /\ why' = "transport"
        /\ mark' = Released(mark, proxy)
        /\ Respond("429")
     \/ /\ why' = "ok"
        /\ mark' = Released(mark, proxy)
        /\ Respond("200") \/ Respond("4xx") \/ Respond("502")
  /\ UNCHANGED <<request, attempt, proxy, ownProxy, rateLimited, deadline,
                 lastUpstream>>

Next ==
  \/ Acquire \/ FreshFound \/ FreshFails \/ FreshTooLate
  \/ CallWithoutProxy \/ CallBlocks \/ CallRateLimited \/ CallFails \/ CallServerError
  \/ CallAnswers \/ LoopEnds \/ ChatEnd \/ ModelsEnd \/ Retrieve

Spec == Init /\ [][Next]_vars

-----------------------------------------------------------------------------
(***************************************************************************)
(* Properties                                                              *)
(***************************************************************************)

\* Every variable keeps its type; a request that ended well has an answer.
TypeOK ==
  /\ endpoint \in Endpoints
  /\ public \in BOOLEAN
  /\ pc \in {"start", "loop", "end", "done", "crashed", "blocked"}
  /\ attempt \in 0 .. MaxRetries + 1
  /\ proxy \in Proxies \cup {None}
  /\ ownProxy \in Proxies \cup {None}
  /\ rateLimited \in BOOLEAN
  /\ deadline \in BOOLEAN
  /\ lastUpstream \in BOOLEAN
  /\ mark \in [Proxies -> {"idle", "active", "cooldown", "unhealthy"}]
  /\ answer \in Answers
  /\ calls \in Nat
  /\ why \in Reasons

\* However a request ends, by an answer on any of its error paths or by a
\* crash, no proxy is left active on its behalf.
NoLeak == pc \in {"done", "crashed"} => Busy = {}

\* A request never keeps two proxies busy, not even while it replaces one.
OneAtATime == \A p, q \in Busy : p = q

\* The provider sees at most one call and MaxRetries retries of a request.
CallBound == calls <= MaxRetries + 1

\* The nil proxy that a handler dereferences comes from a replacement or a wait
\* for a fresh proxy that found none: a request that met only rate limits with
\* a fresh proxy each, 5xx and answers never crashes.
CrashExplained ==
  pc = "crashed" => why = "transport" \/ (why = "nofresh" /\ endpoint = "chat")

\* "nothing available; remaining attempts will fail fast"
FailsFast == pc # "crashed"

\* "Never masquerade exhaustion as a gateway bug": a request that found no
\* fresh proxy after a rate limit is told 429.
HonestExhaustion == pc = "done" /\ why = "nofresh" => answer = "429"

\* "If one appears: the request is retried there": the fresh proxy a throttled
\* request waited for is tried before the request fails.
FreshIsTried == pc = "done" => why # "fresh"

\* "if the last failure was an upstream 5xx, relay the provider's own error":
\* what is relayed is the last failure.
RelaysTheLast == answer = "relay" => why = "5xx"
=============================================================================
