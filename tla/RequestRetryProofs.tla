------------------------- MODULE RequestRetryProofs -------------------------
(***************************************************************************)
(* Proofs about one request, for any number of retries and proxies.        *)
(***************************************************************************)
EXTENDS RequestRetry, TLAPS

\* The request's proxy is the only one that can be busy for it, and none is
\* once it was marked, was not replaced, or the request is over.  A request is
\* throttled only after a call.
HeldOK ==
  /\ Busy \subseteq {Mine}
  /\ pc \in {"start", "done", "crashed"} \/ rateLimited \/ proxy = None =>
       Busy = {}
  /\ endpoint = "chat" /\ pc = "loop" /\ proxy # None => ownProxy = proxy
  /\ rateLimited => attempt > 0 /\ pc # "start"

\* Every call takes a turn of the loop; the last one may end it.
CallsOK ==
  \/ calls <= attempt
  \/ pc = "done" /\ attempt <= MaxRetries /\ calls <= attempt + 1

Inv == TypeOK /\ HeldOK /\ CallsOK

LEMMA InitInv == Init => Inv
  <1>1. SUFFICES ASSUME Init PROVE Inv
    OBVIOUS
  <1>2. TypeOK
    <2>1. public \in BOOLEAN /\ rateLimited \in BOOLEAN /\ deadline \in BOOLEAN
          /\ lastUpstream \in BOOLEAN
      BY <1>1, Zenon DEF Init
    <2>. QED BY <1>1, <2>1, RetryAssumption DEF Init, TypeOK, Answers, Reasons
  <1>3. HeldOK /\ CallsOK
    BY <1>1 DEF Init, HeldOK, CallsOK, Busy
  <1>. QED BY <1>2, <1>3 DEF Inv

LEMMA NextType ==
  ASSUME Inv, Next
  PROVE  TypeOK'
  <1>. USE RetryAssumption
       DEF Inv, TypeOK, request, Answers, Reasons, Respond, Crash, Turns, Calls,
           Released
  <1>1. CASE Acquire BY <1>1 DEF Acquire, Obtainable
  <1>2. CASE FreshFound
    <2>1. deadline' \in BOOLEAN /\ rateLimited' \in BOOLEAN
      BY <1>2, Zenon DEF FreshFound
    <2>2. /\ mark' \in [Proxies -> {"idle", "active", "cooldown", "unhealthy"}]
          /\ proxy' \in Proxies /\ ownProxy' \in Proxies
      BY <1>2 DEF FreshFound, Obtainable
    <2>3. attempt' \in 0 .. MaxRetries + 1
      BY <1>2 DEF FreshFound
    <2>. QED BY <1>2, <2>1, <2>2, <2>3 DEF FreshFound
  <1>3. CASE FreshFails BY <1>3 DEF FreshFails
  <1>4. CASE FreshTooLate BY <1>4 DEF FreshTooLate
  <1>5. CASE CallWithoutProxy BY <1>5 DEF CallWithoutProxy
  <1>6. CASE CallRateLimited
    <2>1. rateLimited' \in BOOLEAN
      BY <1>6, Zenon DEF CallRateLimited
    <2>2. /\ mark' \in [Proxies -> {"idle", "active", "cooldown", "unhealthy"}]
          /\ proxy' \in Proxies \cup {None}
      BY <1>6 DEF CallRateLimited
    <2>3. attempt' \in 0 .. MaxRetries + 1 /\ calls' \in Nat
      BY <1>6 DEF CallRateLimited
    <2>. QED BY <1>6, <2>1, <2>2, <2>3 DEF CallRateLimited
  <1>7. CASE CallFails BY <1>7 DEF CallFails, Obtainable
  <1>8. CASE CallServerError
    <2>1. lastUpstream' \in BOOLEAN
      BY <1>8, Zenon DEF CallServerError
    <2>2. mark' \in [Proxies -> {"idle", "active", "cooldown", "unhealthy"}]
      BY <1>8 DEF CallServerError
    <2>3. attempt' \in 0 .. MaxRetries + 1 /\ calls' \in Nat
      BY <1>8 DEF CallServerError
    <2>. QED BY <1>8, <2>1, <2>2, <2>3 DEF CallServerError
  <1>9. CASE CallAnswers BY <1>9 DEF CallAnswers
  <1>10. CASE LoopEnds BY <1>10 DEF LoopEnds
  <1>11. CASE ChatEnd BY <1>11 DEF ChatEnd
  <1>12. CASE ModelsEnd BY <1>12 DEF ModelsEnd
  <1>13. CASE Retrieve BY <1>13 DEF Retrieve
  <1>14. CASE CallBlocks BY <1>14 DEF CallBlocks
  <1>. QED
    BY <1>1, <1>2, <1>3, <1>4, <1>5, <1>6, <1>7, <1>8, <1>9, <1>10, <1>11,
       <1>12, <1>13, <1>14 DEF Next

LEMMA NextHeld ==
  ASSUME Inv, Next
  PROVE  HeldOK'
  <1>. USE RetryAssumption
       DEF Inv, TypeOK, HeldOK, Busy, Mine, request, Respond, Crash, Turns,
           Calls, Released
  <1>1. CASE Acquire
    <2>0. Busy = {}
      BY <1>1 DEF Acquire
    <2>1. CASE \E p \in Obtainable : /\ mark' = [mark EXCEPT ![p] = "active"]
                                    /\ proxy' = p /\ ownProxy' = p
                                    /\ pc' = "loop"
      <3>1. PICK p \in Proxies : /\ mark' = [mark EXCEPT ![p] = "active"]
                                 /\ proxy' = p /\ ownProxy' = p
                                 /\ pc' = "loop"
        BY <2>1 DEF Obtainable
      <3>2. Busy' \subseteq {p} /\ Mine' = p /\ proxy' # None
        BY <2>0, <3>1
      <3>3. ~rateLimited'
        BY <1>1 DEF Acquire
      <3>. QED BY <3>1, <3>2, <3>3
    <2>2. CASE pc' = "done" /\ UNCHANGED <<mark, proxy, ownProxy>>
      BY <1>1, <2>0, <2>2 DEF Acquire
    <2>. QED BY <1>1, <2>1, <2>2 DEF Acquire
  <1>2. CASE FreshFound BY <1>2 DEF FreshFound, Obtainable, Throttled
  <1>3. CASE FreshFails BY <1>3 DEF FreshFails, Throttled
  <1>4. CASE FreshTooLate BY <1>4 DEF FreshTooLate, Throttled
  <1>5. CASE CallWithoutProxy BY <1>5 DEF CallWithoutProxy
  <1>6. CASE CallRateLimited BY <1>6 DEF CallRateLimited
  <1>7. CASE CallFails
    <2>0. ~rateLimited' /\ (rateLimited' => attempt' > 0)
      BY <1>7 DEF CallFails, Throttled
    <2>1. /\ proxy \in Proxies /\ Busy \subseteq {proxy} /\ Mine = proxy
          /\ ~rateLimited' /\ pc' = "loop" /\ endpoint' = endpoint
      BY <1>7, <2>0 DEF CallFails
    <2>2. CASE \E p \in Obtainable \cup {proxy} :
                 /\ mark' = Released([[mark EXCEPT ![proxy] = "unhealthy"]
                                       EXCEPT ![p] = "active"], Mine)
                 /\ proxy' = p
                 /\ ownProxy' = p
      <3>1. PICK p \in Proxies :
                 /\ mark' = Released([[mark EXCEPT ![proxy] = "unhealthy"]
                                       EXCEPT ![p] = "active"], Mine)
                 /\ proxy' = p
                 /\ ownProxy' = p
        BY <2>1, <2>2 DEF Obtainable
      <3>2. Busy' \subseteq {p} /\ Mine' = p /\ proxy' # None
        BY <2>1, <3>1
      <3>. QED BY <2>1, <3>1, <3>2
    <2>3. CASE /\ mark' = [mark EXCEPT ![proxy] = "unhealthy"]
               /\ proxy' = None
      <3>1. Busy' = {}
        BY <2>1, <2>3
      <3>. QED BY <2>1, <2>3, <3>1
    <2>. QED BY <1>7, <2>2, <2>3 DEF CallFails
  <1>8. CASE CallServerError BY <1>8 DEF CallServerError
  <1>9. CASE CallAnswers BY <1>9 DEF CallAnswers
  <1>10. CASE LoopEnds BY <1>10 DEF LoopEnds
  <1>11. CASE ChatEnd BY <1>11 DEF ChatEnd
  <1>12. CASE ModelsEnd BY <1>12 DEF ModelsEnd
  <1>13. CASE Retrieve BY <1>13 DEF Retrieve
  <1>14. CASE CallBlocks BY <1>14 DEF CallBlocks
  <1>. QED
    BY <1>1, <1>2, <1>3, <1>4, <1>5, <1>6, <1>7, <1>8, <1>9, <1>10, <1>11,
       <1>12, <1>13, <1>14 DEF Next

LEMMA NextCalls ==
  ASSUME Inv, Next
  PROVE  CallsOK'
  <1>. USE RetryAssumption
       DEF Inv, TypeOK, CallsOK, request, Respond, Crash, Turns, Calls
  <1>1. CASE Acquire BY <1>1 DEF Acquire
  <1>2. CASE FreshFound BY <1>2 DEF FreshFound
  <1>3. CASE FreshFails BY <1>3 DEF FreshFails
  <1>4. CASE FreshTooLate BY <1>4 DEF FreshTooLate
  <1>5. CASE CallWithoutProxy BY <1>5 DEF CallWithoutProxy
  <1>6. CASE CallRateLimited BY <1>6 DEF CallRateLimited
  <1>7. CASE CallFails BY <1>7 DEF CallFails
  <1>8. CASE CallServerError BY <1>8 DEF CallServerError
  <1>9. CASE CallAnswers BY <1>9 DEF CallAnswers
  <1>10. CASE LoopEnds BY <1>10 DEF LoopEnds
  <1>11. CASE ChatEnd BY <1>11 DEF ChatEnd
  <1>12. CASE ModelsEnd BY <1>12 DEF ModelsEnd
  <1>13. CASE Retrieve BY <1>13 DEF Retrieve
  <1>14. CASE CallBlocks BY <1>14 DEF CallBlocks
  <1>. QED
    BY <1>1, <1>2, <1>3, <1>4, <1>5, <1>6, <1>7, <1>8, <1>9, <1>10, <1>11,
       <1>12, <1>13, <1>14 DEF Next

\* A handler in its loop is without a proxy only when it is about to wait for
\* one or could not replace one; the one chat releases at the end is missing
\* only after a wait that failed.
NilOK ==
  /\ pc = "loop" /\ proxy = None /\ ~rateLimited => why = "transport"
  /\ pc = "loop" => ownProxy # None
  /\ pc = "end" /\ endpoint = "chat" /\ ownProxy = None => why = "nofresh"
  /\ CrashExplained

LEMMA NextNil ==
  ASSUME Inv, NilOK, Next
  PROVE  NilOK'
  <1>. USE RetryAssumption
       DEF NilOK, CrashExplained, request, Respond, Crash, Turns, Throttled
  <1>0. /\ attempt \in Nat /\ (rateLimited => attempt > 0)
        /\ proxy \in Proxies \cup {None}
    BY DEF Inv, TypeOK, HeldOK
  <1>1. CASE Acquire BY <1>1 DEF Acquire, Obtainable
  <1>2. CASE FreshFound BY <1>2 DEF FreshFound, Obtainable
  <1>3. CASE FreshFails BY <1>3 DEF FreshFails
  <1>4. CASE FreshTooLate BY <1>4 DEF FreshTooLate
  <1>5. CASE CallWithoutProxy BY <1>0, <1>5 DEF CallWithoutProxy
  <1>6. CASE CallRateLimited BY <1>6 DEF CallRateLimited, Calls
  <1>7. CASE CallFails BY <1>0, <1>7 DEF CallFails, Calls, Obtainable
  <1>8. CASE CallServerError BY <1>8 DEF CallServerError, Calls
  <1>9. CASE CallAnswers BY <1>9 DEF CallAnswers, Calls
  <1>10. CASE LoopEnds BY <1>10 DEF LoopEnds
  <1>11. CASE ChatEnd BY <1>11 DEF ChatEnd
  <1>12. CASE ModelsEnd BY <1>12 DEF ModelsEnd
  <1>13. CASE Retrieve BY <1>13 DEF Retrieve
  <1>14. CASE CallBlocks BY <1>14 DEF CallBlocks
  <1>. QED
    BY <1>1, <1>2, <1>3, <1>4, <1>5, <1>6, <1>7, <1>8, <1>9, <1>10, <1>11,
       <1>12, <1>13, <1>14 DEF Next

\* The inductive invariant of the retry loop.
THEOREM Invariant == Spec => []Inv
  <1>1. Inv /\ UNCHANGED vars => Inv'
    BY DEF Inv, TypeOK, HeldOK, CallsOK, Busy, Mine, vars
  <1>2. Inv /\ [Next]_vars => Inv'
    BY <1>1, NextType, NextHeld, NextCalls DEF Inv
  <1>. QED BY InitInv, <1>2, PTL DEF Spec

\* On every path through the handlers, the crashes included, no proxy is left
\* active on behalf of a request that is over.
THEOREM NoLeakHolds == Spec => []NoLeak
  <1>1. Inv => NoLeak
    BY DEF Inv, HeldOK, NoLeak
  <1>. QED BY <1>1, Invariant, PTL

\* A request never keeps two proxies busy.
THEOREM OneAtATimeHolds == Spec => []OneAtATime
  <1>1. Inv => OneAtATime
    BY DEF Inv, HeldOK, OneAtATime
  <1>. QED BY <1>1, Invariant, PTL

\* The provider is called at most MaxRetries + 1 times for one request.
THEOREM CallBoundHolds == Spec => []CallBound
  <1>1. Inv => CallBound
    BY RetryAssumption DEF Inv, CallsOK, CallBound, TypeOK
  <1>. QED BY <1>1, Invariant, PTL

\* Every variable of a request keeps its type, the attempts their bound.
THEOREM TypeCorrect == Spec => []TypeOK
  <1>1. Inv => TypeOK
    BY DEF Inv
  <1>. QED BY <1>1, Invariant, PTL

\* A handler dereferences a nil proxy only after a replacement or a wait for a
\* fresh proxy that found none.
THEOREM CrashExplainedHolds == Spec => []CrashExplained
  <1>1. Init => NilOK
    BY DEF Init, NilOK, CrashExplained
  <1>2. Inv /\ NilOK /\ [Next]_vars => NilOK'
    <2>1. NilOK /\ UNCHANGED vars => NilOK'
      BY DEF NilOK, CrashExplained, vars
    <2>. QED BY <2>1, NextNil
  <1>3. NilOK => CrashExplained
    BY DEF NilOK
  <1>. QED BY <1>1, <1>2, <1>3, Invariant, PTL DEF Spec
=============================================================================
