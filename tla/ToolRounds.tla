----------------------------- MODULE ToolRounds -----------------------------
(***************************************************************************)
(* What one chat request does with the provider's answer: the relay of a   *)
(* stream (handleStreamResponse), of a whole answer (handleNormalResponse),*)
(* and the rounds of web searches around both (streamWithToolRounds,       *)
(* completeWithToolRounds, doRound).                                       *)
(*                                                                         *)
(* A turn is one answer of the provider.  A streamed turn comes line by    *)
(* line: a data line is followed by the empty line that ends its event.    *)
(* Chunks that carry tool calls are withheld until the turn says whose     *)
(* calls they are; if all are the gateway's web_search, the gateway runs   *)
(* them and asks the provider again.                                       *)
(*                                                                         *)
(* The handler runs alone.  Its environment is the provider (which chunks  *)
(* come, when the connection ends and how), the client that may hang up,   *)
(* and the pool.  appendToolResults cannot fail: the body was parsed when  *)
(* the request was accepted.  The log's ResponseWriter is a Flusher.       *)
(***************************************************************************)
EXTENDS Naturals, Sequences, SequencesExt

CONSTANTS MaxRounds,   \* cfg.WebSearchMaxRounds
          MaxLines,    \* bound: data lines of one turn
          Chunks       \* the chunks the provider may send, each the set of its parts

ASSUME BoundsAssumption == MaxRounds \in Nat /\ MaxLines \in Nat

\* What a chunk may carry, alone or together: text, a fragment that names
\* web_search (call 0), one that goes on without a name (call 0), one of a tool
\* of the client (call 1), finish_reason tool_calls, and the usage.
Parts == {"text", "search", "more", "client", "finish", "usage"}

ASSUME ChunksAssumption == Chunks \subseteq SUBSET Parts

VARIABLES
  stream,          \* the client asked for a stream, and the first answer is 2xx
  includeUsage,    \* and for its usage
  svc,             \* wsFor gave a search service: turns are intercepted
  pc,              \* where the handler is
  round,           \* the loop variable of the round loops
  tries,           \* fresh proxies doRound has tried in this round
  calls,           \* history: calls of the provider so far
  gone,            \* the client has hung up: writes fail
  conn,            \* the connection of this turn: open, at its end, broken
  heard,           \* history: the lines of this turn
  sent,            \* the lines of this turn that reached the client
  buffered,        \* withheld lines
  accs,            \* the name of the call assembled at each index
  finishToolCalls, \* a chunk with finish_reason tool_calls was withheld
  usage,           \* tokens this turn reported, the last chunk wins
  sawUsageChunk,
  totalUsage,      \* tokens of all turns
  reported,        \* history: tokens the provider has reported
  outcome          \* history: how the request ended

relay == <<conn, heard, sent, buffered, accs, finishToolCalls, usage, sawUsageChunk>>
input == <<stream, includeUsage, svc>>
loop == <<input, round, tries, calls, gone>>
vars == <<input, pc, round, tries, calls, gone, relay, totalUsage, reported, outcome>>

\* A line is a chunk, [DONE], an empty line, or the error event of
\* writeSSEErrorEvent.
Kinds == (SUBSET Parts) \cup {{"done"}, {"blank"}, {"error"}}

\* A line is known by its place in the turn.
Line == [kind : Kinds, at : Nat]

\* A data line of the provider.
IsData(l) == "blank" \notin l.kind /\ l.at > 0

Data(lines) == SelectSeq(lines, IsData)

ErrorEvent == [kind |-> {"error"}, at |-> 0]

-----------------------------------------------------------------------------
(* The chunk parser of handleStreamResponse.                               *)

HasToolDelta(k) == "search" \in k \/ "more" \in k \/ "client" \in k

\* A fragment opens the call of its index, and a name replaces the former one.
Assembled(k) ==
  [accs EXCEPT ![0] = IF "search" \in k THEN "web_search"
                      ELSE IF "more" \in k /\ @ = "absent" THEN "" ELSE @,
               ![1] = IF "client" \in k THEN "other" ELSE @]

\* What is taken from every chunk, whatever becomes of it.
Parses(k) ==
  /\ accs' = Assembled(k)
  /\ usage' = IF "usage" \in k THEN 1 ELSE usage
  /\ sawUsageChunk' = (sawUsageChunk \/ "usage" \in k)
  /\ reported' = reported + usage' - usage

\* A chunk that is not to be relayed before the end of the turn.
ToolChunk(k) == HasToolDelta(k) \/ "finish" \in k

\* Mutant: one web_search call is enough.
AnyWebSearch(a) == \E i \in 0 .. 1 : a[i] = "web_search"

\* assembleToolCalls leaves out a call that never got a name; allWebSearch is
\* false of no calls.
AllWebSearch(a) ==
  /\ \E i \in 0 .. 1 : a[i] = "web_search"
  /\ \A i \in 0 .. 1 : a[i] \in {"absent", "", "web_search"}

\* At [DONE]: run the calls of this turn instead of relaying it?
Intercepted == svc /\ finishToolCalls /\ AllWebSearch(accs)

-----------------------------------------------------------------------------

NewTurn ==
  /\ conn' = "open"
  /\ heard' = <<>>
  /\ sent' = <<>>
  /\ buffered' = <<>>
  /\ accs' = [i \in 0 .. 1 |-> "absent"]
  /\ finishToolCalls' = FALSE
  /\ usage' = 0
  /\ sawUsageChunk' = FALSE

Init ==
  /\ stream \in BOOLEAN
  /\ includeUsage \in BOOLEAN /\ (includeUsage => stream)
  /\ svc \in BOOLEAN
  /\ pc = IF stream THEN "read" ELSE "body"
  /\ round = 0
  /\ tries = 0
  /\ calls = 1
  /\ gone = FALSE
  /\ conn = "open"
  /\ heard = <<>>
  /\ sent = <<>>
  /\ buffered = <<>>
  /\ accs = [i \in 0 .. 1 |-> "absent"]
  /\ finishToolCalls = FALSE
  /\ usage = 0
  /\ sawUsageChunk = FALSE
  /\ totalUsage = 0
  /\ reported = 0
  /\ outcome = "none"

Finish(how) == pc' = "done" /\ outcome' = how

\* Mutant: the tokens of the last turn stand for all.
BilledLast(u) == u

Billed(u) == totalUsage + u

LastRound == round >= MaxRounds

\* Mutant: what is withheld is forgotten.
FlushNothing == <<>>

FlushBuffered == buffered

\* Mutant: a broken connection is not reported.
ReportNothing(e) == <<>>

Report(e) == IF e = "broken" THEN <<ErrorEvent>> ELSE <<>>

\* What a write adds for the client; a write to a client that is gone is lost.
Write(lines) == IF gone THEN sent ELSE sent \o lines

Hangup ==
  /\ pc # "done"
  /\ ~gone
  /\ gone' = TRUE
  /\ UNCHANGED <<input, pc, round, tries, calls, relay, totalUsage, reported, outcome>>

-----------------------------------------------------------------------------
(* handleStreamResponse, one line at a time.                               *)

\* The next line the provider may send: an empty line ends every event.
Follows(k) ==
  IF heard # <<>> /\ IsData(Last(heard)) THEN k = {"blank"}
  ELSE k \in Chunks \cup {{"done"}} /\ Len(Data(heard)) < MaxLines

\* ReadString returns a line of kind k; e tells whether the connection ended
\* or broke within it.
Reads(k, e) ==
  /\ pc = "read"
  /\ conn = "open"
  /\ Follows(k)
  /\ conn' = e
  /\ heard' = Append(heard, [kind |-> k, at |-> Len(heard) + 1])

\* The turn is over for streamWithToolRounds: it returns.
Return(how) ==
  /\ Finish(how)
  /\ totalUsage' = Billed(usage)

\* A line that is not "data: ": relayed at once, whatever is withheld.
Blank ==
  /\ Reads({"blank"}, "open")
  /\ sent' = Write(<<Last(heard')>>)
  /\ IF gone THEN Return("gone") ELSE UNCHANGED <<pc, outcome, totalUsage>>
  /\ UNCHANGED <<loop, buffered, accs, finishToolCalls, usage,
                 sawUsageChunk, reported>>

\* A chunk of a tool call while turns are intercepted: it is withheld as a
\* whole, its text and usage with it, but the usage has been noted.
Withhold(k, e) ==
  /\ svc
  /\ ToolChunk(k)
  /\ Reads(k, e)
  /\ Parses(k)
  /\ finishToolCalls' = (finishToolCalls \/ "finish" \in k)
  /\ buffered' = Append(buffered, Last(heard'))
  /\ UNCHANGED <<input, pc, round, tries, calls, gone, sent, totalUsage, outcome>>

\* Any other chunk: what was withheld goes out first.
Relay(k, e) ==
  /\ ~(svc /\ ToolChunk(k))
  /\ Reads(k, e)
  /\ Parses(k)
  /\ sent' = Write(FlushBuffered \o <<Last(heard')>>)
  /\ buffered' = <<>>
  /\ IF gone THEN /\ Finish("gone")
                  /\ totalUsage' = Billed(usage')
             ELSE UNCHANGED <<pc, outcome, totalUsage>>
  /\ UNCHANGED <<loop, finishToolCalls>>

\* The usage chunk the gateway adds before [DONE].
Synthesized ==
  IF includeUsage /\ ~sawUsageChunk /\ usage > 0
  THEN <<[kind |-> {"usage"}, at |-> 0]>> ELSE <<>>

\* [DONE] of a turn that is relayed.  The loop goes on reading.
Done(e) ==
  /\ ~Intercepted
  /\ Reads({"done"}, e)
  /\ sent' = Write(FlushBuffered \o Synthesized \o <<Last(heard')>>)
  /\ buffered' = <<>>
  /\ IF gone THEN Return("gone") ELSE UNCHANGED <<pc, outcome, totalUsage>>
  /\ UNCHANGED <<loop, accs, finishToolCalls, usage,
                 sawUsageChunk, reported>>

\* [DONE] of a turn whose calls the gateway runs: the function returns them.
\* In the last round they are neither run nor relayed.
Intercept(e) ==
  /\ Intercepted
  /\ Reads({"done"}, e)
  /\ buffered' = <<>>
  /\ totalUsage' = Billed(usage)
  /\ IF LastRound THEN Finish("capped") ELSE pc' = "exec" /\ UNCHANGED outcome
  /\ UNCHANGED <<loop, sent, accs, finishToolCalls, usage,
                 sawUsageChunk, reported>>

\* ReadString returns no line: the loop ends, what was withheld goes out, and
\* a broken connection is reported.
End(e) ==
  /\ pc = "read"
  /\ \/ conn = "open" /\ e \in {"eof", "broken"}
     \/ conn # "open" /\ e = conn
  /\ conn' = e
  /\ sent' = Write(FlushBuffered \o Report(e))
  /\ buffered' = <<>>
  /\ Return("ended")
  /\ UNCHANGED <<loop, heard, accs, finishToolCalls, usage,
                 sawUsageChunk, reported>>

-----------------------------------------------------------------------------
(* The rounds.                                                             *)

\* execWebSearchTools and appendToolResults: a search that fails gives its
\* error as its result, so the round goes on in any case.
Exec ==
  /\ pc = "exec"
  /\ pc' = "dial"
  /\ round' = round + 1
  /\ tries' = 0
  /\ NewTurn
  /\ UNCHANGED <<input, calls, gone, totalUsage, reported, outcome>>

\* doRound: a call on the proxy of the request, or on a fresh one.
RoundAnswers ==
  /\ pc = "dial"
  /\ calls' = calls + 1
  /\ pc' = IF stream THEN "read" ELSE "body"
  /\ UNCHANGED <<input, round, tries, gone, relay, totalUsage, reported, outcome>>

\* The provider answers a round of a stream with a status that is not 2xx.
RoundRefused ==
  /\ pc = "dial"
  /\ stream
  /\ calls' = calls + 1
  /\ sent' = Write(<<ErrorEvent>>)
  /\ Finish("failed")
  /\ UNCHANGED <<input, round, tries, gone, conn, heard, buffered, accs, finishToolCalls,
                 usage, sawUsageChunk, totalUsage, reported>>

\* A transport failure or a rate limit: up to two fresh proxies are tried.
RoundFails ==
  /\ pc = "dial"
  /\ calls' = calls + 1
  /\ pc' = "fresh"
  /\ UNCHANGED <<input, round, tries, gone, relay, totalUsage, reported, outcome>>

\* Mutant: fresh proxies are tried without end.
FreshFoundAgain ==
  /\ pc = "fresh"
  /\ pc' = "dial"
  /\ UNCHANGED <<input, round, tries, calls, gone, relay, totalUsage, reported, outcome>>

FreshFound ==
  /\ pc = "fresh"
  /\ tries < 2
  /\ tries' = tries + 1
  /\ pc' = "dial"
  /\ UNCHANGED <<input, round, calls, gone, relay, totalUsage, reported, outcome>>

\* No fresh proxy in time, or two were tried.
FreshFails ==
  /\ pc = "fresh"
  /\ sent' = Write(<<ErrorEvent>>)
  /\ Finish("failed")
  /\ UNCHANGED <<loop, conn, heard, buffered, accs, finishToolCalls, usage,
                 sawUsageChunk, totalUsage, reported>>

-----------------------------------------------------------------------------
(* completeWithToolRounds: a whole answer.                                 *)

\* The answer cannot be read to its end.
BodyBreaks ==
  /\ pc = "body"
  /\ sent' = Write(<<ErrorEvent>>)
  /\ Finish("failed")
  /\ UNCHANGED <<loop, conn, heard, buffered, accs,
                 finishToolCalls, usage, sawUsageChunk, totalUsage, reported>>

\* An answer: its calls, its tokens, its status.  Only later rounds can have
\* a status that is not 2xx, and handleNormalResponse relays it for round 0.
Body(k, u, ok) ==
  /\ pc = "body"
  /\ LET line == [kind |-> {k}, at |-> 1]
         run == svc /\ k = "search" /\ ~LastRound /\ ok
     IN  /\ heard' = <<line>>
         /\ usage' = u
         /\ totalUsage' = Billed(u)
         /\ reported' = reported + u
         /\ IF run THEN pc' = "exec" /\ UNCHANGED <<sent, outcome>>
                   ELSE sent' = Write(<<line>>) /\ Finish("ended")
  /\ UNCHANGED <<loop, conn, buffered, accs, finishToolCalls,
                 sawUsageChunk>>

Ended == pc = "done" /\ UNCHANGED vars

Next ==
  \/ Hangup
  \/ Blank
  \/ \E e \in {"open", "eof", "broken"} :
       \/ Done(e) \/ Intercept(e)
       \/ \E k \in Chunks : Withhold(k, e) \/ Relay(k, e)
  \/ \E e \in {"eof", "broken"} : End(e)
  \/ Exec \/ RoundAnswers \/ RoundRefused \/ RoundFails \/ FreshFound \/ FreshFails
  \/ BodyBreaks
  \/ \E k \in {"text", "search", "client"}, u \in 0 .. 1, ok \in BOOLEAN : Body(k, u, ok)
  \/ Ended

Spec == Init /\ [][Next]_vars

-----------------------------------------------------------------------------
(* Properties                                                              *)

TypeOK ==
  /\ stream \in BOOLEAN /\ includeUsage \in BOOLEAN /\ svc \in BOOLEAN
  /\ pc \in {"read", "body", "exec", "dial", "fresh", "done"}
  /\ round \in 0 .. MaxRounds
  /\ tries \in 0 .. 2
  /\ calls \in Nat
  /\ gone \in BOOLEAN
  /\ conn \in {"open", "eof", "broken"}
  /\ heard \in Seq(Line) /\ sent \in Seq(Line) /\ buffered \in Seq(Line)
  /\ accs \in [0 .. 1 -> {"absent", "", "web_search", "other"}]
  /\ finishToolCalls \in BOOLEAN /\ sawUsageChunk \in BOOLEAN
  /\ usage \in 0 .. 1
  /\ totalUsage \in Nat /\ reported \in Nat
  /\ outcome \in {"none", "gone", "ended", "capped", "failed"}

\* The data lines of s are those of t, in the order in which they came.
SameData(s, t) ==
  /\ {l \in ToSet(s) : IsData(l)} = {l \in ToSet(t) : IsData(l)}
  /\ \A m, n \in DOMAIN s : m < n /\ IsData(s[m]) /\ IsData(s[n]) => s[m].at < s[n].at

\* Withholding neither loses, repeats nor reorders a chunk: at any time the
\* client has the data lines of the turn but for the withheld ones, and all of
\* them when the turn has been relayed, whatever broke off.
Transcript ==
  stream /\ ~gone =>
    /\ pc = "read" => SameData(sent \o buffered, heard)
    /\ outcome = "ended" => SameData(sent, heard)

\* A chunk that the gateway keeps from the client, in a turn it intercepts,
\* carries a fragment of its own searches or their finish_reason: a chunk of
\* text or usage alone is with the client, and no call of the client's tools is
\* in the turn.  Text or usage in a chunk that is kept is kept with it.
OnlySearchesKept ==
  stream /\ ~gone /\ (pc = "exec" \/ outcome = "capped") =>
    /\ \E n \in DOMAIN heard : "search" \in heard[n].kind
    /\ \A n \in DOMAIN heard :
         /\ "client" \notin heard[n].kind
         /\ \/ heard[n].kind \cap {"search", "more", "finish", "done"} # {}
            \/ heard[n] \in ToSet(sent)

\* A client that stays gets an end: [DONE], an error event or one whole answer.
\* The exceptions: the provider closed its stream without [DONE], or asked for
\* a search in the last round.
Answered ==
  pc = "done" /\ ~gone =>
    \/ \E n \in DOMAIN sent : sent[n].kind \in {{"done"}, {"error"}}
    \/ ~stream /\ Len(sent) = 1
    \/ stream /\ (conn = "eof" \/ outcome = "capped")

\* One request costs at most three calls of the provider per round of searches.
CallBound == calls <= 1 + 3 * MaxRounds

\* The prompt, completion and total tokens recorded for the request are those of
\* all its turns, also when a turn breaks off or the client leaves.
UsageBilled ==
  reported = totalUsage + (IF pc = "read" THEN usage ELSE 0)

\* "any other shape is flushed to the client verbatim" (handleStreamResponse):
\* it is not, the empty lines between withheld chunks overtake them, so that
\* the client reads the chunks as one event.
Verbatim ==
  stream /\ ~gone /\ outcome = "ended" /\ conn = "eof" => sent = heard

\* "intercepted tool-call chunks never reach it" (streamWithToolRounds): they
\* do when another chunk, such as the usage, comes before [DONE].
InterceptedHidden ==
  stream /\ pc = "exec" =>
    \A n \in DOMAIN sent : sent[n].kind \cap {"search", "more", "finish"} = {}

\* "so the client sees a faithful transcript of mixed turns"
\* (handleStreamResponse): it does not see the text of a chunk that carries a
\* search as well.
TextRelayed ==
  stream /\ ~gone /\ pc = "exec" =>
    \A n \in DOMAIN heard : "text" \in heard[n].kind => heard[n] \in ToSet(sent)
=============================================================================
