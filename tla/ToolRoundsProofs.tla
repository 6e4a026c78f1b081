-------------------------- MODULE ToolRoundsProofs --------------------------
(***************************************************************************)
(* Proofs for ToolRounds: what reaches the client, what is kept from it,   *)
(* what the request costs and what is billed, for turns of any length and  *)
(* any number of rounds.                                                   *)
(***************************************************************************)
EXTENDS ToolRounds, TLAPS

-----------------------------------------------------------------------------
(* The invariant                                                           *)

\* Streams are read line by line, whole answers at once.
Route ==
  /\ pc = "read" => stream
  /\ pc = "body" => ~stream
  /\ pc # "done" => outcome = "none"

\* A turn that has not begun has left nothing behind.
Unheard ==
  pc \in {"dial", "fresh", "body"} =>
    /\ heard = <<>> /\ sent = <<>> /\ buffered = <<>>
    /\ accs = [i \in 0 .. 1 |-> "absent"]
    /\ ~finishToolCalls /\ usage = 0

\* Every call of the provider is one of the three that doRound may make.
Calls ==
  /\ pc \in {"dial", "fresh"} => round >= 1
  /\ pc = "dial" => calls <= 3 * round - 2 + tries
  /\ pc = "fresh" => calls <= 3 * round - 1 + tries
  /\ pc \notin {"dial", "fresh"} => calls <= 1 + 3 * round
  /\ pc = "exec" => round < MaxRounds

\* Lines are numbered as they come; what is written or withheld is of this turn.
Numbered ==
  /\ \A l \in ToSet(sent) \cup ToSet(buffered) : l.at <= Len(heard)
  /\ \A l \in ToSet(buffered) : ToolChunk(l.kind)

\* Every line of a turn that is being read is with the client or withheld.
Kept == pc = "read" /\ ~gone => ToSet(heard) \subseteq ToSet(sent) \cup ToSet(buffered)

\* What the assembled calls say of the lines.
Accumulated ==
  /\ accs[0] \in {"absent", "", "web_search"} /\ accs[1] \in {"absent", "other"}
  /\ pc = "read" /\ accs[0] = "web_search" => \E l \in ToSet(heard) : "search" \in l.kind
  /\ pc = "read" /\ accs[1] = "absent" => \A l \in ToSet(heard) : "client" \notin l.kind

DataOf(s) == {l \in ToSet(s) : IsData(l)}

Ordered(s) ==
  \A m, n \in DOMAIN s : m < n /\ IsData(s[m]) /\ IsData(s[n]) => s[m].at < s[n].at

Before(A, B) == \A a \in A, b \in B : a.at < b.at

\* What the client has and what is withheld, in this order, are the chunks of
\* the turn.
Relayed ==
  pc = "read" /\ ~gone =>
    /\ Ordered(sent) /\ Ordered(buffered) /\ Before(DataOf(sent), DataOf(buffered))
    /\ DataOf(heard) = DataOf(sent) \cup DataOf(buffered)

\* And when the turn has been relayed, the client has them all.
Complete ==
  stream /\ ~gone /\ outcome = "ended" => Ordered(sent) /\ DataOf(heard) = DataOf(sent)

-----------------------------------------------------------------------------
(* Lines                                                                   *)

\* What the provider sends are lines.
LEMMA KnownKinds ==
  /\ Chunks \subseteq Kinds
  /\ {"done"} \in Kinds /\ {"blank"} \in Kinds /\ {"error"} \in Kinds
<1>1. Chunks \subseteq Kinds
  BY ChunksAssumption, Zenon DEF Kinds
<1>2. {"done"} \in Kinds /\ {"blank"} \in Kinds /\ {"error"} \in Kinds
  BY Zenon DEF Kinds
<1> QED BY <1>1, <1>2

\* The line that ReadString returns is the last one heard.
LEMMA ReadsLine ==
  ASSUME TypeOK, NEW k \in Kinds, NEW e, Reads(k, e)
  PROVE  /\ heard' \in Seq(Line) /\ Len(heard') = Len(heard) + 1 /\ Len(heard) \in Nat
         /\ \A n \in DOMAIN heard : n \in DOMAIN heard' /\ heard'[n] = heard[n]
         /\ \A n \in DOMAIN heard' : n \in DOMAIN heard \/ heard'[n] = Last(heard')
         /\ Last(heard') \in Line /\ Last(heard') = heard'[Len(heard) + 1]
         /\ Last(heard').kind = k /\ Last(heard').at = Len(heard) + 1
<1> DEFINE l == [kind |-> k, at |-> Len(heard) + 1]
<1>1. heard \in Seq(Line) /\ heard' = Append(heard, l)
  BY DEF Reads, TypeOK
<1>2. l \in Line /\ l.kind = k /\ l.at = Len(heard) + 1
  BY <1>1 DEF Line
<1> HIDE DEF l
<1>3. /\ heard' \in Seq(Line) /\ Len(heard') = Len(heard) + 1 /\ Len(heard) \in Nat
      /\ heard'[Len(heard) + 1] = l
      /\ DOMAIN heard = 1 .. Len(heard) /\ DOMAIN heard' = 1 .. Len(heard) + 1
      /\ \A n \in 1 .. Len(heard) : heard'[n] = heard[n]
  BY <1>1, <1>2
<1>4. Last(heard') = l
  BY <1>3 DEF Last
<1>5. \A n \in DOMAIN heard' : n \in DOMAIN heard \/ n = Len(heard) + 1
  BY <1>3
<1> QED
  BY <1>2, <1>3, <1>4, <1>5

\* What is written are lines.
LEMMA WriteType ==
  ASSUME TypeOK, NEW lines \in Seq(Line)
  PROVE  Write(lines) \in Seq(Line)
<1>0. sent \in Seq(Line)
  BY DEF TypeOK
<1>1. sent \o lines \in Seq(Line)
  BY <1>0
<1> QED
  BY <1>0, <1>1 DEF Write

-----------------------------------------------------------------------------
(* Types                                                                   *)

\* TypeOK in four parts, as the provers need them.
Flags ==
  /\ stream \in BOOLEAN /\ includeUsage \in BOOLEAN /\ svc \in BOOLEAN /\ gone \in BOOLEAN
  /\ finishToolCalls \in BOOLEAN /\ sawUsageChunk \in BOOLEAN

Places ==
  /\ pc \in {"read", "body", "exec", "dial", "fresh", "done"}
  /\ conn \in {"open", "eof", "broken"}
  /\ outcome \in {"none", "gone", "ended", "capped", "failed"}
  /\ accs \in [0 .. 1 -> {"absent", "", "web_search", "other"}]

Numbers ==
  /\ round \in 0 .. MaxRounds /\ tries \in 0 .. 2 /\ calls \in Nat
  /\ usage \in 0 .. 1 /\ totalUsage \in Nat /\ reported \in Nat

Lines == heard \in Seq(Line) /\ sent \in Seq(Line) /\ buffered \in Seq(Line)

\* The parts are the whole.
LEMMA TypeParts == TypeOK <=> Flags /\ Places /\ Numbers /\ Lines
BY DEF TypeOK, Flags, Places, Numbers, Lines

\* The calls keep their type.
LEMMA AssembledType ==
  ASSUME NEW k, accs \in [0 .. 1 -> {"absent", "", "web_search", "other"}]
  PROVE  Assembled(k) \in [0 .. 1 -> {"absent", "", "web_search", "other"}]
BY DEF Assembled

\* Every step keeps the flags.
LEMMA FlagsStep == Flags /\ [Next]_vars => Flags'
<1> SUFFICES ASSUME Flags, [Next]_vars PROVE Flags'
  OBVIOUS
<1> USE DEF Flags, relay, input, loop
<1>1. ASSUME Hangup PROVE Flags'
  BY <1>1 DEF Hangup
<1>2. ASSUME Blank PROVE Flags'
  BY <1>2 DEF Blank, Reads, Return, Finish
<1>3. ASSUME NEW e \in {"open", "eof", "broken"}, Done(e) PROVE Flags'
  BY <1>3 DEF Done, Reads, Return, Finish
<1>4. ASSUME NEW e \in {"open", "eof", "broken"}, Intercept(e) PROVE Flags'
  BY <1>4 DEF Intercept, Reads, Finish
<1>5. ASSUME NEW e \in {"open", "eof", "broken"}, NEW k \in Chunks,
             Withhold(k, e)
      PROVE  Flags'
  BY <1>5 DEF Withhold, Parses, Reads
<1>6. ASSUME NEW e \in {"open", "eof", "broken"}, NEW k \in Chunks, Relay(k, e) PROVE Flags'
  BY <1>6 DEF Relay, Parses, Reads, Finish
<1>7. ASSUME NEW e \in {"eof", "broken"}, End(e) PROVE Flags'
  BY <1>7 DEF End, Return, Finish
<1>8. ASSUME Exec PROVE Flags'
  BY <1>8 DEF Exec, NewTurn
<1>9. ASSUME RoundAnswers PROVE Flags'
  BY <1>9 DEF RoundAnswers
<1>10. ASSUME RoundRefused PROVE Flags'
  BY <1>10 DEF RoundRefused, Finish
<1>11. ASSUME RoundFails PROVE Flags'
  BY <1>11 DEF RoundFails
<1>12. ASSUME FreshFound PROVE Flags'
  BY <1>12 DEF FreshFound
<1>13. ASSUME FreshFails PROVE Flags'
  BY <1>13 DEF FreshFails, Finish
<1>14. ASSUME BodyBreaks PROVE Flags'
  BY <1>14 DEF BodyBreaks, Finish
<1>15. ASSUME NEW k \in {"text", "search", "client"}, NEW u \in 0 .. 1, NEW ok \in BOOLEAN,
             Body(k, u, ok)
      PROVE  Flags'
  BY <1>15 DEF Body, Finish
<1>16. ASSUME Ended PROVE Flags'
  BY <1>16 DEF Ended, vars
<1>17. CASE UNCHANGED vars
  BY <1>17 DEF vars
<1> QED
  BY <1>1, <1>2, <1>3, <1>4, <1>5, <1>6, <1>7, <1>8, <1>9, <1>10, <1>11, <1>12, <1>13,
     <1>14, <1>15, <1>16, <1>17
  DEF Next

\* Every step keeps the places.
LEMMA PlacesStep == Places /\ [Next]_vars => Places'
<1> SUFFICES ASSUME Places, [Next]_vars PROVE Places'
  OBVIOUS
<1> USE DEF Places, relay, input, loop
<1>1. ASSUME Hangup PROVE Places'
  BY <1>1 DEF Hangup
<1>2. ASSUME Blank PROVE Places'
  BY <1>2 DEF Blank, Reads, Return, Finish
<1>3. ASSUME NEW e \in {"open", "eof", "broken"}, Done(e) PROVE Places'
  BY <1>3 DEF Done, Reads, Return, Finish
<1>4. ASSUME NEW e \in {"open", "eof", "broken"}, Intercept(e) PROVE Places'
  BY <1>4 DEF Intercept, Reads, Finish
<1>5. ASSUME NEW e \in {"open", "eof", "broken"}, NEW k \in Chunks,
             Withhold(k, e)
      PROVE  Places'
  BY <1>5, AssembledType DEF Withhold, Parses, Reads
<1>6. ASSUME NEW e \in {"open", "eof", "broken"}, NEW k \in Chunks, Relay(k, e) PROVE Places'
  BY <1>6, AssembledType DEF Relay, Parses, Reads, Finish
<1>7. ASSUME NEW e \in {"eof", "broken"}, End(e) PROVE Places'
  BY <1>7 DEF End, Return, Finish
<1>8. ASSUME Exec PROVE Places'
  BY <1>8 DEF Exec, NewTurn
<1>9. ASSUME RoundAnswers PROVE Places'
  BY <1>9 DEF RoundAnswers
<1>10. ASSUME RoundRefused PROVE Places'
  BY <1>10 DEF RoundRefused, Finish
<1>11. ASSUME RoundFails PROVE Places'
  BY <1>11 DEF RoundFails
<1>12. ASSUME FreshFound PROVE Places'
  BY <1>12 DEF FreshFound
<1>13. ASSUME FreshFails PROVE Places'
  BY <1>13 DEF FreshFails, Finish
<1>14. ASSUME BodyBreaks PROVE Places'
  BY <1>14 DEF BodyBreaks, Finish
<1>15. ASSUME NEW k \in {"text", "search", "client"}, NEW u \in 0 .. 1, NEW ok \in BOOLEAN,
             Body(k, u, ok)
      PROVE  Places'
  BY <1>15 DEF Body, Finish
<1>16. ASSUME Ended PROVE Places'
  BY <1>16 DEF Ended, vars
<1>17. CASE UNCHANGED vars
  BY <1>17 DEF vars
<1> QED
  BY <1>1, <1>2, <1>3, <1>4, <1>5, <1>6, <1>7, <1>8, <1>9, <1>10, <1>11, <1>12, <1>13,
     <1>14, <1>15, <1>16, <1>17
  DEF Next

\* Every step keeps the numbers.
LEMMA NumbersStep == Numbers /\ Calls /\ [Next]_vars => Numbers'
<1> SUFFICES ASSUME Numbers /\ Calls, [Next]_vars PROVE Numbers'
  OBVIOUS
<1> USE DEF Numbers, relay, input, loop
<1>1. ASSUME Hangup PROVE Numbers'
  BY <1>1, BoundsAssumption DEF Hangup
<1>2. ASSUME Blank PROVE Numbers'
  <2>1. totalUsage' = totalUsage \/ totalUsage' = totalUsage + usage
    BY <1>2 DEF Blank, Return, Billed
  <2> QED BY <1>2, <2>1 DEF Blank, Reads
<1>3. ASSUME NEW e \in {"open", "eof", "broken"}, Done(e) PROVE Numbers'
  <2>1. totalUsage' = totalUsage \/ totalUsage' = totalUsage + usage
    BY <1>3 DEF Done, Return, Billed
  <2> QED BY <1>3, <2>1 DEF Done, Reads
<1>4. ASSUME NEW e \in {"open", "eof", "broken"}, Intercept(e) PROVE Numbers'
  BY <1>4, BoundsAssumption DEF Intercept, Reads, Finish, Billed, LastRound
<1>5. ASSUME NEW e \in {"open", "eof", "broken"}, NEW k \in Chunks,
             Withhold(k, e)
      PROVE  Numbers'
  <2>1. usage' = usage \/ usage' = 1
    BY <1>5 DEF Withhold, Parses
  <2>2. usage' \in 0 .. 1 /\ reported + usage' - usage \in Nat
    BY <2>1
  <2> QED BY <1>5, <2>2 DEF Withhold, Parses
<1>6. ASSUME NEW e \in {"open", "eof", "broken"}, NEW k \in Chunks,
             Relay(k, e)
      PROVE  Numbers'
  <2>1. usage' = usage \/ usage' = 1
    BY <1>6 DEF Relay, Parses
  <2>2. totalUsage' = totalUsage \/ totalUsage' = totalUsage + usage'
    BY <1>6 DEF Relay, Parses, Billed
  <2>3. usage' \in 0 .. 1 /\ reported + usage' - usage \in Nat
    BY <2>1
  <2> QED BY <1>6, <2>2, <2>3 DEF Relay, Parses
<1>7. ASSUME NEW e \in {"eof", "broken"}, End(e) PROVE Numbers'
  BY <1>7, BoundsAssumption DEF End, Return, Finish, Billed
<1>8. ASSUME Exec PROVE Numbers'
  BY <1>8, BoundsAssumption DEF Exec, NewTurn
<1>9. ASSUME RoundAnswers PROVE Numbers'
  BY <1>9, BoundsAssumption DEF RoundAnswers
<1>10. ASSUME RoundRefused PROVE Numbers'
  BY <1>10, BoundsAssumption DEF RoundRefused, Finish
<1>11. ASSUME RoundFails PROVE Numbers'
  BY <1>11, BoundsAssumption DEF RoundFails
<1>12. ASSUME FreshFound PROVE Numbers'
  BY <1>12, BoundsAssumption DEF FreshFound
<1>13. ASSUME FreshFails PROVE Numbers'
  BY <1>13, BoundsAssumption DEF FreshFails, Finish
<1>14. ASSUME BodyBreaks PROVE Numbers'
  BY <1>14, BoundsAssumption DEF BodyBreaks, Finish
<1>15. ASSUME NEW k \in {"text", "search", "client"}, NEW u \in 0 .. 1, NEW ok \in BOOLEAN,
             Body(k, u, ok)
      PROVE  Numbers'
  BY <1>15, BoundsAssumption DEF Body, Finish, Billed, LastRound
<1>16. ASSUME Ended PROVE Numbers'
  BY <1>16, BoundsAssumption DEF Ended, vars
<1>17. CASE UNCHANGED vars
  BY <1>17 DEF vars
<1> QED
  BY <1>1, <1>2, <1>3, <1>4, <1>5, <1>6, <1>7, <1>8, <1>9, <1>10, <1>11, <1>12, <1>13,
     <1>14, <1>15, <1>16, <1>17
  DEF Next

\* The error event is a line.
LEMMA ErrorLine == ErrorEvent \in Line /\ <<ErrorEvent>> \in Seq(Line)
<1>1. ErrorEvent \in Line
  BY KnownKinds DEF ErrorEvent, Line
<1> QED BY <1>1

\* What the gateway adds is no line of the provider.
LEMMA SynthesizedLine ==
  /\ Synthesized \in Seq(Line)
  /\ Synthesized = <<>> \/ \E x \in Line : Synthesized = <<x>> /\ x.at = 0
<1>1. PICK x : x = [kind |-> {"usage"}, at |-> 0]
  OBVIOUS
<1>2. x \in Line /\ x.at = 0
  BY <1>1 DEF Line, Kinds, Parts
<1>3. Synthesized = <<x>> \/ Synthesized = <<>>
  BY <1>1 DEF Synthesized
<1>4. <<x>> \in Seq(Line) /\ <<>> \in Seq(Line)
  BY <1>2
<1> QED BY <1>2, <1>3, <1>4

\* Every step keeps the lines.
LEMMA LinesStep == TypeOK /\ [Next]_vars => Lines'
<1> SUFFICES ASSUME TypeOK, [Next]_vars PROVE Lines'
  OBVIOUS
<1> USE DEF Lines, relay, input, loop
<1>1. ASSUME Hangup PROVE Lines'
  BY <1>1 DEF Hangup, TypeOK
<1>2. ASSUME Blank PROVE Lines'
  <2>1. heard' \in Seq(Line) /\ Last(heard') \in Line
    BY <1>2, ReadsLine, KnownKinds DEF Blank
  <2>2. <<Last(heard')>> \in Seq(Line)
    BY <2>1
  <2>3. sent' \in Seq(Line)
    BY <1>2, <2>2, WriteType DEF Blank
  <2> QED BY <1>2, <2>1, <2>3 DEF Blank, TypeOK
<1>3. ASSUME NEW e \in {"open", "eof", "broken"}, Done(e) PROVE Lines'
  <2>1. heard' \in Seq(Line) /\ Last(heard') \in Line
    BY <1>3, ReadsLine, KnownKinds DEF Done
  <2>2. Synthesized \in Seq(Line)
    BY SynthesizedLine
  <2>3. FlushBuffered \in Seq(Line)
    BY DEF FlushBuffered, TypeOK
  <2>4. FlushBuffered \o Synthesized \o <<Last(heard')>> \in Seq(Line)
    BY <2>1, <2>2, <2>3
  <2>5. sent' \in Seq(Line)
    BY <1>3, <2>4, WriteType DEF Done
  <2>6. buffered' = <<>>
    BY <1>3 DEF Done
  <2> QED BY <2>1, <2>5, <2>6
<1>4. ASSUME NEW e \in {"open", "eof", "broken"}, Intercept(e) PROVE Lines'
  <2>1. heard' \in Seq(Line) /\ Last(heard') \in Line
    BY <1>4, ReadsLine, KnownKinds DEF Intercept
  <2>2. buffered' = <<>> /\ sent' = sent /\ sent \in Seq(Line)
    BY <1>4 DEF Intercept, TypeOK
  <2> QED BY <2>1, <2>2
<1>5. ASSUME NEW e \in {"open", "eof", "broken"}, NEW k \in Chunks,
             Withhold(k, e)
      PROVE  Lines'
  <2>1. heard' \in Seq(Line) /\ Last(heard') \in Line
    BY <1>5, ReadsLine, KnownKinds DEF Withhold, Parses
  <2>2. buffered \in Seq(Line) /\ sent \in Seq(Line)
    BY DEF TypeOK
  <2>3. buffered' \in Seq(Line)
    BY <1>5, <2>1, <2>2 DEF Withhold, Parses
  <2> QED BY <1>5, <2>1, <2>2, <2>3 DEF Withhold, Parses
<1>6. ASSUME NEW e \in {"open", "eof", "broken"}, NEW k \in Chunks, Relay(k, e) PROVE Lines'
  <2>1. heard' \in Seq(Line) /\ Last(heard') \in Line
    BY <1>6, ReadsLine, KnownKinds DEF Relay, Parses
  <2>2. FlushBuffered \in Seq(Line)
    BY DEF FlushBuffered, TypeOK
  <2>3. FlushBuffered \o <<Last(heard')>> \in Seq(Line)
    BY <2>1, <2>2
  <2>4. sent' \in Seq(Line)
    BY <1>6, <2>3, WriteType DEF Relay, Parses
  <2>5. buffered' = <<>>
    BY <1>6 DEF Relay, Parses
  <2> QED BY <2>1, <2>4, <2>5
<1>7. ASSUME NEW e \in {"eof", "broken"}, End(e) PROVE Lines'
  <2>1. Report(e) \in Seq(Line)
    BY ErrorLine DEF Report
  <2>2. FlushBuffered \in Seq(Line)
    BY DEF FlushBuffered, TypeOK
  <2>3. FlushBuffered \o Report(e) \in Seq(Line)
    BY <2>1, <2>2
  <2>4. sent' \in Seq(Line)
    BY <1>7, <2>3, WriteType DEF End
  <2>5. buffered' = <<>> /\ heard' = heard /\ heard \in Seq(Line)
    BY <1>7 DEF End, TypeOK
  <2> QED BY <2>4, <2>5
<1>8. ASSUME Exec PROVE Lines'
  BY <1>8 DEF Exec, NewTurn
<1>9. ASSUME RoundAnswers PROVE Lines'
  BY <1>9 DEF RoundAnswers, TypeOK
<1>10. ASSUME RoundRefused PROVE Lines'
  <2>1. <<ErrorEvent>> \in Seq(Line)
    BY ErrorLine
  <2> QED BY <1>10, <2>1, WriteType DEF RoundRefused, Lines, TypeOK
<1>11. ASSUME RoundFails PROVE Lines'
  BY <1>11 DEF RoundFails, TypeOK
<1>12. ASSUME FreshFound PROVE Lines'
  BY <1>12 DEF FreshFound, TypeOK
<1>13. ASSUME FreshFails PROVE Lines'
  <2>1. <<ErrorEvent>> \in Seq(Line)
    BY ErrorLine
  <2> QED BY <1>13, <2>1, WriteType DEF FreshFails, Lines, TypeOK
<1>14. ASSUME BodyBreaks PROVE Lines'
  <2>1. <<ErrorEvent>> \in Seq(Line)
    BY ErrorLine
  <2> QED BY <1>14, <2>1, WriteType DEF BodyBreaks, Lines, TypeOK
<1>15. ASSUME NEW k \in {"text", "search", "client"}, NEW u \in 0 .. 1, NEW ok \in BOOLEAN,
             Body(k, u, ok)
      PROVE  Lines'
  <2>1. PICK line : line = [kind |-> {k}, at |-> 1]
    OBVIOUS
  <2>2. line \in Line
    BY <2>1 DEF Line, Kinds, Parts
  <2>3. heard' = <<line>> /\ (sent' = sent \/ sent' = Write(<<line>>)) /\ buffered' = buffered
    BY <1>15, <2>1 DEF Body
  <2>4. <<line>> \in Seq(Line)
    BY <2>2
  <2>5. sent' \in Seq(Line)
    BY <2>3, <2>4, WriteType DEF TypeOK
  <2> QED BY <2>3, <2>4, <2>5 DEF TypeOK
<1>16. ASSUME Ended PROVE Lines'
  BY <1>16 DEF Ended, vars, TypeOK
<1>17. CASE UNCHANGED vars
  BY <1>17 DEF vars, TypeOK
<1> QED
  BY <1>1, <1>2, <1>3, <1>4, <1>5, <1>6, <1>7, <1>8, <1>9, <1>10, <1>11, <1>12, <1>13,
     <1>14, <1>15, <1>16, <1>17
  DEF Next

\* Every step keeps the route.
LEMMA RouteStep == Route /\ [Next]_vars => Route'
<1> SUFFICES ASSUME Route, [Next]_vars PROVE Route'
  OBVIOUS
<1> USE DEF Route, relay, input, loop
<1>1. ASSUME Hangup PROVE Route'
  BY <1>1 DEF Hangup
<1>2. ASSUME Blank PROVE Route'
  BY <1>2 DEF Blank, Reads, Return, Finish
<1>3. ASSUME NEW e \in {"open", "eof", "broken"}, Done(e) PROVE Route'
  BY <1>3 DEF Done, Reads, Return, Finish
<1>4. ASSUME NEW e \in {"open", "eof", "broken"}, Intercept(e) PROVE Route'
  BY <1>4 DEF Intercept, Reads, Finish
<1>5. ASSUME NEW e \in {"open", "eof", "broken"}, NEW k \in Chunks,
             Withhold(k, e)
      PROVE  Route'
  BY <1>5 DEF Withhold, Parses, Reads
<1>6. ASSUME NEW e \in {"open", "eof", "broken"}, NEW k \in Chunks, Relay(k, e) PROVE Route'
  BY <1>6 DEF Relay, Parses, Reads, Finish
<1>7. ASSUME NEW e \in {"eof", "broken"}, End(e) PROVE Route'
  BY <1>7 DEF End, Return, Finish
<1>8. ASSUME Exec PROVE Route'
  BY <1>8 DEF Exec, NewTurn
<1>9. ASSUME RoundAnswers PROVE Route'
  BY <1>9 DEF RoundAnswers
<1>10. ASSUME RoundRefused PROVE Route'
  BY <1>10 DEF RoundRefused, Finish
<1>11. ASSUME RoundFails PROVE Route'
  BY <1>11 DEF RoundFails
<1>12. ASSUME FreshFound PROVE Route'
  BY <1>12 DEF FreshFound
<1>13. ASSUME FreshFails PROVE Route'
  BY <1>13 DEF FreshFails, Finish
<1>14. ASSUME BodyBreaks PROVE Route'
  BY <1>14 DEF BodyBreaks, Finish
<1>15. ASSUME NEW k \in {"text", "search", "client"}, NEW u \in 0 .. 1, NEW ok \in BOOLEAN,
             Body(k, u, ok)
      PROVE  Route'
  BY <1>15 DEF Body, Finish
<1>16. ASSUME Ended PROVE Route'
  BY <1>16 DEF Ended, vars
<1>17. CASE UNCHANGED vars
  BY <1>17 DEF vars
<1> QED
  BY <1>1, <1>2, <1>3, <1>4, <1>5, <1>6, <1>7, <1>8, <1>9, <1>10, <1>11, <1>12, <1>13,
     <1>14, <1>15, <1>16, <1>17
  DEF Next

\* Every step keeps a new turn empty.
LEMMA UnheardStep == Route /\ Unheard /\ [Next]_vars => Unheard'
<1> SUFFICES ASSUME Route /\ Unheard, [Next]_vars PROVE Unheard'
  OBVIOUS
<1> USE DEF Route, Unheard, relay, input, loop
<1>1. ASSUME Hangup PROVE Unheard'
  BY <1>1 DEF Hangup
<1>2. ASSUME Blank PROVE Unheard'
  BY <1>2 DEF Blank, Reads, Return, Finish
<1>3. ASSUME NEW e \in {"open", "eof", "broken"}, Done(e) PROVE Unheard'
  BY <1>3 DEF Done, Reads, Return, Finish
<1>4. ASSUME NEW e \in {"open", "eof", "broken"}, Intercept(e) PROVE Unheard'
  BY <1>4 DEF Intercept, Reads, Finish
<1>5. ASSUME NEW e \in {"open", "eof", "broken"}, NEW k \in Chunks,
             Withhold(k, e)
      PROVE  Unheard'
  BY <1>5 DEF Withhold, Parses, Reads
<1>6. ASSUME NEW e \in {"open", "eof", "broken"}, NEW k \in Chunks,
             Relay(k, e)
      PROVE  Unheard'
  BY <1>6 DEF Relay, Parses, Reads, Finish
<1>7. ASSUME NEW e \in {"eof", "broken"}, End(e) PROVE Unheard'
  BY <1>7 DEF End, Return, Finish
<1>8. ASSUME Exec PROVE Unheard'
  BY <1>8 DEF Exec, NewTurn
<1>9. ASSUME RoundAnswers PROVE Unheard'
  BY <1>9 DEF RoundAnswers
<1>10. ASSUME RoundRefused PROVE Unheard'
  BY <1>10 DEF RoundRefused, Finish
<1>11. ASSUME RoundFails PROVE Unheard'
  BY <1>11 DEF RoundFails
<1>12. ASSUME FreshFound PROVE Unheard'
  BY <1>12 DEF FreshFound
<1>13. ASSUME FreshFails PROVE Unheard'
  BY <1>13 DEF FreshFails, Finish
<1>14. ASSUME BodyBreaks PROVE Unheard'
  BY <1>14 DEF BodyBreaks, Finish
<1>15. ASSUME NEW k \in {"text", "search", "client"}, NEW u \in 0 .. 1, NEW ok \in BOOLEAN,
             Body(k, u, ok)
      PROVE  Unheard'
  BY <1>15 DEF Body, Finish
<1>16. ASSUME Ended PROVE Unheard'
  BY <1>16 DEF Ended, vars
<1>17. CASE UNCHANGED vars
  BY <1>17 DEF vars
<1> QED
  BY <1>1, <1>2, <1>3, <1>4, <1>5, <1>6, <1>7, <1>8, <1>9, <1>10, <1>11, <1>12, <1>13,
     <1>14, <1>15, <1>16, <1>17
  DEF Next

\* Every step keeps the count of calls.
LEMMA CallsStep == Numbers /\ Calls /\ [Next]_vars => Calls'
<1> SUFFICES ASSUME Numbers /\ Calls, [Next]_vars PROVE Calls'
  OBVIOUS
<1> USE DEF Numbers, Calls, relay, input, loop
<1>1. ASSUME Hangup PROVE Calls'
  BY <1>1, BoundsAssumption DEF Hangup
<1>2. ASSUME Blank PROVE Calls'
  BY <1>2, BoundsAssumption DEF Blank, Reads, Return, Finish, Billed
<1>3. ASSUME NEW e \in {"open", "eof", "broken"}, Done(e) PROVE Calls'
  BY <1>3, BoundsAssumption DEF Done, Reads, Return, Finish, Billed
<1>4. ASSUME NEW e \in {"open", "eof", "broken"}, Intercept(e) PROVE Calls'
  BY <1>4, BoundsAssumption DEF Intercept, Reads, Finish, Billed, LastRound
<1>5. ASSUME NEW e \in {"open", "eof", "broken"}, NEW k \in Chunks,
             Withhold(k, e)
      PROVE  Calls'
  BY <1>5, BoundsAssumption DEF Withhold, Parses, Reads
<1>6. ASSUME NEW e \in {"open", "eof", "broken"}, NEW k \in Chunks, Relay(k, e) PROVE Calls'
  BY <1>6, BoundsAssumption DEF Relay, Parses, Reads, Finish, Billed
<1>7. ASSUME NEW e \in {"eof", "broken"}, End(e) PROVE Calls'
  BY <1>7, BoundsAssumption DEF End, Return, Finish, Billed
<1>8. ASSUME Exec PROVE Calls'
  BY <1>8, BoundsAssumption DEF Exec, NewTurn
<1>9. ASSUME RoundAnswers PROVE Calls'
  BY <1>9, BoundsAssumption DEF RoundAnswers
<1>10. ASSUME RoundRefused PROVE Calls'
  BY <1>10, BoundsAssumption DEF RoundRefused, Finish
<1>11. ASSUME RoundFails PROVE Calls'
  BY <1>11, BoundsAssumption DEF RoundFails
<1>12. ASSUME FreshFound PROVE Calls'
  BY <1>12, BoundsAssumption DEF FreshFound
<1>13. ASSUME FreshFails PROVE Calls'
  BY <1>13, BoundsAssumption DEF FreshFails, Finish
<1>14. ASSUME BodyBreaks PROVE Calls'
  BY <1>14, BoundsAssumption DEF BodyBreaks, Finish
<1>15. ASSUME NEW k \in {"text", "search", "client"}, NEW u \in 0 .. 1, NEW ok \in BOOLEAN,
             Body(k, u, ok)
      PROVE  Calls'
  BY <1>15, BoundsAssumption DEF Body, Finish, Billed, LastRound
<1>16. ASSUME Ended PROVE Calls'
  BY <1>16, BoundsAssumption DEF Ended, vars
<1>17. CASE UNCHANGED vars
  BY <1>17 DEF vars
<1> QED
  BY <1>1, <1>2, <1>3, <1>4, <1>5, <1>6, <1>7, <1>8, <1>9, <1>10, <1>11, <1>12, <1>13,
     <1>14, <1>15, <1>16, <1>17
  DEF Next

-----------------------------------------------------------------------------
(* Sequences of lines                                                      *)

\* What a concatenation has, and when it is in order.
LEMMA ConcatLines ==
  ASSUME NEW s \in Seq(Line), NEW t \in Seq(Line), NEW u, u = s \o t
  PROVE  /\ u \in Seq(Line)
         /\ ToSet(u) = ToSet(s) \cup ToSet(t)
         /\ DataOf(u) = DataOf(s) \cup DataOf(t)
         /\ Ordered(s) /\ Ordered(t) /\ Before(DataOf(s), DataOf(t)) => Ordered(u)
<1>0. u \in Seq(Line)
  OBVIOUS
<1>1. /\ Len(s) \in Nat /\ Len(t) \in Nat
      /\ DOMAIN s = 1 .. Len(s) /\ DOMAIN t = 1 .. Len(t) /\ DOMAIN u = 1 .. Len(s) + Len(t)
      /\ \A i \in 1 .. Len(s) : u[i] = s[i]
      /\ \A i \in Len(s) + 1 .. Len(s) + Len(t) : u[i] = t[i - Len(s)]
      /\ \A i \in 1 .. Len(t) : u[Len(s) + i] = t[i]
  OBVIOUS
<1>2. ToSet(u) = ToSet(s) \cup ToSet(t)
  <2>1. ASSUME NEW i \in DOMAIN u PROVE u[i] \in ToSet(s) \cup ToSet(t)
    <3>1. CASE i \in 1 .. Len(s)
      BY <1>1, <3>1 DEF ToSet
    <3>2. CASE i \notin 1 .. Len(s)
      <4>1. i \in Len(s) + 1 .. Len(s) + Len(t) /\ i - Len(s) \in DOMAIN t
        BY <1>1, <3>2
      <4> QED BY <1>1, <4>1 DEF ToSet
    <3> QED BY <3>1, <3>2
  <2>2. ASSUME NEW i \in DOMAIN s PROVE s[i] \in ToSet(u)
    <3>1. i \in DOMAIN u /\ u[i] = s[i]
      BY <1>1
    <3> QED BY <3>1 DEF ToSet
  <2>3. ASSUME NEW i \in DOMAIN t PROVE t[i] \in ToSet(u)
    <3>1. Len(s) + i \in DOMAIN u /\ u[Len(s) + i] = t[i]
      BY <1>1
    <3> QED BY <3>1 DEF ToSet
  <2>4. ToSet(u) \subseteq ToSet(s) \cup ToSet(t)
    BY <2>1 DEF ToSet
  <2>5. ToSet(s) \subseteq ToSet(u)
    BY <2>2 DEF ToSet
  <2>6. ToSet(t) \subseteq ToSet(u)
    BY <2>3 DEF ToSet
  <2> QED BY <2>4, <2>5, <2>6
<1>3. DataOf(u) = DataOf(s) \cup DataOf(t)
  BY <1>2 DEF DataOf
<1>4. ASSUME Ordered(s), Ordered(t), Before(DataOf(s), DataOf(t)),
             NEW m \in DOMAIN u, NEW n \in DOMAIN u, m < n, IsData(u[m]), IsData(u[n])
      PROVE  u[m].at < u[n].at
  <2>1. CASE n \in 1 .. Len(s)
    <3>1. m \in DOMAIN s /\ n \in DOMAIN s /\ u[m] = s[m] /\ u[n] = s[n]
      BY <1>1, <1>4, <2>1
    <3> QED BY <1>4, <3>1 DEF Ordered
  <2>2. CASE m \in 1 .. Len(s) /\ n \notin 1 .. Len(s)
    <3>1. /\ n \in Len(s) + 1 .. Len(s) + Len(t) /\ n - Len(s) \in DOMAIN t
          /\ m \in DOMAIN s /\ u[m] = s[m] /\ u[n] = t[n - Len(s)]
      BY <1>1, <1>4, <2>2
    <3>2. u[m] \in DataOf(s) /\ u[n] \in DataOf(t)
      BY <1>4, <3>1 DEF DataOf, ToSet
    <3> QED BY <1>4, <3>2 DEF Before
  <2>3. CASE m \notin 1 .. Len(s)
    <3>1. /\ m \in Len(s) + 1 .. Len(s) + Len(t) /\ n \in Len(s) + 1 .. Len(s) + Len(t)
          /\ m - Len(s) \in DOMAIN t /\ n - Len(s) \in DOMAIN t /\ m - Len(s) < n - Len(s)
          /\ u[m] = t[m - Len(s)] /\ u[n] = t[n - Len(s)]
      BY <1>1, <1>4, <2>3
    <3> QED BY <1>4, <3>1 DEF Ordered
  <2> QED BY <2>1, <2>2, <2>3
<1>5. Ordered(s) /\ Ordered(t) /\ Before(DataOf(s), DataOf(t)) => Ordered(u)
  BY <1>4 DEF Ordered
<1> QED
  BY <1>0, <1>2, <1>3, <1>5

\* A single line, and none.
LEMMA FewLines ==
  /\ ToSet(<<>>) = {} /\ DataOf(<<>>) = {} /\ Ordered(<<>>)
  /\ \A l : ToSet(<<l>>) = {l} /\ Ordered(<<l>>)
  /\ \A l : DataOf(<<l>>) = IF IsData(l) THEN {l} ELSE {}
<1>1. ToSet(<<>>) = {} /\ DataOf(<<>>) = {} /\ Ordered(<<>>)
  BY DEF ToSet, DataOf, Ordered
<1>2. ASSUME NEW l PROVE ToSet(<<l>>) = {l} /\ Ordered(<<l>>)
  BY DEF ToSet, Ordered
<1>3. ASSUME NEW l PROVE DataOf(<<l>>) = IF IsData(l) THEN {l} ELSE {}
  BY <1>2 DEF DataOf
<1> QED
  BY <1>1, <1>2, <1>3

\* A sequence of one line.
LEMMA OneLine ==
  ASSUME NEW l \in Line, NEW s, s = <<l>>
  PROVE  /\ s \in Seq(Line) /\ ToSet(s) = {l} /\ Ordered(s)
         /\ DataOf(s) = DataOf(<<l>>) /\ (~IsData(l) => DataOf(s) = {})
<1>1. s \in Seq(Line)
  OBVIOUS
<1> QED BY <1>1, FewLines

\* What reading a line adds to the lines heard.
LEMMA ReadsSet ==
  ASSUME TypeOK, NEW k \in Kinds, NEW e, Reads(k, e), NEW l, l = Last(heard')
  PROVE  /\ l \in Line /\ l.kind = k /\ l.at = Len(heard) + 1
         /\ Len(heard) \in Nat /\ Len(heard') = Len(heard) + 1
         /\ ToSet(heard') = ToSet(heard) \cup {l}
         /\ DataOf(heard') = DataOf(heard) \cup DataOf(<<l>>)
<1>1. /\ l \in Line /\ l.kind = k /\ l.at = Len(heard) + 1
      /\ Len(heard) \in Nat /\ Len(heard') = Len(heard) + 1
      /\ l = heard'[Len(heard) + 1]
      /\ \A n \in DOMAIN heard : n \in DOMAIN heard' /\ heard'[n] = heard[n]
      /\ \A n \in DOMAIN heard' : n \in DOMAIN heard \/ heard'[n] = l
      /\ heard' \in Seq(Line)
  BY ReadsLine
<1>2. Len(heard) + 1 \in DOMAIN heard'
  BY <1>1
<1>3. ToSet(heard') = ToSet(heard) \cup {l}
  BY <1>1, <1>2 DEF ToSet
<1>4. DataOf(heard') = DataOf(heard) \cup DataOf(<<l>>)
  BY <1>3, FewLines DEF DataOf
<1> QED
  BY <1>1, <1>3, <1>4

-----------------------------------------------------------------------------
(* What is written                                                         *)

\* The lines of a write that a client may get.
LEMMA WriteSet ==
  ASSUME TypeOK, NEW lines \in Seq(Line)
  PROVE  /\ ToSet(Write(lines)) \subseteq ToSet(sent) \cup ToSet(lines)
         /\ ~gone => /\ Write(lines) = sent \o lines
                     /\ ToSet(Write(lines)) = ToSet(sent) \cup ToSet(lines)
                     /\ DataOf(Write(lines)) = DataOf(sent) \cup DataOf(lines)
                     /\ Ordered(sent) /\ Ordered(lines) /\ Before(DataOf(sent), DataOf(lines))
                          => Ordered(Write(lines))
<1>1. sent \in Seq(Line)
  BY DEF TypeOK
<1>2. PICK u : u = sent \o lines
  OBVIOUS
<1>3. /\ ToSet(u) = ToSet(sent) \cup ToSet(lines)
      /\ DataOf(u) = DataOf(sent) \cup DataOf(lines)
      /\ Ordered(sent) /\ Ordered(lines) /\ Before(DataOf(sent), DataOf(lines)) => Ordered(u)
  BY <1>1, <1>2, ConcatLines
<1>4. Write(lines) = sent \/ Write(lines) = u
  BY <1>2 DEF Write
<1>5. ~gone => Write(lines) = u
  BY <1>2 DEF Write
<1> QED
  BY <1>2, <1>3, <1>4, <1>5

\* The error event is not of the provider.
LEMMA ErrorSet ==
  /\ ToSet(<<ErrorEvent>>) = {ErrorEvent} /\ DataOf(<<ErrorEvent>>) = {} /\ Ordered(<<ErrorEvent>>)
  /\ ErrorEvent.at = 0 /\ ErrorEvent.kind = {"error"}
<1>1. ErrorEvent.at = 0 /\ ErrorEvent.kind = {"error"} /\ ~IsData(ErrorEvent)
  BY DEF ErrorEvent, IsData
<1> QED
  BY <1>1, FewLines

\* The number of a line.
LEMMA AtNat ==
  ASSUME TypeOK
  PROVE  /\ \A l \in ToSet(sent) \cup ToSet(buffered) : l \in Line /\ l.at \in Nat
         /\ Len(heard) \in Nat
<1>1. \A l \in Line : l.at \in Nat
  BY DEF Line
<1>2. sent \in Seq(Line) /\ buffered \in Seq(Line) /\ heard \in Seq(Line)
  BY DEF TypeOK
<1>3. ToSet(sent) \subseteq Line /\ ToSet(buffered) \subseteq Line
  BY <1>2 DEF ToSet
<1> QED
  BY <1>1, <1>2, <1>3

\* Appending is concatenating one line.
LEMMA AppendLine ==
  ASSUME NEW s \in Seq(Line), NEW l \in Line
  PROVE  /\ ToSet(Append(s, l)) = ToSet(s) \cup {l}
         /\ DataOf(Append(s, l)) = DataOf(s) \cup DataOf(<<l>>)
         /\ Ordered(s) /\ Before(DataOf(s), DataOf(<<l>>)) => Ordered(Append(s, l))
<1>1. PICK t : t = <<l>>
  OBVIOUS
<1>2. PICK u : u = s \o t
  OBVIOUS
<1>4. Append(s, l) = u
  BY <1>1, <1>2
<1>3. t \in Seq(Line) /\ ToSet(t) = {l} /\ Ordered(t) /\ DataOf(t) = DataOf(<<l>>)
  BY <1>1, OneLine
<1>5. /\ ToSet(u) = ToSet(s) \cup ToSet(t) /\ DataOf(u) = DataOf(s) \cup DataOf(t)
      /\ Ordered(s) /\ Ordered(t) /\ Before(DataOf(s), DataOf(t)) => Ordered(u)
  BY <1>2, <1>3, ConcatLines
<1> QED
  BY <1>3, <1>4, <1>5

\* What goes out with a chunk that is relayed.
LEMMA RelayLines ==
  ASSUME NEW s \in Seq(Line), NEW l \in Line
  PROVE  \E y \in Seq(Line) : /\ y = s \o <<l>>
                              /\ ToSet(y) = ToSet(s) \cup {l}
                              /\ DataOf(y) = DataOf(s) \cup DataOf(<<l>>)
                              /\ Ordered(s) /\ Before(DataOf(s), DataOf(<<l>>)) => Ordered(y)
<1>1. PICK t : t = <<l>>
  OBVIOUS
<1>2. t \in Seq(Line) /\ ToSet(t) = {l} /\ Ordered(t) /\ DataOf(t) = DataOf(<<l>>)
  BY <1>1, OneLine
<1>3. PICK y : y = s \o t
  OBVIOUS
<1>4. /\ y \in Seq(Line) /\ ToSet(y) = ToSet(s) \cup ToSet(t)
      /\ DataOf(y) = DataOf(s) \cup DataOf(t)
      /\ Ordered(s) /\ Ordered(t) /\ Before(DataOf(s), DataOf(t)) => Ordered(y)
  BY <1>2, <1>3, ConcatLines
<1> QED
  BY <1>1, <1>2, <1>3, <1>4

\* What goes out at [DONE].
LEMMA DoneLines ==
  ASSUME NEW s \in Seq(Line), NEW l \in Line
  PROVE  \E y \in Seq(Line) : /\ y = s \o Synthesized \o <<l>>
                              /\ ToSet(y) = ToSet(s) \cup ToSet(Synthesized) \cup {l}
                              /\ DataOf(y) = DataOf(s) \cup DataOf(<<l>>)
                              /\ Ordered(s) /\ Before(DataOf(s), DataOf(<<l>>)) => Ordered(y)
<1>1. PICK z : z = Synthesized
  OBVIOUS
<1>2. z \in Seq(Line) /\ (z = <<>> \/ \E x \in Line : z = <<x>> /\ x.at = 0)
  BY <1>1, SynthesizedLine
<1>3. DataOf(z) = {} /\ Ordered(z)
  <2>1. CASE z = <<>>
    BY <2>1, FewLines
  <2>2. ASSUME NEW x \in Line, z = <<x>>, x.at = 0 PROVE DataOf(z) = {} /\ Ordered(z)
    <3>1. ~IsData(x)
      BY <2>2 DEF IsData
    <3> QED BY <2>2, <3>1, OneLine
  <2> QED BY <1>2, <2>1, <2>2
<1>4. PICK y : y = s \o z
  OBVIOUS
<1>5. /\ y \in Seq(Line) /\ ToSet(y) = ToSet(s) \cup ToSet(z)
      /\ DataOf(y) = DataOf(s) \cup DataOf(z)
      /\ Ordered(s) /\ Ordered(z) /\ Before(DataOf(s), DataOf(z)) => Ordered(y)
  BY <1>2, <1>4, ConcatLines
<1>6. DataOf(y) = DataOf(s) /\ (Ordered(s) => Ordered(y))
  BY <1>3, <1>5 DEF Before
<1>7. y \in Seq(Line)
  BY <1>5
<1>8. PICK w \in Seq(Line) : /\ w = y \o <<l>>
                             /\ ToSet(w) = ToSet(y) \cup {l}
                             /\ DataOf(w) = DataOf(y) \cup DataOf(<<l>>)
                             /\ Ordered(y) /\ Before(DataOf(y), DataOf(<<l>>)) => Ordered(w)
  BY <1>7, RelayLines
<1>9. w = s \o Synthesized \o <<l>>
  BY <1>1, <1>4, <1>8
<1> QED
  BY <1>1, <1>5, <1>6, <1>8, <1>9

\* What goes out at the end of a turn.
LEMMA EndLines ==
  ASSUME NEW s \in Seq(Line), NEW e
  PROVE  \E y \in Seq(Line) : /\ y = s \o Report(e)
                              /\ ToSet(y) \subseteq ToSet(s) \cup {ErrorEvent}
                              /\ e = "broken" => ErrorEvent \in ToSet(y)
                              /\ DataOf(y) = DataOf(s)
                              /\ Ordered(s) => Ordered(y)
<1>1. PICK z : z = Report(e)
  OBVIOUS
<1>2. /\ z \in Seq(Line) /\ (z = <<>> \/ z = <<ErrorEvent>>)
      /\ e = "broken" => z = <<ErrorEvent>>
  BY <1>1, ErrorLine DEF Report
<1>3. DataOf(z) = {} /\ Ordered(z) /\ ToSet(z) \subseteq {ErrorEvent}
      /\ (e = "broken" => ToSet(z) = {ErrorEvent})
  BY <1>2, FewLines, ErrorSet
<1>4. PICK y : y = s \o z
  OBVIOUS
<1>5. /\ y \in Seq(Line) /\ ToSet(y) = ToSet(s) \cup ToSet(z)
      /\ DataOf(y) = DataOf(s) \cup DataOf(z)
      /\ Ordered(s) /\ Ordered(z) /\ Before(DataOf(s), DataOf(z)) => Ordered(y)
  BY <1>2, <1>4, ConcatLines
<1>6. DataOf(y) = DataOf(s) /\ (Ordered(s) => Ordered(y))
  BY <1>3, <1>5 DEF Before
<1> QED
  BY <1>1, <1>3, <1>4, <1>5, <1>6

\* Every step keeps the numbering of the lines.
LEMMA NumberedStep == TypeOK /\ Unheard /\ Numbered /\ [Next]_vars => Numbered'
<1> SUFFICES ASSUME TypeOK /\ Unheard /\ Numbered, [Next]_vars PROVE Numbered'
  OBVIOUS
<1> USE DEF Numbered, relay, input, loop
<1>1. ASSUME Hangup PROVE Numbered'
  BY <1>1 DEF Hangup
<1>2. ASSUME Blank PROVE Numbered'
  <2>1. PICK l : l = Last(heard')
    OBVIOUS
  <2>2. /\ l \in Line /\ Len(heard) \in Nat /\ Len(heard') = Len(heard) + 1
        /\ l.at = Len(heard) + 1 /\ ToSet(heard') = ToSet(heard) \cup {l}
        /\ DataOf(heard') = DataOf(heard) \cup DataOf(<<l>>)
    BY <1>2, <2>1, ReadsSet, KnownKinds DEF Blank
  <2>3. ToSet(<<l>>) = {l} /\ <<l>> \in Seq(Line)
    BY <2>2, FewLines
  <2>4. ToSet(sent') \subseteq ToSet(sent) \cup {l} /\ buffered' = buffered
    BY <1>2, <2>1, <2>3, WriteSet DEF Blank
  <2> QED BY <2>2, <2>4, AtNat
<1>3. ASSUME NEW e \in {"open", "eof", "broken"}, Done(e) PROVE Numbered'
  <2>1. PICK l : l = Last(heard')
    OBVIOUS
  <2>2. /\ l \in Line /\ Len(heard) \in Nat /\ Len(heard') = Len(heard) + 1
        /\ l.at = Len(heard) + 1 /\ ToSet(heard') = ToSet(heard) \cup {l}
        /\ DataOf(heard') = DataOf(heard) \cup DataOf(<<l>>)
    BY <1>3, <2>1, ReadsSet, KnownKinds DEF Done
  <2>3. PICK y \in Seq(Line) : y = buffered \o Synthesized \o <<l>> /\
          ToSet(y) = ToSet(buffered) \cup ToSet(Synthesized) \cup {l}
    BY <2>2, DoneLines DEF TypeOK
  <2>4. sent' = Write(y) /\ buffered' = <<>>
    BY <1>3, <2>1, <2>3 DEF Done, FlushBuffered
  <2>5. /\ ToSet(sent') \subseteq ToSet(sent) \cup ToSet(buffered) \cup ToSet(Synthesized) \cup {l}
        /\ ToSet(buffered') = {}
    BY <2>3, <2>4, WriteSet, FewLines
  <2>6. \A x \in ToSet(Synthesized) : x.at = 0
    BY SynthesizedLine, FewLines
  <2> QED BY <2>2, <2>5, <2>6, AtNat
<1>4. ASSUME NEW e \in {"open", "eof", "broken"}, Intercept(e) PROVE Numbered'
  <2>1. PICK l : l = Last(heard')
    OBVIOUS
  <2>2. /\ l \in Line /\ Len(heard) \in Nat /\ Len(heard') = Len(heard) + 1
        /\ l.at = Len(heard) + 1 /\ ToSet(heard') = ToSet(heard) \cup {l}
        /\ DataOf(heard') = DataOf(heard) \cup DataOf(<<l>>)
    BY <1>4, <2>1, ReadsSet, KnownKinds DEF Intercept
  <2>3. buffered' = <<>> /\ sent' = sent /\ ToSet(buffered') = {}
    BY <1>4, FewLines DEF Intercept
  <2> QED BY <2>2, <2>3, AtNat
<1>5. ASSUME NEW e \in {"open", "eof", "broken"}, NEW k \in Chunks,
             Withhold(k, e)
      PROVE  Numbered'
  <2>1. PICK l : l = Last(heard')
    OBVIOUS
  <2>2. /\ l \in Line /\ Len(heard) \in Nat /\ Len(heard') = Len(heard) + 1
        /\ l.at = Len(heard) + 1 /\ ToSet(heard') = ToSet(heard) \cup {l}
        /\ DataOf(heard') = DataOf(heard) \cup DataOf(<<l>>)
    BY <1>5, <2>1, ReadsSet, KnownKinds DEF Withhold, Parses
  <2>3. ToolChunk(l.kind)
    BY <1>5, <2>1, ReadsSet, KnownKinds DEF Withhold
  <2>4. buffered' = Append(buffered, l) /\ sent' = sent /\ buffered \in Seq(Line)
    BY <1>5, <2>1 DEF Withhold, Parses, TypeOK
  <2>5. ToSet(buffered') = ToSet(buffered) \cup {l}
    BY <2>2, <2>4, AppendLine
  <2> QED BY <2>2, <2>3, <2>4, <2>5, AtNat
<1>6. ASSUME NEW e \in {"open", "eof", "broken"}, NEW k \in Chunks,
             Relay(k, e)
      PROVE  Numbered'
  <2>1. PICK l : l = Last(heard')
    OBVIOUS
  <2>2. /\ l \in Line /\ Len(heard) \in Nat /\ Len(heard') = Len(heard) + 1
        /\ l.at = Len(heard) + 1 /\ ToSet(heard') = ToSet(heard) \cup {l}
        /\ DataOf(heard') = DataOf(heard) \cup DataOf(<<l>>)
    BY <1>6, <2>1, ReadsSet, KnownKinds DEF Relay, Parses
  <2>3. PICK y \in Seq(Line) : y = buffered \o <<l>> /\ ToSet(y) = ToSet(buffered) \cup {l}
    BY <2>2, RelayLines DEF TypeOK
  <2>4. sent' = Write(y) /\ buffered' = <<>>
    BY <1>6, <2>1, <2>3 DEF Relay, Parses, FlushBuffered
  <2>5. ToSet(sent') \subseteq ToSet(sent) \cup ToSet(buffered) \cup {l} /\ ToSet(buffered') = {}
    BY <2>3, <2>4, WriteSet, FewLines
  <2> QED BY <2>2, <2>5, AtNat
<1>7. ASSUME NEW e \in {"eof", "broken"}, End(e) PROVE Numbered'
  <2>1. PICK y \in Seq(Line) : y = buffered \o Report(e) /\
          ToSet(y) \subseteq ToSet(buffered) \cup {ErrorEvent}
    BY EndLines DEF TypeOK
  <2>2. sent' = Write(y) /\ buffered' = <<>> /\ heard' = heard
    BY <1>7, <2>1 DEF End, FlushBuffered
  <2>3. /\ ToSet(sent') \subseteq ToSet(sent) \cup ToSet(buffered) \cup {ErrorEvent}
        /\ ToSet(buffered') = {}
    BY <2>1, <2>2, WriteSet, FewLines
  <2> QED BY <2>2, <2>3, ErrorSet, AtNat
<1>8. ASSUME Exec PROVE Numbered'
  <2>1. sent' = <<>> /\ buffered' = <<>>
    BY <1>8 DEF Exec, NewTurn
  <2> QED BY <2>1, FewLines
<1>9. ASSUME RoundAnswers PROVE Numbered'
  BY <1>9 DEF RoundAnswers
<1>10. ASSUME RoundRefused PROVE Numbered'
  <2>1. sent' = Write(<<ErrorEvent>>) /\ UNCHANGED <<heard, buffered>>
    BY <1>10 DEF RoundRefused
  <2>2. ToSet(sent') \subseteq ToSet(sent) \cup {ErrorEvent}
    BY <2>1, ErrorLine, ErrorSet, WriteSet
  <2> QED BY <2>1, <2>2, ErrorSet, AtNat
<1>11. ASSUME RoundFails PROVE Numbered'
  BY <1>11 DEF RoundFails
<1>12. ASSUME FreshFound PROVE Numbered'
  BY <1>12 DEF FreshFound
<1>13. ASSUME FreshFails PROVE Numbered'
  <2>1. sent' = Write(<<ErrorEvent>>) /\ UNCHANGED <<heard, buffered>>
    BY <1>13 DEF FreshFails
  <2>2. ToSet(sent') \subseteq ToSet(sent) \cup {ErrorEvent}
    BY <2>1, ErrorLine, ErrorSet, WriteSet
  <2> QED BY <2>1, <2>2, ErrorSet, AtNat
<1>14. ASSUME BodyBreaks PROVE Numbered'
  <2>1. sent' = Write(<<ErrorEvent>>) /\ UNCHANGED <<heard, buffered>>
    BY <1>14 DEF BodyBreaks
  <2>2. ToSet(sent') \subseteq ToSet(sent) \cup {ErrorEvent}
    BY <2>1, ErrorLine, ErrorSet, WriteSet
  <2> QED BY <2>1, <2>2, ErrorSet, AtNat
<1>15. ASSUME NEW k \in {"text", "search", "client"}, NEW u \in 0 .. 1, NEW ok \in BOOLEAN,
             Body(k, u, ok)
      PROVE  Numbered'
  <2>1. PICK x : x = [kind |-> {k}, at |-> 1]
    OBVIOUS
  <2>2. x \in Line /\ x.at = 1
    BY <2>1 DEF Line, Kinds, Parts
  <2>3. <<x>> \in Seq(Line) /\ ToSet(<<x>>) = {x}
    BY <2>2, FewLines
  <2>4. heard' = <<x>> /\ (sent' = sent \/ sent' = Write(<<x>>)) /\ buffered' = buffered
    BY <1>15, <2>1 DEF Body
  <2>5. sent = <<>> /\ buffered = <<>>
    BY <1>15 DEF Body, Unheard
  <2>6. ToSet(sent') \subseteq {x} /\ ToSet(buffered') = {} /\ Len(heard') = 1
    BY <2>3, <2>4, <2>5, WriteSet, FewLines
  <2> QED BY <2>2, <2>6
<1>16. ASSUME Ended PROVE Numbered'
  BY <1>16 DEF Ended, vars
<1>17. CASE UNCHANGED vars
  BY <1>17 DEF vars
<1> QED
  BY <1>1, <1>2, <1>3, <1>4, <1>5, <1>6, <1>7, <1>8, <1>9, <1>10, <1>11, <1>12, <1>13,
     <1>14, <1>15, <1>16, <1>17
  DEF Next

\* Every step keeps each line with the client or withheld.
LEMMA KeptStep == TypeOK /\ Unheard /\ Kept /\ [Next]_vars => Kept'
<1> SUFFICES ASSUME TypeOK /\ Unheard /\ Kept, [Next]_vars PROVE Kept'
  OBVIOUS
<1> USE DEF Kept, relay, input, loop
<1>1. ASSUME Hangup PROVE Kept'
  BY <1>1 DEF Hangup
<1>2. ASSUME Blank PROVE Kept'
  <2>1. PICK l : l = Last(heard')
    OBVIOUS
  <2>2. /\ l \in Line /\ Len(heard) \in Nat /\ Len(heard') = Len(heard) + 1
        /\ l.at = Len(heard) + 1 /\ ToSet(heard') = ToSet(heard) \cup {l}
        /\ DataOf(heard') = DataOf(heard) \cup DataOf(<<l>>)
    BY <1>2, <2>1, ReadsSet, KnownKinds DEF Blank
  <2>3. ToSet(<<l>>) = {l} /\ <<l>> \in Seq(Line)
    BY <2>2, FewLines
  <2>4. buffered' = buffered /\ gone' = gone /\ (~gone => ToSet(sent') = ToSet(sent) \cup {l})
    BY <1>2, <2>1, <2>3, WriteSet DEF Blank
  <2>5. pc = "read"
    BY <1>2 DEF Blank, Reads
  <2> QED BY <2>2, <2>4, <2>5
<1>3. ASSUME NEW e \in {"open", "eof", "broken"}, Done(e) PROVE Kept'
  <2>1. PICK l : l = Last(heard')
    OBVIOUS
  <2>2. /\ l \in Line /\ Len(heard) \in Nat /\ Len(heard') = Len(heard) + 1
        /\ l.at = Len(heard) + 1 /\ ToSet(heard') = ToSet(heard) \cup {l}
        /\ DataOf(heard') = DataOf(heard) \cup DataOf(<<l>>)
    BY <1>3, <2>1, ReadsSet, KnownKinds DEF Done
  <2>3. PICK y \in Seq(Line) : y = buffered \o Synthesized \o <<l>> /\
          ToSet(y) = ToSet(buffered) \cup ToSet(Synthesized) \cup {l}
    BY <2>2, DoneLines DEF TypeOK
  <2>4. sent' = Write(y) /\ pc = "read" /\ gone' = gone
    BY <1>3, <2>1, <2>3 DEF Done, FlushBuffered, Reads
  <2>5. ~gone => ToSet(sent') = ToSet(sent) \cup ToSet(y)
    BY <2>3, <2>4, WriteSet
  <2> QED BY <2>2, <2>3, <2>4, <2>5
<1>4. ASSUME NEW e \in {"open", "eof", "broken"}, Intercept(e) PROVE Kept'
  BY <1>4 DEF Intercept, Finish, LastRound
<1>5. ASSUME NEW e \in {"open", "eof", "broken"}, NEW k \in Chunks,
             Withhold(k, e)
      PROVE  Kept'
  <2>1. PICK l : l = Last(heard')
    OBVIOUS
  <2>2. /\ l \in Line /\ Len(heard) \in Nat /\ Len(heard') = Len(heard) + 1
        /\ l.at = Len(heard) + 1 /\ ToSet(heard') = ToSet(heard) \cup {l}
        /\ DataOf(heard') = DataOf(heard) \cup DataOf(<<l>>)
    BY <1>5, <2>1, ReadsSet, KnownKinds DEF Withhold, Parses
  <2>3. buffered' = Append(buffered, l) /\ sent' = sent /\ buffered \in Seq(Line)
    BY <1>5, <2>1 DEF Withhold, Parses, TypeOK
  <2>4. ToSet(buffered') = ToSet(buffered) \cup {l}
    BY <2>2, <2>3, AppendLine
  <2>5. pc = "read" /\ gone' = gone
    BY <1>5 DEF Withhold, Parses, Reads
  <2> QED BY <2>2, <2>3, <2>4, <2>5
<1>6. ASSUME NEW e \in {"open", "eof", "broken"}, NEW k \in Chunks, Relay(k, e) PROVE Kept'
  <2>1. PICK l : l = Last(heard')
    OBVIOUS
  <2>2. /\ l \in Line /\ Len(heard) \in Nat /\ Len(heard') = Len(heard) + 1
        /\ l.at = Len(heard) + 1 /\ ToSet(heard') = ToSet(heard) \cup {l}
        /\ DataOf(heard') = DataOf(heard) \cup DataOf(<<l>>)
    BY <1>6, <2>1, ReadsSet, KnownKinds DEF Relay, Parses
  <2>3. PICK y \in Seq(Line) : y = buffered \o <<l>> /\ ToSet(y) = ToSet(buffered) \cup {l}
    BY <2>2, RelayLines DEF TypeOK
  <2>4. sent' = Write(y) /\ pc = "read" /\ gone' = gone
    BY <1>6, <2>1, <2>3 DEF Relay, Parses, FlushBuffered, Reads
  <2>5. ~gone => ToSet(sent') = ToSet(sent) \cup ToSet(buffered) \cup {l}
    BY <2>3, <2>4, WriteSet
  <2> QED BY <2>2, <2>4, <2>5
<1>7. ASSUME NEW e \in {"eof", "broken"}, End(e) PROVE Kept'
  BY <1>7 DEF End, Return, Finish
<1>8. ASSUME Exec PROVE Kept'
  BY <1>8 DEF Exec, NewTurn
<1>9. ASSUME RoundAnswers PROVE Kept'
  <2>1. heard' = <<>>
    BY <1>9 DEF RoundAnswers, Unheard
  <2> QED BY <2>1, FewLines
<1>10. ASSUME RoundRefused PROVE Kept'
  BY <1>10 DEF RoundRefused, Finish
<1>11. ASSUME RoundFails PROVE Kept'
  BY <1>11 DEF RoundFails
<1>12. ASSUME FreshFound PROVE Kept'
  BY <1>12 DEF FreshFound
<1>13. ASSUME FreshFails PROVE Kept'
  BY <1>13 DEF FreshFails, Finish
<1>14. ASSUME BodyBreaks PROVE Kept'
  BY <1>14 DEF BodyBreaks, Finish
<1>15. ASSUME NEW k \in {"text", "search", "client"}, NEW u \in 0 .. 1, NEW ok \in BOOLEAN,
             Body(k, u, ok)
      PROVE  Kept'
  BY <1>15 DEF Body, Finish
<1>16. ASSUME Ended PROVE Kept'
  BY <1>16 DEF Ended, vars
<1>17. CASE UNCHANGED vars
  BY <1>17 DEF vars
<1> QED
  BY <1>1, <1>2, <1>3, <1>4, <1>5, <1>6, <1>7, <1>8, <1>9, <1>10, <1>11, <1>12, <1>13,
     <1>14, <1>15, <1>16, <1>17
  DEF Next

\* A new line comes after all that are written or withheld.
LEMMA NewLine ==
  ASSUME TypeOK, Numbered, NEW l \in Line, l.at = Len(heard) + 1
  PROVE  Before(DataOf(sent), DataOf(<<l>>)) /\ Before(DataOf(buffered), DataOf(<<l>>))
<1>1. DataOf(<<l>>) \subseteq {l}
  BY FewLines
<1>2. \A x \in ToSet(sent) \cup ToSet(buffered) : x.at < l.at
  BY AtNat DEF Numbered
<1> QED
  BY <1>1, <1>2 DEF Before, DataOf

\* Every step keeps what the client has and what is withheld in order.
LEMMA RelayedStep == TypeOK /\ Unheard /\ Numbered /\ Relayed /\ [Next]_vars => Relayed'
<1> SUFFICES ASSUME TypeOK /\ Unheard /\ Numbered /\ Relayed, [Next]_vars PROVE Relayed'
  OBVIOUS
<1> USE DEF Relayed, relay, input, loop
<1>1. ASSUME Hangup PROVE Relayed'
  BY <1>1 DEF Hangup
<1>2. ASSUME Blank PROVE Relayed'
  <2>1. PICK l : l = Last(heard')
    OBVIOUS
  <2>2. /\ l \in Line /\ Len(heard) \in Nat /\ Len(heard') = Len(heard) + 1
        /\ l.at = Len(heard) + 1 /\ ToSet(heard') = ToSet(heard) \cup {l}
        /\ DataOf(heard') = DataOf(heard) \cup DataOf(<<l>>)
    BY <1>2, <2>1, ReadsSet, KnownKinds DEF Blank
  <2>3. ~IsData(l)
    BY <1>2, <2>1, ReadsSet, KnownKinds DEF Blank, IsData
  <2>4. PICK y : y = <<l>>
    OBVIOUS
  <2>5. y \in Seq(Line) /\ DataOf(y) = {} /\ Ordered(y) /\ DataOf(<<l>>) = {}
    BY <2>2, <2>3, <2>4, OneLine
  <2>6. /\ sent' = Write(y) /\ buffered' = buffered /\ gone' = gone /\ pc = "read"
    BY <1>2, <2>1, <2>4 DEF Blank, Reads
  <2>7. SUFFICES ASSUME ~gone PROVE Relayed'
    BY <2>6
  <2>8. Before(DataOf(sent), DataOf(y))
    BY <2>5 DEF Before
  <2>9. DataOf(sent') = DataOf(sent) /\ Ordered(sent')
    BY <2>5, <2>6, <2>7, <2>8, WriteSet
  <2> QED BY <2>2, <2>5, <2>6, <2>7, <2>9
<1>3. ASSUME NEW e \in {"open", "eof", "broken"}, Done(e) PROVE Relayed'
  <2>1. PICK l : l = Last(heard')
    OBVIOUS
  <2>2. /\ l \in Line /\ Len(heard) \in Nat /\ Len(heard') = Len(heard) + 1
        /\ l.at = Len(heard) + 1 /\ ToSet(heard') = ToSet(heard) \cup {l}
        /\ DataOf(heard') = DataOf(heard) \cup DataOf(<<l>>)
    BY <1>3, <2>1, ReadsSet, KnownKinds DEF Done
  <2>3. PICK y \in Seq(Line) :
          /\ y = buffered \o Synthesized \o <<l>>
          /\ DataOf(y) = DataOf(buffered) \cup DataOf(<<l>>)
          /\ Ordered(buffered) /\ Before(DataOf(buffered), DataOf(<<l>>)) => Ordered(y)
    BY <2>2, DoneLines DEF TypeOK
  <2>4. /\ DataOf(y) = DataOf(buffered) \cup DataOf(<<l>>)
        /\ Ordered(buffered) /\ Before(DataOf(buffered), DataOf(<<l>>)) => Ordered(y)
    BY <2>3
  <2>5. y = buffered \o Synthesized \o <<l>>
    BY <2>3
  <2>6. sent' = Write(y)
    BY <1>3, <2>1, <2>5 DEF Done, FlushBuffered
  <2>7. buffered' = <<>> /\ pc = "read" /\ gone' = gone
    BY <1>3 DEF Done, Reads
  <2>8. DataOf(buffered') = {} /\ Ordered(buffered')
    BY <2>7, FewLines
  <2>9. SUFFICES ASSUME ~gone PROVE Relayed'
    BY <2>7
  <2>10. /\ Ordered(sent) /\ Ordered(buffered) /\ Before(DataOf(sent), DataOf(buffered))
         /\ DataOf(heard) = DataOf(sent) \cup DataOf(buffered)
    BY <2>7, <2>9
  <2>11. Before(DataOf(sent), DataOf(<<l>>)) /\ Before(DataOf(buffered), DataOf(<<l>>))
    BY <2>2, NewLine
  <2>12. Before(DataOf(sent), DataOf(y))
    BY <2>4, <2>10, <2>11 DEF Before
  <2>13. Ordered(y)
    BY <2>4, <2>10, <2>11
  <2>14. DataOf(sent') = DataOf(sent) \cup DataOf(y) /\ Ordered(sent')
    BY <2>6, <2>9, <2>10, <2>12, <2>13, WriteSet
  <2>15. DataOf(heard') = DataOf(sent') \cup DataOf(buffered')
    BY <2>2, <2>4, <2>8, <2>10, <2>14
  <2>16. Before(DataOf(sent'), DataOf(buffered'))
    BY <2>8 DEF Before
  <2> QED BY <2>8, <2>14, <2>15, <2>16
<1>4. ASSUME NEW e \in {"open", "eof", "broken"}, Intercept(e) PROVE Relayed'
  BY <1>4 DEF Intercept, Finish, LastRound
<1>5. ASSUME NEW e \in {"open", "eof", "broken"}, NEW k \in Chunks,
             Withhold(k, e)
      PROVE  Relayed'
  <2>1. PICK l : l = Last(heard')
    OBVIOUS
  <2>2. /\ l \in Line /\ Len(heard) \in Nat /\ Len(heard') = Len(heard) + 1
        /\ l.at = Len(heard) + 1 /\ ToSet(heard') = ToSet(heard) \cup {l}
        /\ DataOf(heard') = DataOf(heard) \cup DataOf(<<l>>)
    BY <1>5, <2>1, ReadsSet, KnownKinds DEF Withhold, Parses
  <2>3. buffered' = Append(buffered, l) /\ sent' = sent /\ buffered \in Seq(Line)
    BY <1>5, <2>1 DEF Withhold, Parses, TypeOK
  <2>4. pc = "read" /\ gone' = gone
    BY <1>5 DEF Withhold, Parses, Reads
  <2>5. /\ Before(DataOf(sent), DataOf(<<l>>)) /\ Before(DataOf(buffered), DataOf(<<l>>))
    BY <2>2, NewLine
  <2>6. /\ DataOf(buffered') = DataOf(buffered) \cup DataOf(<<l>>)
        /\ Ordered(buffered) => Ordered(buffered')
    BY <2>2, <2>3, <2>5, AppendLine
  <2> QED BY <2>2, <2>3, <2>4, <2>5, <2>6 DEF Before
<1>6. ASSUME NEW e \in {"open", "eof", "broken"}, NEW k \in Chunks,
             Relay(k, e)
      PROVE  Relayed'
  <2>1. PICK l : l = Last(heard')
    OBVIOUS
  <2>2. /\ l \in Line /\ Len(heard) \in Nat /\ Len(heard') = Len(heard) + 1
        /\ l.at = Len(heard) + 1 /\ ToSet(heard') = ToSet(heard) \cup {l}
        /\ DataOf(heard') = DataOf(heard) \cup DataOf(<<l>>)
    BY <1>6, <2>1, ReadsSet, KnownKinds DEF Relay, Parses
  <2>3. PICK y \in Seq(Line) :
          /\ y = buffered \o <<l>>
          /\ DataOf(y) = DataOf(buffered) \cup DataOf(<<l>>)
          /\ Ordered(buffered) /\ Before(DataOf(buffered), DataOf(<<l>>)) => Ordered(y)
    BY <2>2, RelayLines DEF TypeOK
  <2>4. /\ DataOf(y) = DataOf(buffered) \cup DataOf(<<l>>)
        /\ Ordered(buffered) /\ Before(DataOf(buffered), DataOf(<<l>>)) => Ordered(y)
    BY <2>3
  <2>5. y = buffered \o <<l>>
    BY <2>3
  <2>6. sent' = Write(y)
    BY <1>6, <2>1, <2>5 DEF Relay, Parses, FlushBuffered
  <2>7. buffered' = <<>> /\ pc = "read" /\ gone' = gone
    BY <1>6 DEF Relay, Parses, Reads
  <2>8. DataOf(buffered') = {} /\ Ordered(buffered')
    BY <2>7, FewLines
  <2>9. SUFFICES ASSUME ~gone PROVE Relayed'
    BY <2>7
  <2>10. /\ Ordered(sent) /\ Ordered(buffered) /\ Before(DataOf(sent), DataOf(buffered))
         /\ DataOf(heard) = DataOf(sent) \cup DataOf(buffered)
    BY <2>7, <2>9
  <2>11. Before(DataOf(sent), DataOf(<<l>>)) /\ Before(DataOf(buffered), DataOf(<<l>>))
    BY <2>2, NewLine
  <2>12. Before(DataOf(sent), DataOf(y))
    BY <2>4, <2>10, <2>11 DEF Before
  <2>13. Ordered(y)
    BY <2>4, <2>10, <2>11
  <2>14. DataOf(sent') = DataOf(sent) \cup DataOf(y) /\ Ordered(sent')
    BY <2>6, <2>9, <2>10, <2>12, <2>13, WriteSet
  <2>15. DataOf(heard') = DataOf(sent') \cup DataOf(buffered')
    BY <2>2, <2>4, <2>8, <2>10, <2>14
  <2>16. Before(DataOf(sent'), DataOf(buffered'))
    BY <2>8 DEF Before
  <2> QED BY <2>8, <2>14, <2>15, <2>16
<1>7. ASSUME NEW e \in {"eof", "broken"}, End(e) PROVE Relayed'
  BY <1>7 DEF End, Return, Finish
<1>8. ASSUME Exec PROVE Relayed'
  BY <1>8 DEF Exec, NewTurn
<1>9. ASSUME RoundAnswers PROVE Relayed'
  <2>1. heard' = <<>> /\ sent' = <<>> /\ buffered' = <<>>
    BY <1>9 DEF RoundAnswers, Unheard
  <2> QED BY <2>1, FewLines DEF Before
<1>10. ASSUME RoundRefused PROVE Relayed'
  BY <1>10 DEF RoundRefused, Finish
<1>11. ASSUME RoundFails PROVE Relayed'
  BY <1>11 DEF RoundFails
<1>12. ASSUME FreshFound PROVE Relayed'
  BY <1>12 DEF FreshFound
<1>13. ASSUME FreshFails PROVE Relayed'
  BY <1>13 DEF FreshFails, Finish
<1>14. ASSUME BodyBreaks PROVE Relayed'
  BY <1>14 DEF BodyBreaks, Finish
<1>15. ASSUME NEW k \in {"text", "search", "client"}, NEW u \in 0 .. 1, NEW ok \in BOOLEAN,
             Body(k, u, ok)
      PROVE  Relayed'
  BY <1>15 DEF Body, Finish
<1>16. ASSUME Ended PROVE Relayed'
  BY <1>16 DEF Ended, vars
<1>17. CASE UNCHANGED vars
  BY <1>17 DEF vars
<1> QED
  BY <1>1, <1>2, <1>3, <1>4, <1>5, <1>6, <1>7, <1>8, <1>9, <1>10, <1>11, <1>12, <1>13,
     <1>14, <1>15, <1>16, <1>17
  DEF Next

\* The places of the calls.
LEMMA TwoCalls == 0 .. 1 = {0, 1} /\ 0 # 1
OBVIOUS

\* What a fragment does to the calls.
LEMMA AssembledAt ==
  ASSUME NEW k, accs \in [0 .. 1 -> {"absent", "", "web_search", "other"}]
  PROVE  /\ Assembled(k)[0] = IF "search" \in k THEN "web_search"
                              ELSE IF "more" \in k /\ accs[0] = "absent" THEN "" ELSE accs[0]
         /\ Assembled(k)[1] = IF "client" \in k THEN "other" ELSE accs[1]
BY TwoCalls DEF Assembled

\* Every step keeps what the assembled calls say of the lines.
LEMMA AccumulatedStep == TypeOK /\ Unheard /\ Accumulated /\ [Next]_vars => Accumulated'
<1> SUFFICES ASSUME TypeOK /\ Unheard /\ Accumulated, [Next]_vars PROVE Accumulated'
  OBVIOUS
<1> USE DEF Accumulated, relay, input, loop
<1>1. ASSUME Hangup PROVE Accumulated'
  BY <1>1 DEF Hangup
<1>2. ASSUME Blank PROVE Accumulated'
  <2>1. PICK l : l = Last(heard')
    OBVIOUS
  <2>2. l.kind = {"blank"} /\ ToSet(heard') = ToSet(heard) \cup {l}
    BY <1>2, <2>1, ReadsSet, KnownKinds DEF Blank
  <2>3. accs' = accs /\ pc = "read"
    BY <1>2 DEF Blank, Reads
  <2> QED BY <2>2, <2>3
<1>3. ASSUME NEW e \in {"open", "eof", "broken"}, Done(e) PROVE Accumulated'
  <2>1. PICK l : l = Last(heard')
    OBVIOUS
  <2>2. l.kind = {"done"} /\ ToSet(heard') = ToSet(heard) \cup {l}
    BY <1>3, <2>1, ReadsSet, KnownKinds DEF Done
  <2>3. accs' = accs /\ pc = "read"
    BY <1>3 DEF Done, Reads
  <2> QED BY <2>2, <2>3
<1>4. ASSUME NEW e \in {"open", "eof", "broken"}, Intercept(e) PROVE Accumulated'
  <2>1. PICK l : l = Last(heard')
    OBVIOUS
  <2>2. l.kind = {"done"} /\ ToSet(heard') = ToSet(heard) \cup {l}
    BY <1>4, <2>1, ReadsSet, KnownKinds DEF Intercept
  <2>3. accs' = accs /\ pc = "read"
    BY <1>4 DEF Intercept, Reads
  <2> QED BY <2>2, <2>3
<1>5. ASSUME NEW e \in {"open", "eof", "broken"}, NEW k \in Chunks,
             Withhold(k, e)
      PROVE  Accumulated'
  <2>1. PICK l : l = Last(heard')
    OBVIOUS
  <2>2. l.kind = k /\ ToSet(heard') = ToSet(heard) \cup {l}
    BY <1>5, <2>1, ReadsSet, KnownKinds DEF Withhold, Parses
  <2>3. /\ accs' = Assembled(k) /\ pc = "read"
        /\ accs \in [0 .. 1 -> {"absent", "", "web_search", "other"}]
    BY <1>5 DEF Withhold, Parses, Reads, TypeOK
  <2>4. /\ accs'[0] = IF "search" \in k THEN "web_search"
                      ELSE IF "more" \in k /\ accs[0] = "absent" THEN "" ELSE accs[0]
        /\ accs'[1] = IF "client" \in k THEN "other" ELSE accs[1]
    BY <2>3, AssembledAt
  <2>5. /\ accs'[0] \in {"absent", "", "web_search"} /\ accs'[1] \in {"absent", "other"}
    BY <2>4
  <2>6. accs'[0] = "web_search" => \E x \in ToSet(heard') : "search" \in x.kind
    BY <2>2, <2>3, <2>4
  <2>7. accs'[1] = "absent" => \A x \in ToSet(heard') : "client" \notin x.kind
    BY <2>2, <2>3, <2>4
  <2> QED BY <2>5, <2>6, <2>7
<1>6. ASSUME NEW e \in {"open", "eof", "broken"}, NEW k \in Chunks,
             Relay(k, e)
      PROVE  Accumulated'
  <2>1. PICK l : l = Last(heard')
    OBVIOUS
  <2>2. l.kind = k /\ ToSet(heard') = ToSet(heard) \cup {l}
    BY <1>6, <2>1, ReadsSet, KnownKinds DEF Relay, Parses
  <2>3. /\ accs' = Assembled(k) /\ pc = "read"
        /\ accs \in [0 .. 1 -> {"absent", "", "web_search", "other"}]
    BY <1>6 DEF Relay, Parses, Reads, TypeOK
  <2>4. /\ accs'[0] = IF "search" \in k THEN "web_search"
                      ELSE IF "more" \in k /\ accs[0] = "absent" THEN "" ELSE accs[0]
        /\ accs'[1] = IF "client" \in k THEN "other" ELSE accs[1]
    BY <2>3, AssembledAt
  <2>5. /\ accs'[0] \in {"absent", "", "web_search"} /\ accs'[1] \in {"absent", "other"}
    BY <2>4
  <2>6. accs'[0] = "web_search" => \E x \in ToSet(heard') : "search" \in x.kind
    BY <2>2, <2>3, <2>4
  <2>7. accs'[1] = "absent" => \A x \in ToSet(heard') : "client" \notin x.kind
    BY <2>2, <2>3, <2>4
  <2> QED BY <2>5, <2>6, <2>7
<1>7. ASSUME NEW e \in {"eof", "broken"}, End(e) PROVE Accumulated'
  BY <1>7 DEF End, Return, Finish
<1>8. ASSUME Exec PROVE Accumulated'
  <2>1. accs' = [i \in 0 .. 1 |-> "absent"] /\ pc' = "dial"
    BY <1>8 DEF Exec, NewTurn
  <2>2. accs'[0] = "absent" /\ accs'[1] = "absent"
    BY <2>1, TwoCalls
  <2> QED BY <2>1, <2>2
<1>9. ASSUME RoundAnswers PROVE Accumulated'
  <2>1. heard' = <<>> /\ accs' = accs
    BY <1>9 DEF RoundAnswers, Unheard
  <2>2. accs' = [i \in 0 .. 1 |-> "absent"]
    BY <1>9, <2>1 DEF RoundAnswers, Unheard
  <2>3. accs'[0] = "absent" /\ accs'[1] = "absent"
    BY <2>2, TwoCalls
  <2> QED BY <2>1, <2>3, FewLines
<1>10. ASSUME RoundRefused PROVE Accumulated'
  BY <1>10 DEF RoundRefused, Finish
<1>11. ASSUME RoundFails PROVE Accumulated'
  BY <1>11 DEF RoundFails
<1>12. ASSUME FreshFound PROVE Accumulated'
  BY <1>12 DEF FreshFound
<1>13. ASSUME FreshFails PROVE Accumulated'
  BY <1>13 DEF FreshFails, Finish
<1>14. ASSUME BodyBreaks PROVE Accumulated'
  BY <1>14 DEF BodyBreaks, Finish
<1>15. ASSUME NEW k \in {"text", "search", "client"}, NEW u \in 0 .. 1, NEW ok \in BOOLEAN,
             Body(k, u, ok)
      PROVE  Accumulated'
  BY <1>15 DEF Body, Finish
<1>16. ASSUME Ended PROVE Accumulated'
  BY <1>16 DEF Ended, vars
<1>17. CASE UNCHANGED vars
  BY <1>17 DEF vars
<1> QED
  BY <1>1, <1>2, <1>3, <1>4, <1>5, <1>6, <1>7, <1>8, <1>9, <1>10, <1>11, <1>12, <1>13,
     <1>14, <1>15, <1>16, <1>17
  DEF Next

\* Every step keeps the chunks of a relayed turn complete.
LEMMA CompleteStep == TypeOK /\ Route /\ Relayed /\ Complete /\ [Next]_vars => Complete'
<1> SUFFICES ASSUME TypeOK /\ Route /\ Relayed /\ Complete, [Next]_vars PROVE Complete'
  OBVIOUS
<1> USE DEF Route, Complete, relay, input, loop
<1>1. ASSUME Hangup PROVE Complete'
  BY <1>1 DEF Hangup
<1>2. ASSUME Blank PROVE Complete'
  BY <1>2 DEF Blank, Reads, Return, Finish
<1>3. ASSUME NEW e \in {"open", "eof", "broken"}, Done(e) PROVE Complete'
  BY <1>3 DEF Done, Reads, Return, Finish
<1>4. ASSUME NEW e \in {"open", "eof", "broken"}, Intercept(e) PROVE Complete'
  BY <1>4 DEF Intercept, Reads, Finish, LastRound
<1>5. ASSUME NEW e \in {"open", "eof", "broken"}, NEW k \in Chunks,
             Withhold(k, e)
      PROVE  Complete'
  BY <1>5 DEF Withhold, Parses, Reads
<1>6. ASSUME NEW e \in {"open", "eof", "broken"}, NEW k \in Chunks,
             Relay(k, e)
      PROVE  Complete'
  BY <1>6 DEF Relay, Parses, Reads, Finish
<1>7. ASSUME NEW e \in {"eof", "broken"}, End(e) PROVE Complete'
  <2>1. PICK y \in Seq(Line) :
          /\ y = buffered \o Report(e)
          /\ DataOf(y) = DataOf(buffered)
          /\ Ordered(buffered) => Ordered(y)
    BY EndLines DEF TypeOK
  <2>2. sent' = Write(y)
    BY <1>7, <2>1 DEF End, FlushBuffered
  <2>3. pc = "read" /\ gone' = gone /\ heard' = heard
    BY <1>7 DEF End
  <2>4. SUFFICES ASSUME ~gone PROVE Complete'
    BY <2>3
  <2>5. /\ Ordered(sent) /\ Ordered(buffered) /\ Before(DataOf(sent), DataOf(buffered))
        /\ DataOf(heard) = DataOf(sent) \cup DataOf(buffered)
    BY <2>3, <2>4 DEF Relayed
  <2>6. DataOf(sent') = DataOf(sent) \cup DataOf(y) /\ Ordered(sent')
    BY <2>1, <2>2, <2>4, <2>5, WriteSet
  <2> QED BY <2>1, <2>3, <2>5, <2>6
<1>8. ASSUME Exec PROVE Complete'
  BY <1>8 DEF Exec, NewTurn
<1>9. ASSUME RoundAnswers PROVE Complete'
  BY <1>9 DEF RoundAnswers
<1>10. ASSUME RoundRefused PROVE Complete'
  BY <1>10 DEF RoundRefused, Finish
<1>11. ASSUME RoundFails PROVE Complete'
  BY <1>11 DEF RoundFails
<1>12. ASSUME FreshFound PROVE Complete'
  BY <1>12 DEF FreshFound
<1>13. ASSUME FreshFails PROVE Complete'
  BY <1>13 DEF FreshFails, Finish
<1>14. ASSUME BodyBreaks PROVE Complete'
  BY <1>14 DEF BodyBreaks, Finish
<1>15. ASSUME NEW k \in {"text", "search", "client"}, NEW u \in 0 .. 1, NEW ok \in BOOLEAN,
             Body(k, u, ok)
      PROVE  Complete'
  BY <1>15 DEF Body, Finish
<1>16. ASSUME Ended PROVE Complete'
  BY <1>16 DEF Ended, vars
<1>17. CASE UNCHANGED vars
  BY <1>17 DEF vars
<1> QED
  BY <1>1, <1>2, <1>3, <1>4, <1>5, <1>6, <1>7, <1>8, <1>9, <1>10, <1>11, <1>12, <1>13,
     <1>14, <1>15, <1>16, <1>17
  DEF Next

\* What a turn that is intercepted keeps from the client are its own searches.
LEMMA OnlyStep ==
  /\ TypeOK /\ Route /\ Numbered /\ Kept /\ Accumulated
  /\ OnlySearchesKept /\ [Next]_vars
  => OnlySearchesKept'
<1> SUFFICES ASSUME TypeOK, Route, Numbered, Kept, Accumulated, OnlySearchesKept, [Next]_vars
             PROVE  OnlySearchesKept'
  OBVIOUS
<1> USE DEF OnlySearchesKept, Route, relay, input, loop
<1>1. ASSUME Hangup PROVE OnlySearchesKept'
  BY <1>1 DEF Hangup
<1>2. ASSUME Blank PROVE OnlySearchesKept'
  BY <1>2 DEF Blank, Reads, Return, Finish
<1>3. ASSUME NEW e \in {"open", "eof", "broken"}, Done(e) PROVE OnlySearchesKept'
  BY <1>3 DEF Done, Reads, Return, Finish
<1>4. ASSUME NEW e \in {"open", "eof", "broken"}, Intercept(e) PROVE OnlySearchesKept'
  <2>1. PICK l : l = Last(heard')
    OBVIOUS
  <2>2. l.kind = {"done"} /\ ToSet(heard') = ToSet(heard) \cup {l}
    BY <1>4, <2>1, ReadsSet, KnownKinds DEF Intercept
  <2>3. pc = "read" /\ gone' = gone /\ sent' = sent
    BY <1>4 DEF Intercept, Reads
  <2>4. accs[0] = "web_search" /\ accs[1] = "absent"
    <3>1. /\ \E i \in 0 .. 1 : accs[i] = "web_search"
          /\ \A i \in 0 .. 1 : accs[i] \in {"absent", "", "web_search"}
      BY <1>4 DEF Intercept, Intercepted, AllWebSearch
    <3>2. 0 .. 1 = {0, 1}
      OBVIOUS
    <3>3. accs[0] = "web_search" \/ accs[1] = "web_search"
      BY <3>1, <3>2
    <3>4. accs[1] \in {"absent", "other"} /\ accs[1] \in {"absent", "", "web_search"}
      BY <3>1, <3>2 DEF Accumulated
    <3> QED BY <3>3, <3>4
  <2>5. SUFFICES ASSUME ~gone PROVE OnlySearchesKept'
    BY <2>3
  <2>6. \E x \in ToSet(heard) : "search" \in x.kind
    BY <2>3, <2>4 DEF Accumulated
  <2>7. \A x \in ToSet(heard) : "client" \notin x.kind
    BY <2>3, <2>4 DEF Accumulated
  <2>8. \A x \in ToSet(buffered) : ToolChunk(x.kind)
    BY DEF Numbered
  <2>9. ToSet(heard) \subseteq ToSet(sent) \cup ToSet(buffered)
    BY <2>3, <2>5 DEF Kept
  <2>10. \A x \in ToSet(heard') :
           /\ "client" \notin x.kind
           /\ x.kind \cap {"search", "more", "finish", "done"} # {} \/ x \in ToSet(sent')
    <3>1. "client" \notin l.kind /\ l.kind \cap {"search", "more", "finish", "done"} # {}
      BY <2>2
    <3>2. \A x \in ToSet(buffered) :
            "client" \notin x.kind => x.kind \cap {"search", "more", "finish", "done"} # {}
      BY <2>8 DEF ToolChunk, HasToolDelta
    <3> QED BY <2>2, <2>3, <2>7, <2>9, <3>1, <3>2
  <2>11. \E x \in ToSet(heard') : "search" \in x.kind
    BY <2>2, <2>6
  <2>12. ToSet(heard') = {heard'[n] : n \in DOMAIN heard'}
    BY DEF ToSet
  <2>13. \E n \in DOMAIN heard' : "search" \in heard'[n].kind
    BY <2>11, <2>12
  <2>14. \A n \in DOMAIN heard' :
           /\ "client" \notin heard'[n].kind
           /\ \/ heard'[n].kind \cap {"search", "more", "finish", "done"} # {}
              \/ heard'[n] \in ToSet(sent')
    BY <2>10, <2>12
  <2> QED BY <2>13, <2>14
<1>5. ASSUME NEW e \in {"open", "eof", "broken"}, NEW k \in Chunks,
             Withhold(k, e)
      PROVE  OnlySearchesKept'
  BY <1>5 DEF Withhold, Parses, Reads
<1>6. ASSUME NEW e \in {"open", "eof", "broken"}, NEW k \in Chunks,
             Relay(k, e)
      PROVE  OnlySearchesKept'
  BY <1>6 DEF Relay, Parses, Reads, Finish
<1>7. ASSUME NEW e \in {"eof", "broken"}, End(e) PROVE OnlySearchesKept'
  BY <1>7 DEF End, Return, Finish
<1>8. ASSUME Exec PROVE OnlySearchesKept'
  BY <1>8 DEF Exec, NewTurn
<1>9. ASSUME RoundAnswers PROVE OnlySearchesKept'
  BY <1>9 DEF RoundAnswers
<1>10. ASSUME RoundRefused PROVE OnlySearchesKept'
  BY <1>10 DEF RoundRefused, Finish
<1>11. ASSUME RoundFails PROVE OnlySearchesKept'
  BY <1>11 DEF RoundFails
<1>12. ASSUME FreshFound PROVE OnlySearchesKept'
  BY <1>12 DEF FreshFound
<1>13. ASSUME FreshFails PROVE OnlySearchesKept'
  BY <1>13 DEF FreshFails, Finish
<1>14. ASSUME BodyBreaks PROVE OnlySearchesKept'
  BY <1>14 DEF BodyBreaks, Finish
<1>15. ASSUME NEW k \in {"text", "search", "client"}, NEW u \in 0 .. 1, NEW ok \in BOOLEAN,
             Body(k, u, ok)
      PROVE  OnlySearchesKept'
  BY <1>15 DEF Body, Finish
<1>16. ASSUME Ended PROVE OnlySearchesKept'
  BY <1>16 DEF Ended, vars
<1>17. CASE UNCHANGED vars
  BY <1>17 DEF vars
<1> QED
  BY <1>1, <1>2, <1>3, <1>4, <1>5, <1>6, <1>7, <1>8, <1>9, <1>10, <1>11, <1>12, <1>13,
     <1>14, <1>15, <1>16, <1>17
  DEF Next

\* A client that stays gets the error event.
LEMMA ErrorWritten == TypeOK /\ ~gone => ErrorEvent \in ToSet(Write(<<ErrorEvent>>))
<1> SUFFICES ASSUME TypeOK, ~gone PROVE ErrorEvent \in ToSet(Write(<<ErrorEvent>>))
  OBVIOUS
<1>1. PICK z : z = <<ErrorEvent>>
  OBVIOUS
<1>2. z \in Seq(Line) /\ ToSet(z) = {ErrorEvent}
  BY <1>1, ErrorLine, ErrorSet
<1>3. ToSet(Write(z)) = ToSet(sent) \cup ToSet(z)
  BY <1>2, WriteSet
<1> QED
  BY <1>1, <1>2, <1>3


\* Every step leaves a client that stays with an end.
LEMMA AnsweredStep == TypeOK /\ Route /\ Unheard /\ Answered /\ [Next]_vars => Answered'
<1> SUFFICES ASSUME TypeOK /\ Route /\ Unheard /\ Answered, [Next]_vars PROVE Answered'
  OBVIOUS
<1> USE DEF Answered, Route, relay, input, loop
<1>1. ASSUME Hangup PROVE Answered'
  BY <1>1 DEF Hangup
<1>2. ASSUME Blank PROVE Answered'
  BY <1>2 DEF Blank, Reads, Return, Finish
<1>3. ASSUME NEW e \in {"open", "eof", "broken"}, Done(e) PROVE Answered'
  BY <1>3 DEF Done, Reads, Return, Finish
<1>4. ASSUME NEW e \in {"open", "eof", "broken"}, Intercept(e) PROVE Answered'
  BY <1>4 DEF Intercept, Reads, Finish
<1>5. ASSUME NEW e \in {"open", "eof", "broken"}, NEW k \in Chunks,
             Withhold(k, e)
      PROVE  Answered'
  BY <1>5 DEF Withhold, Parses, Reads
<1>6. ASSUME NEW e \in {"open", "eof", "broken"}, NEW k \in Chunks,
             Relay(k, e)
      PROVE  Answered'
  BY <1>6 DEF Relay, Parses, Reads, Finish
<1>7. ASSUME NEW e \in {"eof", "broken"}, End(e) PROVE Answered'
  <2>1. stream' /\ gone' = gone /\ conn' = e
    BY <1>7 DEF End
  <2>2. CASE e = "eof"
    BY <2>1, <2>2
  <2>3. CASE e = "broken"
    <3>1. PICK y \in Seq(Line) : y = buffered \o Report(e) /\ ErrorEvent \in ToSet(y)
      BY <2>3, EndLines DEF TypeOK
    <3>2. sent' = Write(y)
      BY <1>7, <3>1 DEF End, FlushBuffered
    <3>3. ~gone => ToSet(Write(y)) = ToSet(sent) \cup ToSet(y)
      BY WriteSet
    <3>5. ~gone => ErrorEvent \in ToSet(sent')
      BY <3>1, <3>2, <3>3
    <3>4. ~gone' => \E n \in DOMAIN sent' : sent'[n] = ErrorEvent
      BY <2>1, <3>5 DEF ToSet
    <3> QED BY <3>4, ErrorSet
  <2> QED BY <2>2, <2>3
<1>8. ASSUME Exec PROVE Answered'
  BY <1>8 DEF Exec, NewTurn
<1>9. ASSUME RoundAnswers PROVE Answered'
  BY <1>9 DEF RoundAnswers
<1>10. ASSUME RoundRefused PROVE Answered'
  <2>1. sent' = Write(<<ErrorEvent>>) /\ gone' = gone
    BY <1>10 DEF RoundRefused
  <2>2. ~gone => ErrorEvent \in ToSet(sent')
    BY <2>1, ErrorWritten
  <2>3. ~gone' => \E n \in DOMAIN sent' : sent'[n] = ErrorEvent
    BY <2>1, <2>2 DEF ToSet
  <2> QED BY <2>3, ErrorSet
<1>11. ASSUME RoundFails PROVE Answered'
  BY <1>11 DEF RoundFails
<1>12. ASSUME FreshFound PROVE Answered'
  BY <1>12 DEF FreshFound
<1>13. ASSUME FreshFails PROVE Answered'
  <2>1. sent' = Write(<<ErrorEvent>>) /\ gone' = gone
    BY <1>13 DEF FreshFails
  <2>2. ~gone => ErrorEvent \in ToSet(sent')
    BY <2>1, ErrorWritten
  <2>3. ~gone' => \E n \in DOMAIN sent' : sent'[n] = ErrorEvent
    BY <2>1, <2>2 DEF ToSet
  <2> QED BY <2>3, ErrorSet
<1>14. ASSUME BodyBreaks PROVE Answered'
  <2>1. sent' = Write(<<ErrorEvent>>) /\ gone' = gone
    BY <1>14 DEF BodyBreaks
  <2>2. ~gone => ErrorEvent \in ToSet(sent')
    BY <2>1, ErrorWritten
  <2>3. ~gone' => \E n \in DOMAIN sent' : sent'[n] = ErrorEvent
    BY <2>1, <2>2 DEF ToSet
  <2> QED BY <2>3, ErrorSet
<1>15. ASSUME NEW k \in {"text", "search", "client"}, NEW u \in 0 .. 1, NEW ok \in BOOLEAN,
             Body(k, u, ok)
      PROVE  Answered'
  <2>1. PICK x : x = [kind |-> {k}, at |-> 1]
    OBVIOUS
  <2>2. sent = <<>> /\ ~stream' /\ gone' = gone
    BY <1>15 DEF Body, Unheard
  <2>3. pc' = "exec" \/ sent' = Write(<<x>>)
    BY <1>15, <2>1 DEF Body, Finish
  <2>4. ~gone => Write(<<x>>) = <<x>>
    BY <2>2 DEF Write
  <2>5. Len(<<x>>) = 1
    OBVIOUS
  <2> QED BY <2>2, <2>3, <2>4, <2>5
<1>16. ASSUME Ended PROVE Answered'
  BY <1>16 DEF Ended, vars
<1>17. CASE UNCHANGED vars
  BY <1>17 DEF vars
<1> QED
  BY <1>1, <1>2, <1>3, <1>4, <1>5, <1>6, <1>7, <1>8, <1>9, <1>10, <1>11, <1>12, <1>13,
     <1>14, <1>15, <1>16, <1>17
  DEF Next

\* Every step keeps what is billed equal to what was reported.
LEMMA UsageBilledStep == Numbers /\ Unheard /\ UsageBilled /\ [Next]_vars => UsageBilled'
<1> SUFFICES ASSUME Numbers /\ Unheard /\ UsageBilled, [Next]_vars PROVE UsageBilled'
  OBVIOUS
<1> USE DEF UsageBilled, Numbers, relay, input, loop
<1>1. ASSUME Hangup PROVE UsageBilled'
  BY <1>1 DEF Hangup
<1>2. ASSUME Blank PROVE UsageBilled'
  BY <1>2 DEF Blank, Reads, Return, Finish, Billed
<1>3. ASSUME NEW e \in {"open", "eof", "broken"}, Done(e) PROVE UsageBilled'
  BY <1>3 DEF Done, Reads, Return, Finish, Billed
<1>4. ASSUME NEW e \in {"open", "eof", "broken"}, Intercept(e) PROVE UsageBilled'
  BY <1>4 DEF Intercept, Reads, Finish, Billed, LastRound
<1>5. ASSUME NEW e \in {"open", "eof", "broken"}, NEW k \in Chunks,
             Withhold(k, e)
      PROVE  UsageBilled'
  <2>1. usage' \in 0 .. 1 /\ reported' = reported + usage' - usage
    BY <1>5 DEF Withhold, Parses
  <2>2. pc = "read" /\ pc' = pc /\ totalUsage' = totalUsage
    BY <1>5 DEF Withhold, Reads
  <2> QED BY <2>1, <2>2
<1>6. ASSUME NEW e \in {"open", "eof", "broken"}, NEW k \in Chunks,
             Relay(k, e)
      PROVE  UsageBilled'
  <2>1. usage' \in 0 .. 1 /\ reported' = reported + usage' - usage /\ pc = "read"
    BY <1>6 DEF Relay, Parses, Reads
  <2>2. CASE gone
    <3>1. totalUsage' = totalUsage + usage' /\ pc' = "done"
      BY <1>6, <2>2 DEF Relay, Parses, Finish, Billed
    <3> QED BY <2>1, <3>1
  <2>3. CASE ~gone
    <3>1. totalUsage' = totalUsage /\ pc' = pc
      BY <1>6, <2>3 DEF Relay, Parses
    <3> QED BY <2>1, <3>1
  <2> QED BY <2>2, <2>3
<1>7. ASSUME NEW e \in {"eof", "broken"}, End(e) PROVE UsageBilled'
  BY <1>7 DEF End, Return, Finish, Billed
<1>8. ASSUME Exec PROVE UsageBilled'
  BY <1>8 DEF Exec, NewTurn
<1>9. ASSUME RoundAnswers PROVE UsageBilled'
  BY <1>9 DEF RoundAnswers, Unheard
<1>10. ASSUME RoundRefused PROVE UsageBilled'
  BY <1>10 DEF RoundRefused, Finish
<1>11. ASSUME RoundFails PROVE UsageBilled'
  BY <1>11 DEF RoundFails
<1>12. ASSUME FreshFound PROVE UsageBilled'
  BY <1>12 DEF FreshFound
<1>13. ASSUME FreshFails PROVE UsageBilled'
  BY <1>13 DEF FreshFails, Finish
<1>14. ASSUME BodyBreaks PROVE UsageBilled'
  BY <1>14 DEF BodyBreaks, Finish
<1>15. ASSUME NEW k \in {"text", "search", "client"}, NEW u \in 0 .. 1, NEW ok \in BOOLEAN,
             Body(k, u, ok)
      PROVE  UsageBilled'
  BY <1>15 DEF Body, Finish, Billed, LastRound
<1>16. ASSUME Ended PROVE UsageBilled'
  BY <1>16 DEF Ended, vars
<1>17. CASE UNCHANGED vars
  BY <1>17 DEF vars
<1> QED
  BY <1>1, <1>2, <1>3, <1>4, <1>5, <1>6, <1>7, <1>8, <1>9, <1>10, <1>11, <1>12, <1>13,
     <1>14, <1>15, <1>16, <1>17
  DEF Next

-----------------------------------------------------------------------------
(* The theorems                                                            *)

\* The invariant.
Inv ==
  /\ TypeOK /\ Route /\ Unheard /\ Calls
  /\ Numbered /\ Kept /\ Accumulated /\ Relayed /\ Complete
  /\ OnlySearchesKept /\ Answered /\ UsageBilled

\* A request begins with its types right.
LEMMA InitTypes == Init => TypeOK
<1> SUFFICES ASSUME Init PROVE TypeOK
  OBVIOUS
<1>1. Flags
  BY DEF Init, Flags
<1>2. Places
  BY DEF Init, Places
<1>3. Numbers
  BY BoundsAssumption DEF Init, Numbers
<1>4. Lines
  BY DEF Init, Lines
<1> QED
  BY <1>1, <1>2, <1>3, <1>4, TypeParts

\* A request begins with nothing heard.
LEMMA InitInv == Init => Inv
<1> SUFFICES ASSUME Init PROVE Inv
  OBVIOUS
<1>1. /\ heard = <<>> /\ sent = <<>> /\ buffered = <<>>
      /\ accs = [i \in 0 .. 1 |-> "absent"] /\ outcome = "none" /\ ~finishToolCalls
      /\ usage = 0 /\ totalUsage = 0 /\ reported = 0 /\ calls = 1 /\ round = 0
      /\ pc = (IF stream THEN "read" ELSE "body")
  BY DEF Init
<1>2. pc \in {"read", "body"} /\ (pc = "read" => stream) /\ (pc = "body" => ~stream)
  BY <1>1
<1>3. /\ ToSet(heard) = {} /\ ToSet(sent) = {} /\ ToSet(buffered) = {}
      /\ DataOf(heard) = {} /\ DataOf(sent) = {} /\ DataOf(buffered) = {}
      /\ Ordered(sent) /\ Ordered(buffered)
  BY <1>1, FewLines
<1>4. accs[0] = "absent" /\ accs[1] = "absent"
  BY <1>1, TwoCalls
<1>5. Route /\ Unheard
  BY <1>1, <1>2 DEF Route, Unheard
<1>6. Calls
  BY <1>1, <1>2, BoundsAssumption DEF Calls
<1>7. Numbered /\ Kept
  BY <1>3 DEF Numbered, Kept
<1>8. Accumulated
  BY <1>3, <1>4 DEF Accumulated
<1>9. Relayed /\ Complete
  BY <1>1, <1>3 DEF Relayed, Complete, Before
<1>10. OnlySearchesKept /\ Answered
  BY <1>1, <1>2 DEF OnlySearchesKept, Answered
<1>11. UsageBilled
  BY <1>1 DEF UsageBilled
<1> QED
  BY <1>5, <1>6, <1>7, <1>8, <1>9, <1>10, <1>11, InitTypes DEF Inv

\* Every step keeps the invariant.
LEMMA InvStep == Inv /\ [Next]_vars => Inv'
<1> SUFFICES ASSUME Inv, [Next]_vars PROVE Inv'
  OBVIOUS
<1> USE DEF Inv
<1>1. Flags /\ Places /\ Numbers /\ Lines
  BY TypeParts
<1>2. Flags' /\ Places' /\ Numbers' /\ Lines'
  BY <1>1, FlagsStep, PlacesStep, NumbersStep, LinesStep
<1>3. TypeOK'
  BY <1>2 DEF TypeOK, Flags, Places, Numbers, Lines
<1>4. Route' /\ Unheard' /\ Calls'
  BY <1>1, RouteStep, UnheardStep, CallsStep
<1>5. Numbered' /\ Kept' /\ Accumulated'
  BY NumberedStep, KeptStep, AccumulatedStep
<1>6. Relayed' /\ Complete'
  BY RelayedStep, CompleteStep
<1>7. OnlySearchesKept' /\ Answered' /\ UsageBilled'
  BY <1>1, OnlyStep, AnsweredStep, UsageBilledStep
<1> QED
  BY <1>3, <1>4, <1>5, <1>6, <1>7

\* The invariant holds in every behaviour.
THEOREM Invariant == Spec => []Inv
<1>1. Init => Inv
  BY InitInv
<1>2. Inv /\ [Next]_vars => Inv'
  BY InvStep
<1> QED
  BY <1>1, <1>2, PTL DEF Spec

\* The variables of a chat request keep their types, whatever the provider sends.
THEOREM Types == Spec => []TypeOK
<1>1. Inv => TypeOK
  BY DEF Inv
<1> QED
  BY <1>1, Invariant, PTL

\* Sequences with the same chunks in order have the same transcript.
LEMMA SameLines ==
  ASSUME NEW s, NEW t
  PROVE  SameData(s, t) <=> DataOf(s) = DataOf(t) /\ Ordered(s)
BY DEF SameData, DataOf, Ordered

\* handleStreamResponse never loses, repeats or reorders a chunk by withholding
\* it, for turns of any length.
THEOREM TranscriptHolds == Spec => []Transcript
<1>1. Inv => Transcript
  <2> SUFFICES ASSUME Inv, stream, ~gone
               PROVE  /\ pc = "read" => SameData(sent \o buffered, heard)
                      /\ outcome = "ended" => SameData(sent, heard)
    BY DEF Transcript
  <2>1. ASSUME pc = "read" PROVE SameData(sent \o buffered, heard)
    <3>1. /\ Ordered(sent) /\ Ordered(buffered) /\ Before(DataOf(sent), DataOf(buffered))
          /\ DataOf(heard) = DataOf(sent) \cup DataOf(buffered)
      BY <2>1 DEF Inv, Relayed
    <3>2. sent \in Seq(Line) /\ buffered \in Seq(Line)
      BY DEF Inv, TypeOK
    <3>3. PICK u : u = sent \o buffered
      OBVIOUS
    <3>4. DataOf(u) = DataOf(sent) \cup DataOf(buffered) /\ Ordered(u)
      BY <3>1, <3>2, <3>3, ConcatLines
    <3> QED BY <3>1, <3>3, <3>4, SameLines
  <2>2. ASSUME outcome = "ended" PROVE SameData(sent, heard)
    <3>1. Ordered(sent) /\ DataOf(heard) = DataOf(sent)
      BY <2>2 DEF Inv, Complete
    <3> QED BY <3>1, SameLines
  <2> QED BY <2>1, <2>2
<1> QED
  BY <1>1, Invariant, PTL

\* A turn that streamWithToolRounds intercepts keeps only the gateway's own
\* searches from the client.
THEOREM OnlySearchesKeptHolds == Spec => []OnlySearchesKept
<1>1. Inv => OnlySearchesKept
  BY DEF Inv
<1> QED
  BY <1>1, Invariant, PTL

\* Every path out of the round loops leaves a client that stays with an end,
\* but for the two that Answered names.
THEOREM AnsweredHolds == Spec => []Answered
<1>1. Inv => Answered
  BY DEF Inv
<1> QED
  BY <1>1, Invariant, PTL

\* doRound and its fresh proxies cost at most three calls of the provider per
\* round, for any WebSearchMaxRounds.
THEOREM CallBoundHolds == Spec => []CallBound
<1>1. Inv => CallBound
  <2> SUFFICES ASSUME Inv PROVE CallBound
    OBVIOUS
  <2>1. Numbers /\ Places /\ Calls
    BY TypeParts DEF Inv
  <2>2. round \in Nat /\ round <= MaxRounds /\ tries \in 0 .. 2 /\ calls \in Nat
    BY <2>1, BoundsAssumption DEF Numbers
  <2>3. calls <= 1 + 3 * round
    BY <2>1, <2>2 DEF Calls
  <2> QED BY <2>2, <2>3, BoundsAssumption DEF CallBound
<1> QED
  BY <1>1, Invariant, PTL

\* The tokens recorded for the request are those of all its turns, for any
\* number of turns and however they end.
THEOREM UsageBilledHolds == Spec => []UsageBilled
<1>1. Inv => UsageBilled
  BY DEF Inv
<1> QED
  BY <1>1, Invariant, PTL
=============================================================================
