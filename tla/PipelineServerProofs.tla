------------------------ MODULE PipelineServerProofs ------------------------
(***************************************************************************)
(* What holds of the server for every number of runs, clients, questions   *)
(* and events.                                                             *)
(*                                                                         *)
(* Where a stream stands is one number in the code, the place in the       *)
(* history up to which it was read; here it is the length of got.  The     *)
(* invariant behind the theorems of streams says that got and chan cut a   *)
(* first part of the history in two, and what an open channel, a closed    *)
(* one and an ended stream may lack of it.                                 *)
(***************************************************************************)
EXTENDS PipelineServer, SequenceTheorems, TLAPS

-----------------------------------------------------------------------------
(* Types.                                                                  *)

LEMMA TypeInit == Init => TypeOK
  <1> SUFFICES ASSUME Init PROVE TypeOK
    OBVIOUS
  <1> USE DEF Init
  <1> DEFINE Fresh == [at : {"none"}, of : Run, chan : {<< >>}, open : {FALSE},
                       room : {0}, in : {FALSE}, got : {<< >>}]
  <1>1. client \in [Client -> StreamRecord]
    <2>1. Fresh \subseteq StreamRecord
      <3>1. << >> \in Seq(1 .. MaxEvents) /\ 0 \in Nat /\ FALSE \in BOOLEAN /\ "none" \in Streams
        BY DEF Streams
      <3> QED BY <3>1, Zenon DEF StreamRecord
    <2> QED BY <2>1
  <1>2. \A c \in Client : Len(client[c].chan) <= client[c].room
    <2>1. ASSUME NEW c \in Client PROVE client[c].chan = << >> /\ client[c].room = 0
      <3>1. client[c] \in Fresh
        OBVIOUS
      <3> QED BY <3>1
    <2> QED BY <2>1
  <1>3. ask \in [Run -> [Question -> AskRecord]]
    BY DEF AskRecord, Asking
  <1>4. history \in [Run -> 0 .. MaxEvents]
    BY ServerAssumption
  <1> QED BY <1>1, <1>2, <1>3, <1>4 DEF TypeOK, Phases, Stages

Listening(s) == s \in StreamRecord /\ Len(s.chan) <= s.room

\* Sequences of events.
LEMMA History ==
    ASSUME NEW n \in 0 .. MaxEvents
    PROVE  /\ First(n) \in Seq(1 .. MaxEvents)
           /\ Len(First(n)) = n
           /\ \A i \in 1 .. n : First(n)[i] = i
  BY ServerAssumption DEF First

\* Streams after steps.
LEMMA StreamAt ==
    ASSUME NEW s \in StreamRecord, NEW at \in Streams
    PROVE  LET t == [s EXCEPT !.at = at]
           IN  t \in StreamRecord /\ t.chan = s.chan /\ t.room = s.room
  BY DEF StreamRecord

LEMMA StreamClosed ==
    ASSUME NEW s \in StreamRecord
    PROVE  LET t == [s EXCEPT !.open = FALSE, !.in = FALSE]
           IN  t \in StreamRecord /\ t.chan = s.chan /\ t.room = s.room
  BY DEF StreamRecord

LEMMA StreamSent ==
    ASSUME NEW s \in StreamRecord, NEW ev \in 1 .. MaxEvents, Len(s.chan) < s.room
    PROVE  LET t == [s EXCEPT !.chan = Append(@, ev)]
           IN  t \in StreamRecord /\ Len(t.chan) <= t.room
  <1>1. s.chan \in Seq(1 .. MaxEvents) /\ s.room \in Nat
    BY DEF StreamRecord
  <1>2. Append(s.chan, ev) \in Seq(1 .. MaxEvents) /\ Len(Append(s.chan, ev)) = Len(s.chan) + 1
    BY <1>1
  <1>3. Len(s.chan) \in Nat
    BY <1>1
  <1> DEFINE t == [s EXCEPT !.chan = Append(@, ev)]
  <1>4. t \in StreamRecord
    BY <1>2 DEF StreamRecord
  <1>5. t.chan = Append(s.chan, ev) /\ t.room = s.room
    BY DEF StreamRecord
  <1> QED BY <1>1, <1>2, <1>3, <1>4, <1>5

LEMMA StreamRead ==
    ASSUME NEW s \in StreamRecord, s.chan # << >>, Len(s.chan) <= s.room
    PROVE  LET t == [s EXCEPT !.got = Append(@, Head(s.chan)), !.chan = Tail(@)]
           IN  t \in StreamRecord /\ Len(t.chan) <= t.room
  <1>1. s.chan \in Seq(1 .. MaxEvents) /\ s.got \in Seq(1 .. MaxEvents) /\ s.room \in Nat
    BY DEF StreamRecord
  <1>2. Tail(s.chan) \in Seq(1 .. MaxEvents) /\ Len(Tail(s.chan)) = Len(s.chan) - 1
    BY <1>1, HeadTailProperties
  <1>3. Head(s.chan) \in 1 .. MaxEvents
    BY <1>1, HeadTailProperties
  <1>4. Append(s.got, Head(s.chan)) \in Seq(1 .. MaxEvents)
    BY <1>1, <1>3
  <1>5. Len(s.chan) \in Nat
    BY <1>1
  <1> DEFINE t == [s EXCEPT !.got = Append(@, Head(s.chan)), !.chan = Tail(@)]
  <1>6. t \in StreamRecord
    BY <1>2, <1>4 DEF StreamRecord
  <1>7. t.chan = Tail(s.chan) /\ t.room = s.room
    BY DEF StreamRecord
  <1> QED BY <1>1, <1>2, <1>5, <1>6, <1>7

LEMMA StreamBegun ==
    ASSUME NEW s \in StreamRecord, NEW n \in 0 .. MaxEvents, NEW open \in BOOLEAN
    PROVE  LET t == [s EXCEPT !.at = "streaming", !.chan = First(n), !.room = n + Headroom,
                              !.open = open, !.in = open]
           IN  t \in StreamRecord /\ Len(t.chan) <= t.room
  <1>1. First(n) \in Seq(1 .. MaxEvents) /\ Len(First(n)) = n /\ n + Headroom \in Nat
    BY History, ServerAssumption
  <1>2. n <= n + Headroom
    BY ServerAssumption
  <1> QED BY <1>1, <1>2 DEF StreamRecord, Streams

LEMMA TypeStep == TypeOK /\ [Next]_vars => TypeOK'
  <1> SUFFICES ASSUME TypeOK, [Next]_vars PROVE TypeOK'
    OBVIOUS
  <1> USE DEF TypeOK, Up
  <1>a. ASSUME NEW c \in Client, NEW s, client' = [client EXCEPT ![c] = s], Listening(s)
        PROVE  /\ client' \in [Client -> StreamRecord]
               /\ \A d \in Client : Len(client'[d].chan) <= client'[d].room
    BY <1>a DEF Listening
  <1>b. \A c \in Client : Listening(Closed(c))
    <2> SUFFICES ASSUME NEW c \in Client PROVE Listening(Closed(c))
      OBVIOUS
    <2>1. client[c] \in StreamRecord
      OBVIOUS
    <2> QED BY <2>1, StreamClosed DEF Closed, Listening
  <1>c. ASSUME NEW s, Listening(s), NEW at \in Streams PROVE Listening([s EXCEPT !.at = at])
    BY <1>c, StreamAt DEF Listening
  <1>1. ASSUME NEW c \in Client, Subscribe(c) PROVE TypeOK'
    <2> DEFINE r == client[c].of
               s == [client[c] EXCEPT !.at = "streaming", !.chan = First(history[r]),
                        !.room = history[r] + Headroom, !.open = ~doneCh[r], !.in = ~doneCh[r]]
    <2>1. client' = [client EXCEPT ![c] = s]
      BY <1>1 DEF Subscribe, First
    <2>2. r \in Run /\ doneCh[r] \in BOOLEAN /\ history[r] \in 0 .. MaxEvents
      BY DEF StreamRecord
    <2>3. Listening(s)
      BY <2>2, StreamBegun DEF Listening
    <2> QED BY <1>1, <1>a, <2>1, <2>3 DEF Subscribe
  <1>2. ASSUME NEW c \in Client, Write(c) PROVE TypeOK'
    <2> DEFINE s == [client[c] EXCEPT !.got = Append(@, Head(client[c].chan)), !.chan = Tail(@)]
    <2>1. client' = [client EXCEPT ![c] = s]
      BY <1>2 DEF Write
    <2>2. Listening(s)
      BY <1>2, StreamRead DEF Listening, Write
    <2> QED BY <1>2, <1>a, <2>1, <2>2 DEF Write
  <1>3. ASSUME NEW c \in Client, Finish(c) PROVE TypeOK'
    <2>1. \E at \in Streams : client' = [client EXCEPT ![c] = [client[c] EXCEPT !.at = at]]
      BY <1>3 DEF Finish, Streams
    <2>2. PICK at \in Streams : client' = [client EXCEPT ![c] = [client[c] EXCEPT !.at = at]]
      BY <2>1
    <2>3. Listening([client[c] EXCEPT !.at = at])
      BY <1>c DEF Listening
    <2> QED BY <1>3, <1>a, <2>2, <2>3 DEF Finish
  <1>4. ASSUME NEW c \in Client, Leave(c) PROVE TypeOK'
    <2>1. PICK s \in {client[c], Closed(c)} :
              client' = [client EXCEPT ![c] = [s EXCEPT !.at = "left"]]
      BY <1>4 DEF Leave
    <2>2. Listening(s)
      BY <1>b DEF Listening
    <2>3. Listening([s EXCEPT !.at = "left"])
      BY <2>2, <1>c DEF Streams
    <2> QED BY <1>4, <1>a, <2>1, <2>3 DEF Leave
  <1>5. ASSUME NEW r \in Run, Emit(r) PROVE TypeOK'
    <2>1. CASE doneCh[r]
      BY <1>5, <2>1 DEF Emit, Send
    <2>2. CASE ~doneCh[r]
      <3>1. history' = [history EXCEPT ![r] = @ + 1] /\ history[r] + 1 \in 1 .. MaxEvents
        BY <1>5, <2>2, ServerAssumption DEF Emit, Send
      <3>2. ASSUME NEW c \in Client PROVE Listening(client'[c])
        <4>1. CASE client'[c] = client[c]
          BY <4>1 DEF Listening
        <4>2. CASE client'[c] = Closed(c)
          BY <1>b, <4>2
        <4>3. CASE /\ Len(client[c].chan) < client[c].room
                   /\ client'[c] = [client[c] EXCEPT !.chan = Append(@, history[r] + 1)]
          <5>1. client[c] \in StreamRecord
            OBVIOUS
          <5>2. Listening([client[c] EXCEPT !.chan = Append(@, history[r] + 1)])
            BY <3>1, <4>3, <5>1, StreamSent DEF Listening
          <5> QED BY <4>3, <5>2
        <4> QED BY <1>5, <2>2, <4>1, <4>2, <4>3 DEF Emit, Send
      <3>3. client' = [c \in Client |-> client'[c]]
        BY <1>5, <2>2 DEF Emit, Send
      <3> QED BY <1>5, <3>1, <3>2, <3>3 DEF Emit, Listening
    <2> QED BY <2>1, <2>2
  <1>6. ASSUME NEW r \in Run, NEW q \in Question, Asks(r, q) \/ AnswerQuestion(r, q) PROVE TypeOK'
    <2>1. ask[r][q] \in AskRecord
      OBVIOUS
    <2> DEFINE b == ask[r][q]
               After(a) == a \in AskRecord /\ ask' = [ask EXCEPT ![r][q] = a]
    <2>a. ASSUME Ask(r, q) PROVE \E a : After(a)
      <3>1. After([b EXCEPT !.at = "parked", !.in = TRUE])
        BY <2>1, <2>a DEF Ask, AskRecord, Asking
      <3> QED BY <3>1
    <2>b. ASSUME Expire(r, q) PROVE \E a : After(a)
      <3>1. After([b EXCEPT !.expired = TRUE])
        BY <2>1, <2>b DEF Expire, AskRecord
      <3> QED BY <3>1
    <2>c. ASSUME Take(r, q) PROVE \E a : After(a)
      <3>1. \/ After([b EXCEPT !.at = "returning", !.result = "answer", !.full = FALSE])
            \/ After([b EXCEPT !.at = "returning", !.result = "timeout"])
        BY <2>1, <2>c DEF Take, AskRecord, Asking
      <3> QED BY <3>1
    <2>d. ASSUME Forget(r, q) PROVE \E a : After(a)
      <3>1. After([b EXCEPT !.at = "returned", !.in = FALSE])
        BY <2>1, <2>d DEF Forget, AskRecord, Asking
      <3> QED BY <3>1
    <2>e. ASSUME AnswerQuestion(r, q) PROVE \E a : After(a)
      <3> DEFINE a == [b EXCEPT !.full = TRUE, !.in = FALSE, !.taken = b.taken + 1]
      <3>1. b.taken + 1 \in Nat
        BY <2>1 DEF AskRecord
      <3>2. a \in AskRecord
        BY <2>1, <3>1 DEF AskRecord
      <3>3. ask' = [ask EXCEPT ![r][q] = a]
        BY <2>e DEF AnswerQuestion
      <3> HIDE DEF a
      <3> QED BY <3>2, <3>3
    <2>2. \E a : After(a)
      BY <1>6, <2>a, <2>b, <2>c, <2>d, <2>e DEF Asks
    <2>3. ask' \in [Run -> [Question -> AskRecord]]
      BY <2>2
    <2> QED BY <1>6, <2>3 DEF Asks, Ask, Expire, Take, Forget, AnswerQuestion
  <1>7. ASSUME NEW r \in Run, Post(r) PROVE TypeOK'
    BY <1>7 DEF Post
  <1>8. ASSUME NEW r \in Run, Register(r) PROVE TypeOK'
    BY <1>8 DEF Register, Stages
  <1>9. ASSUME NEW r \in Run, SetResult(r) PROVE TypeOK'
    BY <1>9 DEF SetResult, Stages
  <1>10. ASSUME NEW r \in Run, Close(r) PROVE TypeOK'
    <2>1. \A c \in Client : Listening(client'[c])
      BY <1>10, <1>b DEF Close, Listening
    <2>2. client' = [c \in Client |-> client'[c]]
      BY <1>10 DEF Close
    <2> QED BY <1>10, <2>1, <2>2 DEF Close, Stages, Listening
  <1>11. ASSUME NEW r \in Run, CancelPipeline(r) PROVE TypeOK'
    BY <1>11 DEF CancelPipeline
  <1>16. ASSUME NEW r \in Run, CancelInterviewer(r) PROVE TypeOK'
    BY <1>16 DEF CancelInterviewer
  <1>12. CASE CancelAll
    BY <1>12 DEF CancelAll, Phases
  <1>13. CASE Drain \/ Exit
    BY <1>13 DEF Drain, Exit, Phases
  <1>14. CASE Stop
    BY <1>14 DEF Stop, Phases
  <1>15. CASE UNCHANGED vars
    BY <1>15 DEF vars
  <1> QED
    BY <1>1, <1>2, <1>3, <1>4, <1>5, <1>6, <1>7, <1>8, <1>9, <1>10, <1>11, <1>12, <1>13,
       <1>14, <1>15, <1>16 DEF Next

\* TypeOK: a channel never holds more than its capacity.
THEOREM ServerTypeCorrect == Spec => []TypeOK
  BY TypeInit, TypeStep, PTL DEF Spec

-----------------------------------------------------------------------------
(* Streams.                                                                *)

\* What was written and what waits in the channel are a first part of the history.
Cut(got, chan) ==
    /\ \A i \in 1 .. Len(got) : got[i] = i
    /\ \A i \in 1 .. Len(chan) : chan[i] = Len(got) + i

LEMMA CutSent ==
    ASSUME NEW got \in Seq(1 .. MaxEvents), NEW chan \in Seq(1 .. MaxEvents), Cut(got, chan),
           Len(got) + Len(chan) + 1 \in 1 .. MaxEvents
    PROVE  LET more == Append(chan, Len(got) + Len(chan) + 1)
           IN  Cut(got, more) /\ Len(more) = Len(chan) + 1
  <1> DEFINE more == Append(chan, Len(got) + Len(chan) + 1)
  <1>1. Len(more) = Len(chan) + 1 /\ Len(chan) \in Nat /\ Len(got) \in Nat
    OBVIOUS
  <1>2. \A i \in 1 .. Len(chan) : more[i] = chan[i]
    OBVIOUS
  <1>3. more[Len(chan) + 1] = Len(got) + Len(chan) + 1
    OBVIOUS
  <1> HIDE DEF more
  <1>4. \A i \in 1 .. Len(more) : i \in 1 .. Len(chan) \/ i = Len(chan) + 1
    BY <1>1
  <1>5. \A i \in 1 .. Len(more) : more[i] = Len(got) + i
    BY <1>1, <1>2, <1>3, <1>4 DEF Cut
  <1> QED BY <1>1, <1>5 DEF Cut, more

LEMMA CutWritten ==
    ASSUME NEW got \in Seq(1 .. MaxEvents), NEW chan \in Seq(1 .. MaxEvents), Cut(got, chan),
           chan # << >>
    PROVE  LET more == Append(got, Head(chan))
               rest == Tail(chan)
           IN  /\ Cut(more, rest)
               /\ Len(more) = Len(got) + 1 /\ Len(rest) = Len(chan) - 1
  <1> DEFINE more == Append(got, Head(chan))
             rest == Tail(chan)
  <1>0. Len(got) \in Nat /\ Len(chan) \in Nat /\ Len(chan) # 0
    BY EmptySeq, LenProperties
  <1>h. Head(chan) \in 1 .. MaxEvents
    BY HeadTailProperties
  <1>1. /\ Len(got) \in Nat /\ Len(chan) \in Nat \ {0}
        /\ Head(chan) = chan[1] /\ Head(chan) \in 1 .. MaxEvents
    BY <1>0, <1>h
  <1>2. Len(rest) = Len(chan) - 1 /\ \A i \in 1 .. Len(rest) : rest[i] = chan[i + 1]
    BY HeadTailProperties
  <1>3. Len(more) = Len(got) + 1 /\ more[Len(got) + 1] = chan[1]
    BY <1>1
  <1>4. \A i \in 1 .. Len(got) : more[i] = got[i]
    BY <1>1
  <1>5. \A i \in 1 .. Len(more) : i \in 1 .. Len(got) \/ i = Len(got) + 1
    BY <1>1, <1>3
  <1> HIDE DEF more, rest
  <1>6. \A i \in 1 .. Len(more) : more[i] = i
    BY <1>1, <1>3, <1>4, <1>5 DEF Cut
  <1>7. ASSUME NEW i \in 1 .. Len(rest) PROVE rest[i] = Len(more) + i
    <2>1. i + 1 \in 1 .. Len(chan)
      BY <1>1, <1>2
    <2>2. chan[i + 1] = Len(got) + (i + 1)
      BY <2>1 DEF Cut
    <2> QED BY <1>1, <1>2, <1>3, <2>2
  <1> QED BY <1>2, <1>3, <1>6, <1>7 DEF Cut, more, rest

LEMMA CutOfHistory ==
    ASSUME NEW got \in Seq(1 .. MaxEvents), NEW chan \in Seq(1 .. MaxEvents), Cut(got, chan)
    PROVE  LET had == got \o chan
           IN  had = First(Len(had)) /\ Len(had) = Len(got) + Len(chan)
  <1> DEFINE had == got \o chan
  <1>1. /\ had \in Seq(1 .. MaxEvents) /\ Len(had) = Len(got) + Len(chan)
        /\ \A i \in 1 .. Len(had) :
              had[i] = IF i <= Len(got) THEN got[i] ELSE chan[i - Len(got)]
    BY ConcatProperties
  <1>2. Len(got) \in Nat /\ Len(chan) \in Nat
    OBVIOUS
  <1>3. had = [i \in 1 .. Len(had) |-> had[i]]
    BY <1>1, SeqDef, LenProperties
  <1> HIDE DEF had
  <1>4. ASSUME NEW i \in 1 .. Len(had) PROVE had[i] = i
    <2>1. CASE i <= Len(got)
      BY <1>1, <1>2, <2>1 DEF Cut
    <2>2. CASE ~(i <= Len(got))
      <3>1. i - Len(got) \in 1 .. Len(chan)
        BY <1>1, <1>2, <2>2
      <3>2. chan[i - Len(got)] = Len(got) + (i - Len(got))
        BY <3>1 DEF Cut
      <3> QED BY <1>1, <1>2, <2>2, <3>2
    <2> QED BY <2>1, <2>2
  <1>5. had = First(Len(had))
    BY <1>3, <1>4 DEF First
  <1> QED BY <1>1, <1>5 DEF had

\* What is known of a stream s of a run that has n events and is closed if d.
Kept(s, n, d) ==
    /\ Cut(s.got, s.chan)
    /\ s.in = s.open
    /\ s.at # "streaming" => ~s.in
    /\ s.at = "none" => s.got = << >>
    /\ s.in => ~d /\ Len(s.got) + Len(s.chan) = n
    /\ s.at = "streaming" /\ ~s.in =>
         \/ Len(s.got) + Len(s.chan) >= s.room
         \/ d /\ Len(s.got) + Len(s.chan) = n
    /\ s.at = "dropped" => Len(s.got) >= s.room
    /\ s.at = "done" => d /\ (Len(s.got) >= s.room \/ Len(s.got) = n)

LEMMA Lengths ==
    ASSUME NEW s \in StreamRecord
    PROVE  /\ s.got \in Seq(1 .. MaxEvents) /\ s.chan \in Seq(1 .. MaxEvents)
           /\ Len(s.got) \in Nat /\ Len(s.chan) \in Nat /\ s.room \in Nat
           /\ s.in \in BOOLEAN /\ s.open \in BOOLEAN /\ s.at \in Streams
  <1>1. /\ s.got \in Seq(1 .. MaxEvents) /\ s.chan \in Seq(1 .. MaxEvents) /\ s.room \in Nat
        /\ s.in \in BOOLEAN /\ s.open \in BOOLEAN /\ s.at \in Streams
    BY DEF StreamRecord
  <1> QED BY <1>1

LEMMA Sums ==
    \A a, b, c \in Nat :
        /\ ~(b < c) => a + b >= c
        /\ (a + 1) + (b - 1) = a + b
        /\ a + (b + 1) = (a + b) + 1
  OBVIOUS

\* A subscription
LEMMA KeptBegun ==
    ASSUME NEW s \in StreamRecord, NEW n \in 0 .. MaxEvents, NEW d \in BOOLEAN,
           s.got = << >>
    PROVE  Kept([s EXCEPT !.at = "streaming", !.chan = First(n), !.room = n + Headroom,
                          !.open = ~d, !.in = ~d], n, d)
  <1> DEFINE t == [s EXCEPT !.at = "streaming", !.chan = First(n), !.room = n + Headroom,
                            !.open = ~d, !.in = ~d]
  <1>1. /\ t.at = "streaming" /\ t.chan = First(n) /\ t.got = << >>
        /\ t.in = ~d /\ t.open = ~d
    BY DEF StreamRecord
  <1>2. Len(First(n)) = n /\ \A i \in 1 .. n : First(n)[i] = i
    BY History
  <1>3. Len(<< >>) = 0 /\ n \in Nat
    BY ServerAssumption
  <1>4. Cut(t.got, t.chan)
    BY <1>1, <1>2, <1>3 DEF Cut
  <1>5. Len(t.got) + Len(t.chan) = n
    BY <1>1, <1>2, <1>3
  <1> HIDE DEF t
  <1>6. Kept(t, n, d)
    BY <1>1, <1>4, <1>5 DEF Kept
  <1> QED BY <1>6 DEF t

\* An event is written to the response.
LEMMA KeptWritten ==
    ASSUME NEW s \in StreamRecord, NEW n \in 0 .. MaxEvents, NEW d \in BOOLEAN, Kept(s, n, d),
           s.at = "streaming", s.chan # << >>
    PROVE  Kept([s EXCEPT !.got = Append(@, Head(s.chan)), !.chan = Tail(@)], n, d)
  <1> DEFINE t == [s EXCEPT !.got = Append(@, Head(s.chan)), !.chan = Tail(@)]
  <1>1. /\ t.got = Append(s.got, Head(s.chan)) /\ t.chan = Tail(s.chan)
        /\ t.at = s.at /\ t.in = s.in /\ t.open = s.open /\ t.room = s.room
    BY DEF StreamRecord
  <1>2. Cut(s.got, s.chan)
    BY DEF Kept
  <1>3. /\ Cut(t.got, t.chan)
        /\ Len(t.got) = Len(s.got) + 1 /\ Len(t.chan) = Len(s.chan) - 1
    BY <1>1, <1>2, Lengths, CutWritten
  <1>l. Len(s.got) \in Nat /\ Len(s.chan) \in Nat
    BY Lengths
  <1> HIDE DEF t
  <1>4. Len(t.got) + Len(t.chan) = Len(s.got) + Len(s.chan)
    BY <1>3, <1>l, Sums, Zenon
  <1>5. Kept(t, n, d)
    BY <1>1, <1>3, <1>4 DEF Kept
  <1> QED BY <1>5 DEF t

\* The stream ends, or its reader leaves.
LEMMA KeptEnded ==
    ASSUME NEW s \in StreamRecord, NEW n \in 0 .. MaxEvents, NEW d \in BOOLEAN, Kept(s, n, d),
           s.at = "streaming"
    PROVE  /\ s.chan = << >> /\ ~s.open =>
                Kept([s EXCEPT !.at = IF d THEN "done" ELSE "dropped"], n, d)
           /\ ~s.in => Kept([s EXCEPT !.at = "left"], n, d)
           /\ Kept([[s EXCEPT !.open = FALSE, !.in = FALSE] EXCEPT !.at = "left"], n, d)
  <1>1. ASSUME s.chan = << >>, ~s.open
        PROVE  Kept([s EXCEPT !.at = IF d THEN "done" ELSE "dropped"], n, d)
    <2> DEFINE t == [s EXCEPT !.at = IF d THEN "done" ELSE "dropped"]
    <2>1. /\ t.at = IF d THEN "done" ELSE "dropped"
          /\ t.got = s.got /\ t.chan = s.chan /\ t.in = s.in /\ t.open = s.open
          /\ t.room = s.room
      BY DEF StreamRecord
    <2>2. Len(s.got) + Len(s.chan) = Len(s.got)
      BY <1>1, Lengths
    <2> HIDE DEF t
    <2>3. Kept(t, n, d)
      BY <1>1, <2>1, <2>2, Lengths DEF Kept
    <2> QED BY <2>3 DEF t
  <1>2. ASSUME ~s.in PROVE Kept([s EXCEPT !.at = "left"], n, d)
    <2> DEFINE t == [s EXCEPT !.at = "left"]
    <2>1. /\ t.at = "left" /\ t.got = s.got /\ t.chan = s.chan
          /\ t.in = s.in /\ t.open = s.open
      BY DEF StreamRecord
    <2> HIDE DEF t
    <2>2. Kept(t, n, d)
      BY <1>2, <2>1 DEF Kept
    <2> QED BY <2>2 DEF t
  <1>3. Kept([[s EXCEPT !.open = FALSE, !.in = FALSE] EXCEPT !.at = "left"], n, d)
    <2> DEFINE t == [[s EXCEPT !.open = FALSE, !.in = FALSE] EXCEPT !.at = "left"]
    <2>1. /\ t.at = "left" /\ t.got = s.got /\ t.chan = s.chan
          /\ t.in = FALSE /\ t.open = FALSE
      BY DEF StreamRecord
    <2> HIDE DEF t
    <2>2. Kept(t, n, d)
      BY <2>1 DEF Kept
    <2> QED BY <2>2 DEF t
  <1> QED BY <1>1, <1>2, <1>3

\* An event is sent to a subscriber that has room, to one that has none, and to
\* the others.
LEMMA KeptSent ==
    ASSUME NEW s \in StreamRecord, NEW n \in 0 .. MaxEvents, n + 1 \in 1 .. MaxEvents,
           Kept(s, n, FALSE)
    PROVE  /\ s.in => Kept([s EXCEPT !.chan = Append(@, n + 1)], n + 1, FALSE)
           /\ s.in /\ ~(Len(s.chan) < s.room) =>
                Kept([s EXCEPT !.open = FALSE, !.in = FALSE], n + 1, FALSE)
           /\ ~s.in => Kept(s, n + 1, FALSE)
  <1>1. ASSUME s.in PROVE Kept([s EXCEPT !.chan = Append(@, n + 1)], n + 1, FALSE)
    <2> DEFINE t == [s EXCEPT !.chan = Append(@, n + 1)]
    <2>1. /\ t.chan = Append(s.chan, n + 1) /\ t.got = s.got
          /\ t.at = s.at /\ t.in = s.in /\ t.open = s.open /\ t.room = s.room
      BY DEF StreamRecord
    <2>2. Cut(s.got, s.chan) /\ Len(s.got) + Len(s.chan) = n /\ s.at = "streaming"
      BY <1>1 DEF Kept
    <2>l. /\ s.got \in Seq(1 .. MaxEvents) /\ s.chan \in Seq(1 .. MaxEvents)
          /\ Len(s.got) \in Nat /\ Len(s.chan) \in Nat
      BY Lengths
    <2> HIDE DEF t
    <2>3. Cut(t.got, t.chan) /\ Len(t.chan) = Len(s.chan) + 1
      <3>1. Len(s.got) + Len(s.chan) + 1 \in 1 .. MaxEvents
        BY <2>2
      <3>2. /\ Cut(s.got, Append(s.chan, Len(s.got) + Len(s.chan) + 1))
            /\ Len(Append(s.chan, Len(s.got) + Len(s.chan) + 1)) = Len(s.chan) + 1
        BY <2>2, <2>l, <3>1, CutSent
      <3> QED BY <2>1, <2>2, <3>2, Zenon
    <2>4. Len(t.got) + Len(t.chan) = n + 1
      <3>1. Len(s.got) + (Len(s.chan) + 1) = (Len(s.got) + Len(s.chan)) + 1
        BY <2>l, Sums
      <3>2. Len(t.got) + Len(t.chan) = Len(s.got) + (Len(s.chan) + 1)
        BY <2>1, <2>3, Zenon
      <3> QED BY <2>2, <3>1, <3>2, Zenon
    <2>5. Kept(t, n + 1, FALSE)
      BY <1>1, <2>1, <2>2, <2>3, <2>4 DEF Kept
    <2> QED BY <2>5 DEF t
  <1>2. ASSUME s.in, ~(Len(s.chan) < s.room)
        PROVE  Kept([s EXCEPT !.open = FALSE, !.in = FALSE], n + 1, FALSE)
    <2> DEFINE t == [s EXCEPT !.open = FALSE, !.in = FALSE]
    <2>1. /\ t.at = s.at /\ t.got = s.got /\ t.chan = s.chan /\ t.room = s.room
          /\ t.in = FALSE /\ t.open = FALSE
      BY DEF StreamRecord
    <2>l. Len(s.got) \in Nat /\ Len(s.chan) \in Nat /\ s.room \in Nat
      BY Lengths
    <2>2. s.at = "streaming" /\ Len(s.got) + Len(s.chan) >= s.room
      <3>1. s.at = "streaming"
        BY <1>2 DEF Kept
      <3> QED BY <1>2, <2>l, <3>1, Sums, Zenon
    <2> HIDE DEF t
    <2>3. Kept(t, n + 1, FALSE)
      BY <2>1, <2>2 DEF Kept
    <2> QED BY <2>3 DEF t
  <1>3. ASSUME ~s.in PROVE Kept(s, n + 1, FALSE)
    BY <1>3 DEF Kept
  <1> QED BY <1>1, <1>2, <1>3

\* The broadcaster is closed.
LEMMA KeptClosed ==
    ASSUME NEW s \in StreamRecord, NEW n \in 0 .. MaxEvents, Kept(s, n, FALSE)
    PROVE  /\ s.in => Kept([s EXCEPT !.open = FALSE, !.in = FALSE], n, TRUE)
           /\ ~s.in => Kept(s, n, TRUE)
  <1>1. ASSUME s.in PROVE Kept([s EXCEPT !.open = FALSE, !.in = FALSE], n, TRUE)
    <2> DEFINE t == [s EXCEPT !.open = FALSE, !.in = FALSE]
    <2>1. /\ t.at = s.at /\ t.got = s.got /\ t.chan = s.chan /\ t.room = s.room
          /\ t.in = FALSE /\ t.open = FALSE
      BY DEF StreamRecord
    <2>2. s.at = "streaming" /\ Len(s.got) + Len(s.chan) = n
      BY <1>1 DEF Kept
    <2> HIDE DEF t
    <2>3. Kept(t, n, TRUE)
      BY <2>1, <2>2 DEF Kept
    <2> QED BY <2>3 DEF t
  <1>2. ASSUME ~s.in PROVE Kept(s, n, TRUE)
    BY <1>2 DEF Kept
  <1> QED BY <1>1, <1>2

StreamInv ==
    /\ \A c \in Client : Kept(client[c], history[client[c].of], doneCh[client[c].of])
    /\ \A r \in Run : doneCh[r] => run[r] = "closed"

LEMMA StreamInit == Init => StreamInv
  <1> SUFFICES ASSUME Init PROVE StreamInv
    OBVIOUS
  <1>1. ASSUME NEW c \in Client
        PROVE  Kept(client[c], history[client[c].of], doneCh[client[c].of])
    <2> DEFINE s == client[c]
    <2>1. /\ s.at = "none" /\ s.got = << >> /\ s.chan = << >>
          /\ s.in = FALSE /\ s.open = FALSE
      <3>1. s \in [at : {"none"}, of : Run, chan : {<< >>}, open : {FALSE},
                   room : {0}, in : {FALSE}, got : {<< >>}]
        BY DEF Init
      <3> QED BY <3>1
    <2>2. Cut(<< >>, << >>)
      BY DEF Cut
    <2> HIDE DEF s
    <2>3. Kept(s, history[s.of], doneCh[s.of])
      BY <2>1, <2>2 DEF Kept
    <2> QED BY <2>3 DEF s
  <1> QED BY <1>1 DEF StreamInv, Init

LEMMA StreamStep == TypeOK /\ StreamInv /\ [Next]_vars => StreamInv'
  <1> SUFFICES ASSUME TypeOK, StreamInv, [Next]_vars PROVE StreamInv'
    OBVIOUS
  <1>t. /\ client \in [Client -> StreamRecord] /\ run \in [Run -> Stages]
        /\ history \in [Run -> 0 .. MaxEvents] /\ doneCh \in [Run -> BOOLEAN]
    BY DEF TypeOK
  <1>k. ASSUME NEW c \in Client
        PROVE  /\ client[c] \in StreamRecord /\ client[c].of \in Run
               /\ Kept(client[c], history[client[c].of], doneCh[client[c].of])
    BY <1>t DEF StreamInv, StreamRecord
  <1>u. ASSUME UNCHANGED <<client, history, doneCh>>,
               \A r \in Run : run[r] = "closed" => run'[r] = "closed"
        PROVE  StreamInv'
    BY <1>u DEF StreamInv
  \* One stream moves.
  <1>c. ASSUME NEW c \in Client, NEW s, client' = [client EXCEPT ![c] = s],
               s.of = client[c].of, Kept(s, history[client[c].of], doneCh[client[c].of]),
               UNCHANGED <<run, history, doneCh>>
        PROVE  StreamInv'
    <2>1. ASSUME NEW d \in Client
          PROVE  Kept(client[d], history[client[d].of], doneCh[client[d].of])'
      <3>1. CASE d = c
        <4>1. client'[d] = s
          BY <1>c, <1>t, <3>1
        <4> QED BY <1>c, <3>1, <4>1 DEF Kept
      <3>2. CASE d # c
        <4>1. client'[d] = client[d]
          BY <1>c, <1>t, <3>2
        <4> QED BY <1>c, <1>k, <4>1 DEF Kept
      <3> QED BY <3>1, <3>2
    <2> QED BY <1>c, <2>1 DEF StreamInv
  <1>1. ASSUME NEW c \in Client, Subscribe(c) PROVE StreamInv'
    <2> DEFINE r == client[c].of
               s == [client[c] EXCEPT !.at = "streaming", !.chan = First(history[r]),
                        !.room = history[r] + Headroom, !.open = ~doneCh[r], !.in = ~doneCh[r]]
    <2>1. client' = [client EXCEPT ![c] = s]
      BY <1>1 DEF Subscribe, First
    <2>2. r \in Run /\ doneCh[r] \in BOOLEAN /\ history[r] \in 0 .. MaxEvents
      BY <1>k, <1>t
    <2>3. client[c].got = << >>
      BY <1>1, <1>k DEF Subscribe, Kept
    <2>4. Kept(s, history[r], doneCh[r])
      BY <1>k, <2>2, <2>3, KeptBegun
    <2>5. s.of = r
      BY <1>k DEF StreamRecord
    <2> HIDE DEF s
    <2> QED BY <1>1, <1>c, <2>1, <2>4, <2>5 DEF Subscribe
  <1>2. ASSUME NEW c \in Client, Write(c) PROVE StreamInv'
    <2> DEFINE s == [client[c] EXCEPT !.got = Append(@, Head(client[c].chan)), !.chan = Tail(@)]
    <2>1. client' = [client EXCEPT ![c] = s]
      BY <1>2 DEF Write
    <2>2. Kept(s, history[client[c].of], doneCh[client[c].of])
      <3>1. client[c].at = "streaming" /\ client[c].chan # << >>
        BY <1>2 DEF Write
      <3> QED BY <1>k, <1>t, <3>1, KeptWritten
    <2>3. s.of = client[c].of
      BY <1>k DEF StreamRecord
    <2> HIDE DEF s
    <2> QED BY <1>2, <1>c, <2>1, <2>2, <2>3 DEF Write
  <1>3. ASSUME NEW c \in Client, Finish(c) PROVE StreamInv'
    <2> DEFINE s == [client[c] EXCEPT !.at = IF doneCh[client[c].of] THEN "done" ELSE "dropped"]
    <2>1. client' = [client EXCEPT ![c] = s]
      BY <1>3 DEF Finish
    <2>2. Kept(s, history[client[c].of], doneCh[client[c].of])
      <3>1. client[c].at = "streaming" /\ client[c].chan = << >> /\ ~client[c].open
        BY <1>3 DEF Finish
      <3>2. history[client[c].of] \in 0 .. MaxEvents /\ doneCh[client[c].of] \in BOOLEAN
        BY <1>k, <1>t
      <3> QED BY <1>k, <3>1, <3>2, KeptEnded
    <2>3. s.of = client[c].of
      BY <1>k DEF StreamRecord
    <2> HIDE DEF s
    <2> QED BY <1>3, <1>c, <2>1, <2>2, <2>3 DEF Finish
  <1>4. ASSUME NEW c \in Client, Leave(c) PROVE StreamInv'
    <2> DEFINE shut == [[client[c] EXCEPT !.open = FALSE, !.in = FALSE] EXCEPT !.at = "left"]
               gone == [client[c] EXCEPT !.at = "left"]
    <2>1. client[c].at = "streaming"
      BY <1>4 DEF Leave
    <2>2. /\ Kept(shut, history[client[c].of], doneCh[client[c].of])
          /\ ~client[c].in => Kept(gone, history[client[c].of], doneCh[client[c].of])
      BY <1>k, <1>t, <2>1, KeptEnded
    <2>3. shut.of = client[c].of /\ gone.of = client[c].of
      BY <1>k DEF StreamRecord
    <2>4. \/ client' = [client EXCEPT ![c] = shut]
          \/ client' = [client EXCEPT ![c] = gone] /\ ~client[c].in
      BY <1>4 DEF Leave, Closed
    <2> HIDE DEF shut, gone
    <2> QED BY <1>4, <1>c, <2>2, <2>3, <2>4 DEF Leave
  <1>5. ASSUME NEW r \in Run, Emit(r) PROVE StreamInv'
    <2>1. CASE doneCh[r]
      BY <1>5, <2>1, <1>u DEF Emit, Send
    <2>2. CASE ~doneCh[r]
      <3>1. /\ history' = [history EXCEPT ![r] = history[r] + 1]
            /\ history[r] + 1 \in 1 .. MaxEvents /\ history[r] \in 0 .. MaxEvents
        BY <1>5, <1>t, <2>2, ServerAssumption DEF Emit, Send
      <3>2. ASSUME NEW c \in Client
            PROVE  Kept(client[c], history[client[c].of], doneCh[client[c].of])'
        <4> DEFINE s == client[c]
                   t == client'[c]
        <4>1. s \in StreamRecord /\ s.of \in Run /\ Kept(s, history[s.of], doneCh[s.of])
          BY <1>k
        <4>2. CASE s.of # r
          <5>1. t = s
            BY <1>5, <2>2, <4>2 DEF Emit, Send, Subscribers
          <5>2. history'[s.of] = history[s.of] /\ doneCh' = doneCh
            BY <1>5, <1>t, <3>1, <4>1, <4>2 DEF Emit
          <5> QED BY <4>1, <5>1, <5>2 DEF Kept
        <4>3. CASE s.of = r
          <5> DEFINE more == [s EXCEPT !.chan = Append(@, history[r] + 1)]
                     shut == [s EXCEPT !.open = FALSE, !.in = FALSE]
          <5>1. doneCh[s.of] = FALSE /\ Kept(s, history[r], FALSE)
            BY <1>t, <2>2, <4>1, <4>3
          <5>2. /\ s.in => Kept(more, history[r] + 1, FALSE)
                /\ s.in /\ ~(Len(s.chan) < s.room) => Kept(shut, history[r] + 1, FALSE)
                /\ ~s.in => Kept(s, history[r] + 1, FALSE)
            BY <3>1, <4>1, <5>1, KeptSent
          <5>3. more.of = r /\ shut.of = r
            BY <4>1, <4>3 DEF StreamRecord
          <5>4. \/ s.in /\ t = more
                \/ s.in /\ ~(Len(s.chan) < s.room) /\ t = shut
                \/ ~s.in /\ t = s
            BY <1>5, <2>2, <4>3 DEF Emit, Send, Subscribers, Closed
          <5>5. Kept(t, history[r] + 1, FALSE) /\ t.of = r
            <6> HIDE DEF more, shut, s, t
            <6> QED BY <4>3, <5>2, <5>3, <5>4
          <5>6. history'[r] = history[r] + 1 /\ doneCh'[r] = FALSE
            BY <1>5, <1>t, <2>2, <3>1 DEF Emit
          <5> QED BY <5>5, <5>6 DEF Kept
        <4> QED BY <4>2, <4>3
      <3> QED BY <1>5, <3>2 DEF StreamInv, Emit
    <2> QED BY <2>1, <2>2
  <1>6. ASSUME NEW r \in Run, NEW q \in Question, Asks(r, q) \/ AnswerQuestion(r, q)
        PROVE  StreamInv'
    BY <1>6, <1>u DEF Asks, Ask, Expire, Take, Forget, AnswerQuestion
  <1>7. ASSUME NEW r \in Run, Post(r) \/ CancelPipeline(r) \/ CancelInterviewer(r)
        PROVE  StreamInv'
    BY <1>7, <1>u DEF Post, CancelPipeline, CancelInterviewer
  <1>8. ASSUME NEW r \in Run, Register(r) PROVE StreamInv'
    <2>1. \A p \in Run : run[p] = "closed" => run'[p] = "closed"
      BY <1>8, <1>t DEF Register, Registered
    <2> QED BY <1>8, <1>u, <2>1 DEF Register
  <1>9. ASSUME NEW r \in Run, SetResult(r) PROVE StreamInv'
    <2>1. \A p \in Run : run[p] = "closed" => run'[p] = "closed"
      BY <1>9, <1>t DEF SetResult
    <2> QED BY <1>9, <1>u, <2>1 DEF SetResult
  <1>10. ASSUME NEW r \in Run, Close(r) PROVE StreamInv'
    <2>1. doneCh[r] = FALSE
      BY <1>10, <1>t DEF Close, StreamInv
    <2>2. ASSUME NEW c \in Client
          PROVE  Kept(client[c], history[client[c].of], doneCh[client[c].of])'
      <3> DEFINE s == client[c]
                 t == client'[c]
      <3>1. s \in StreamRecord /\ s.of \in Run /\ Kept(s, history[s.of], doneCh[s.of])
        BY <1>k
      <3>2. CASE s.of # r
        <4>1. t = s
          BY <1>10, <3>2 DEF Close, Subscribers
        <4>2. history' = history /\ doneCh'[s.of] = doneCh[s.of]
          BY <1>10, <1>t, <3>1, <3>2 DEF Close
        <4> QED BY <3>1, <4>1, <4>2 DEF Kept
      <3>3. CASE s.of = r
        <4> DEFINE shut == [s EXCEPT !.open = FALSE, !.in = FALSE]
        <4>1. Kept(s, history[r], FALSE) /\ history[r] \in 0 .. MaxEvents
          BY <1>t, <2>1, <3>1, <3>3
        <4>2. /\ s.in => Kept(shut, history[r], TRUE)
              /\ ~s.in => Kept(s, history[r], TRUE)
          BY <3>1, <4>1, KeptClosed
        <4>3. shut.of = r
          BY <3>1, <3>3 DEF StreamRecord
        <4>4. IF s.in THEN t = shut ELSE t = s
          BY <1>10, <3>3 DEF Close, Subscribers, Closed
        <4>5. Kept(t, history[r], TRUE) /\ t.of = r
          <5> HIDE DEF shut, s, t
          <5> QED BY <3>3, <4>2, <4>3, <4>4
        <4>6. history' = history /\ doneCh'[r] = TRUE
          BY <1>10, <1>t DEF Close
        <4> QED BY <4>5, <4>6 DEF Kept
      <3> QED BY <3>2, <3>3
    <2>3. \A p \in Run : doneCh'[p] => run'[p] = "closed"
      BY <1>10, <1>t DEF Close, StreamInv
    <2> QED BY <2>2, <2>3 DEF StreamInv
  <1>11. CASE CancelAll \/ Drain \/ Stop \/ Exit
    BY <1>11, <1>u DEF CancelAll, Drain, Stop, Exit
  <1>12. CASE UNCHANGED vars
    BY <1>12, <1>u DEF vars
  <1> QED
    BY <1>1, <1>2, <1>3, <1>4, <1>5, <1>6, <1>7, <1>8, <1>9, <1>10, <1>11, <1>12 DEF Next

LEMMA StreamsHold == Spec => [](TypeOK /\ StreamInv)
  <1>1. Init => TypeOK /\ StreamInv
    BY TypeInit, StreamInit
  <1>2. TypeOK /\ StreamInv /\ [Next]_vars => (TypeOK /\ StreamInv)'
    BY TypeStep, StreamStep
  <1> QED BY <1>1, <1>2, PTL DEF Spec

\* ClientsAreOpen: nothing sends on a closed channel or closes one twice.
THEOREM SubscribersAreOpen == Spec => []ClientsAreOpen
  <1>1. StreamInv => ClientsAreOpen
    BY DEF StreamInv, Kept, ClientsAreOpen
  <1> QED BY <1>1, StreamsHold, PTL

\* StreamInOrder: replay and live events together are a first part of the
\* history, and all of it while the client is subscribed.
THEOREM StreamsAreInOrder == Spec => []StreamInOrder
  <1>1. TypeOK /\ StreamInv => StreamInOrder
    <2> SUFFICES ASSUME TypeOK, StreamInv, NEW c \in Client
                 PROVE  LET had == client[c].got \o client[c].chan
                        IN  /\ had = First(Len(had))
                            /\ client[c].in => Len(had) = history[client[c].of]
      BY DEF StreamInOrder
    <2>1. client[c] \in StreamRecord
      BY DEF TypeOK
    <2>2. Kept(client[c], history[client[c].of], doneCh[client[c].of])
      BY DEF StreamInv
    <2>3. Cut(client[c].got, client[c].chan)
      BY <2>2 DEF Kept
    <2> DEFINE had == client[c].got \o client[c].chan
    <2>4. had = First(Len(had)) /\ Len(had) = Len(client[c].got) + Len(client[c].chan)
      BY <2>1, <2>3, Lengths, CutOfHistory
    <2> HIDE DEF had
    <2>5. client[c].in => Len(had) = history[client[c].of]
      BY <2>2, <2>4 DEF Kept
    <2> QED BY <2>4, <2>5 DEF had
  <1> QED BY <1>1, StreamsHold, PTL

\* EndedStreams: a stream that ended lacks an event only for a client that was
\* too slow, and "done" is said of a run that has its result.
THEOREM StreamsEndAsPromised == Spec => []EndedStreams
  <1>1. TypeOK /\ StreamInv => EndedStreams
    <2> SUFFICES ASSUME TypeOK, StreamInv, NEW c \in Client,
                        client[c].at \in {"done", "dropped"}
                 PROVE  /\ \/ Len(client[c].got) >= client[c].room
                           \/ /\ client[c].at = "done"
                              /\ Len(client[c].got) = history[client[c].of]
                        /\ client[c].at = "done" => run[client[c].of] \in {"result", "closed"}
      BY DEF EndedStreams
    <2>1. client[c].of \in Run
      BY DEF TypeOK, StreamRecord
    <2>2. Kept(client[c], history[client[c].of], doneCh[client[c].of])
      BY DEF StreamInv
    <2>3. doneCh[client[c].of] => run[client[c].of] = "closed"
      BY <2>1 DEF StreamInv
    <2> QED BY <2>2, <2>3 DEF Kept
  <1> QED BY <1>1, StreamsHold, PTL

-----------------------------------------------------------------------------
(* Questions.                                                              *)

\* What is known of a question while it is asked, and that a run that is over
\* asks none.
Known(r, a) ==
    /\ a.in => a.at \in {"parked", "returning"} /\ a.taken = 0
    /\ a.full => a.taken = 1
    /\ a.at = "none" => a.taken = 0
    /\ a.taken <= 1
    /\ a.result = "answer" => a.taken = 1
    /\ run[r] \in {"result", "closed"} => a.at \in {"none", "returned"}

QuestionInv == \A r \in Run : \A q \in Question : Known(r, ask[r][q])

LEMMA QuestionStep == TypeOK /\ QuestionInv /\ [Next]_vars => QuestionInv'
  <1> SUFFICES ASSUME TypeOK, QuestionInv, [Next]_vars PROVE QuestionInv'
    OBVIOUS
  <1>t. ask \in [Run -> [Question -> AskRecord]] /\ run \in [Run -> Stages]
    BY DEF TypeOK
  <1>1. ASSUME UNCHANGED ask,
               \A r \in Run : run'[r] \in {"result", "closed"} =>
                  \A q \in Question : ask[r][q].at \in {"none", "returned"}
        PROVE  QuestionInv'
    BY <1>1 DEF QuestionInv, Known
  <1>2. ASSUME UNCHANGED <<ask, run>> PROVE QuestionInv'
    BY <1>2 DEF QuestionInv, Known
  <1>3. ASSUME NEW r \in Run, NEW q \in Question, Asks(r, q) \/ AnswerQuestion(r, q)
        PROVE  QuestionInv'
    <2> DEFINE b == ask[r][q]
               After(a) == ask' = [ask EXCEPT ![r][q] = a] /\ Known(r, a)
    <2>1. b \in AskRecord /\ Known(r, b) /\ run' = run
      BY <1>3, <1>t DEF QuestionInv, Asks, Ask, Expire, Take, Forget, AnswerQuestion
    <2>2. ASSUME Ask(r, q) PROVE \E a : After(a)
      <3>1. After([b EXCEPT !.at = "parked", !.in = TRUE])
        BY <2>1, <2>2 DEF Ask, Known, AskRecord
      <3> QED BY <3>1
    <2>3. ASSUME Expire(r, q) PROVE \E a : After(a)
      <3>1. After([b EXCEPT !.expired = TRUE])
        BY <2>1, <2>3 DEF Expire, Known, AskRecord
      <3> QED BY <3>1
    <2>4. ASSUME Take(r, q) PROVE \E a : After(a)
      <3>1. \/ After([b EXCEPT !.at = "returning", !.result = "answer", !.full = FALSE])
            \/ After([b EXCEPT !.at = "returning", !.result = "timeout"])
        BY <2>1, <2>4 DEF Take, Known, AskRecord
      <3> QED BY <3>1
    <2>5. ASSUME Forget(r, q) PROVE \E a : After(a)
      <3>1. After([b EXCEPT !.at = "returned", !.in = FALSE])
        BY <2>1, <2>5 DEF Forget, Known, AskRecord
      <3> QED BY <3>1
    <2>6. ASSUME AnswerQuestion(r, q) PROVE \E a : After(a)
      <3>1. b.in /\ b.taken = 0
        BY <2>1, <2>6 DEF AnswerQuestion, Known
      <3> DEFINE a == [b EXCEPT !.full = TRUE, !.in = FALSE, !.taken = b.taken + 1]
      <3>2. a.taken = 1 /\ ~a.in /\ a.at = b.at /\ a.result = b.result
        BY <2>1, <3>1 DEF AskRecord
      <3>0. b.in => b.at \in {"parked", "returning"}
        BY <2>1 DEF Known
      <3>r. b.result = "answer" => b.taken = 1
        BY <2>1 DEF Known
      <3>s. run[r] \in {"result", "closed"} => b.at \in {"none", "returned"}
        BY <2>1 DEF Known
      <3>3. Known(r, a)
        BY <3>0, <3>r, <3>s, <3>1, <3>2 DEF Known
      <3>4. ask' = [ask EXCEPT ![r][q] = a]
        BY <2>6 DEF AnswerQuestion
      <3> HIDE DEF a
      <3> QED BY <3>3, <3>4
    <2>7. \E a : After(a)
      BY <1>3, <2>2, <2>3, <2>4, <2>5, <2>6 DEF Asks
    <2> HIDE DEF After
    <2>8. PICK a : After(a)
      BY <2>7
    <2>9. \A p \in Run : \A k \in Question : ask'[p][k] = IF p = r /\ k = q THEN a ELSE ask[p][k]
      BY <1>t, <2>8 DEF After
    <2> QED BY <2>1, <2>8, <2>9 DEF After, QuestionInv, Known
  <1>4. ASSUME NEW r \in Run, Register(r) PROVE QuestionInv'
    BY <1>1, <1>4, <1>t DEF Register, QuestionInv, Known
  <1>5. ASSUME NEW r \in Run, SetResult(r) PROVE QuestionInv'
    BY <1>1, <1>5, <1>t DEF SetResult, QuestionInv, Known
  <1>6. ASSUME NEW r \in Run, Close(r) PROVE QuestionInv'
    BY <1>1, <1>6, <1>t DEF Close, QuestionInv, Known
  <1> QED
    BY <1>2, <1>3, <1>4, <1>5, <1>6
    DEF Next, vars, Subscribe, Write, Finish, Leave, Post, Emit, CancelPipeline,
        CancelInterviewer, CancelAll, Drain, Stop, Exit

\* QuestionsSettle: no question takes a second answer or one after Ask returned,
\* and a run that is over leaves none pending.
THEOREM QuestionsAreSettled == Spec => []QuestionsSettle
  <1>0. Init => QuestionInv
    BY DEF Init, QuestionInv, Known
  <1>1. Init => TypeOK /\ QuestionInv
    BY <1>0, TypeInit
  <1>2. TypeOK /\ QuestionInv /\ [Next]_vars => TypeOK' /\ QuestionInv'
    BY TypeStep, QuestionStep
  <1>3. TypeOK /\ QuestionInv => QuestionsSettle
    BY DEF QuestionInv, Known, QuestionsSettle
  <1> QED BY <1>1, <1>2, <1>3, PTL DEF Spec

-----------------------------------------------------------------------------
(* Shutdown.                                                               *)

LEMMA StopStep == TypeOK /\ StopReachesAll /\ [Next]_vars => StopReachesAll'
  <1> SUFFICES ASSUME TypeOK, StopReachesAll, [Next]_vars, srv' = "stopped",
                      NEW r \in Run, run'[r] # "absent"
               PROVE  canceled'[r]
    BY DEF StopReachesAll, Registered
  <1>t. run \in [Run -> Stages] /\ canceled \in [Run -> BOOLEAN]
    BY DEF TypeOK
  <1>1. CASE Stop
    BY <1>1, <1>t DEF Stop, Registered
  <1>2. ASSUME NEW p \in Run, Register(p) PROVE canceled'[r]
    BY <1>2, <1>t DEF Register, StopReachesAll, Registered
  <1>3. ASSUME NEW p \in Run, CancelPipeline(p) PROVE canceled'[r]
    BY <1>3, <1>t DEF CancelPipeline, StopReachesAll, Registered
  <1>4. ASSUME NEW p \in Run, SetResult(p) \/ Close(p) PROVE canceled'[r]
    BY <1>4, <1>t DEF SetResult, Close, StopReachesAll, Registered
  <1>5. CASE UNCHANGED <<srv, run, canceled>>
    BY <1>5 DEF StopReachesAll, Registered
  <1>6. CASE CancelAll \/ Drain \/ Exit
    BY <1>6 DEF CancelAll, Drain, Exit
  <1>7. ASSUME NEW c \in Client, Subscribe(c) \/ Write(c) \/ Finish(c) \/ Leave(c)
        PROVE  UNCHANGED <<srv, run, canceled>>
    BY <1>7 DEF Subscribe, Write, Finish, Leave
  <1>8. ASSUME NEW p \in Run, NEW q \in Question, Asks(p, q) \/ AnswerQuestion(p, q)
        PROVE  UNCHANGED <<srv, run, canceled>>
    BY <1>8 DEF Asks, Ask, Expire, Take, Forget, AnswerQuestion
  <1>9. ASSUME NEW p \in Run, Post(p) \/ Emit(p) \/ CancelInterviewer(p)
        PROVE  UNCHANGED <<srv, run, canceled>>
    BY <1>9 DEF Post, Emit, CancelInterviewer
  <1>10. UNCHANGED vars => UNCHANGED <<srv, run, canceled>>
    BY DEF vars
  <1> QED
    BY <1>1, <1>2, <1>3, <1>4, <1>5, <1>6, <1>7, <1>8, <1>9, <1>10 DEF Next

\* StopReachesAll: when the server has stopped, every run it has, also one that
\* was submitted while it stopped, is canceled.
THEOREM StopIsComplete == Spec => []StopReachesAll
  <1>1. Init => TypeOK /\ StopReachesAll
    BY TypeInit DEF Init, StopReachesAll
  <1>2. TypeOK /\ StopReachesAll /\ [Next]_vars => TypeOK' /\ StopReachesAll'
    BY TypeStep, StopStep
  <1> QED BY <1>1, <1>2, PTL DEF Spec
=============================================================================
