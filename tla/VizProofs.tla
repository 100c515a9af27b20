----------------------------- MODULE VizProofs -----------------------------
(***************************************************************************)
(* What holds of the drawing of graphs for every number of calls.          *)
(*                                                                         *)
(* The ids of one Viz that are under way form an interval that grows at    *)
(* one end and shrinks at the other (Match).  Whoever listens to an id is  *)
(* a call that waits for it (Heard), what the queues hold of a call is its *)
(* own source or a drawing of it (Mail), and a failure is the fault of the *)
(* source or of a bad one that the same worker was given before (Blamed).  *)
(* That earlier call was still waiting when the later one was made, since  *)
(* a failure replaces the Viz (Ordered): this is what the refinement of    *)
(* Rendering needs.                                                        *)
(***************************************************************************)
EXTENDS Viz, SequenceTheorems, FiniteSetTheorems, TLAPS

-----------------------------------------------------------------------------
(* The queues of one Viz.                                                  *)

RequestMessage == [id : Nat, src : Source]
ReplyMessage == [id : Nat, answer : Answers]

\* n: the next id; D: the ids with a listener; q and p: requests and replies.
Match(n, D, q, p) ==
    LET out == Len(q) + Len(p)
    IN  /\ out <= n
        /\ D = (n - out) .. (n - 1)
        /\ \A i \in DOMAIN p : p[i].id = n - out + i - 1
        /\ \A i \in DOMAIN q : q[i].id = n - Len(q) + i - 1

LEMMA MatchPosted ==
    ASSUME NEW n \in Nat, NEW D, NEW q \in Seq(RequestMessage), NEW p \in Seq(ReplyMessage),
           NEW src \in Source, Match(n, D, q, p)
    PROVE  Match(n + 1, D \cup {n}, Append(q, Request(n, src)), p)
  <1> DEFINE m == Request(n, src)
  <1>1. m \in RequestMessage /\ m.id = n
    BY DEF Request, RequestMessage
  <1> HIDE DEF m
  <1>2. /\ Append(q, m) \in Seq(RequestMessage)
        /\ Len(Append(q, m)) = Len(q) + 1
        /\ \A i \in 1 .. Len(q) : Append(q, m)[i] = q[i]
        /\ Append(q, m)[Len(q) + 1] = m
    BY <1>1, AppendProperties
  <1>3. Len(q) \in Nat /\ Len(p) \in Nat /\ DOMAIN q = 1 .. Len(q) /\ DOMAIN p = 1 .. Len(p)
        /\ DOMAIN Append(q, m) = 1 .. (Len(q) + 1)
    BY <1>2
  <1>4. D \cup {n} = (n + 1 - (Len(q) + 1 + Len(p))) .. (n + 1 - 1)
    <2>1. D = (n - (Len(q) + Len(p))) .. (n - 1) /\ Len(q) + Len(p) <= n
      BY DEF Match
    <2> QED BY <2>1, <1>3
  <1>5. \A i \in 1 .. (Len(q) + 1) :
          Append(q, m)[i].id = n + 1 - (Len(q) + 1) + i - 1
    <2>1. \A i \in 1 .. Len(q) : q[i].id = n - Len(q) + i - 1
      BY <1>3 DEF Match
    <2>2. CASE Len(q) = 0
      BY <2>2, <1>1, <1>2, <1>3
    <2> QED BY <2>1, <1>1, <1>2, <1>3
  <1>6. \A i \in DOMAIN p : p[i].id = n + 1 - (Len(q) + 1 + Len(p)) + i - 1
    BY <1>3 DEF Match
  <1>7. Len(q) + 1 + Len(p) <= n + 1
    BY <1>3 DEF Match
  <1>8. Match(n + 1, D \cup {n}, Append(q, m), p)
    <2> DEFINE s == Append(q, m)
               E == D \cup {n}
    <2>1. /\ Len(s) = Len(q) + 1 /\ DOMAIN s = 1 .. (Len(q) + 1)
          /\ E = (n + 1 - (Len(s) + Len(p))) .. (n + 1 - 1)
          /\ Len(s) + Len(p) <= n + 1
          /\ \A i \in DOMAIN s : s[i].id = n + 1 - Len(s) + i - 1
          /\ \A i \in DOMAIN p : p[i].id = n + 1 - (Len(s) + Len(p)) + i - 1
      BY <1>2, <1>3, <1>4, <1>5, <1>6, <1>7
    <2> HIDE DEF s, E
    <2>2. Match(n + 1, E, s, p)
      BY <2>1 DEF Match
    <2> QED BY <2>2 DEF s, E
  <1> QED BY <1>8 DEF m

LEMMA MatchAnswered ==
    ASSUME NEW n \in Nat, NEW D, NEW q \in Seq(RequestMessage), NEW p \in Seq(ReplyMessage),
           NEW a \in Answers, Match(n, D, q, p), q # << >>
    PROVE  Match(n, D, Tail(q), Append(p, [id |-> Head(q).id, answer |-> a]))
  <1> DEFINE m == [id |-> Head(q).id, answer |-> a]
  <1>1. /\ Head(q) \in RequestMessage /\ Head(q) = q[1]
        /\ Tail(q) \in Seq(RequestMessage) /\ Len(Tail(q)) = Len(q) - 1
        /\ \A i \in 1 .. Len(Tail(q)) : Tail(q)[i] = q[i + 1]
    BY HeadTailProperties
  <1>2. m \in ReplyMessage /\ m.id = q[1].id
    BY <1>1 DEF RequestMessage, ReplyMessage
  <1> HIDE DEF m
  <1>3. /\ Append(p, m) \in Seq(ReplyMessage)
        /\ Len(Append(p, m)) = Len(p) + 1
        /\ \A i \in 1 .. Len(p) : Append(p, m)[i] = p[i]
        /\ Append(p, m)[Len(p) + 1] = m
    BY <1>2, AppendProperties
  <1>4. /\ Len(q) \in Nat \ {0} /\ Len(p) \in Nat
        /\ DOMAIN q = 1 .. Len(q) /\ DOMAIN p = 1 .. Len(p)
        /\ DOMAIN Tail(q) = 1 .. (Len(q) - 1) /\ DOMAIN Append(p, m) = 1 .. (Len(p) + 1)
    BY <1>1, <1>3, EmptySeq
  <1>5. /\ Len(q) + Len(p) <= n
        /\ D = (n - (Len(q) + Len(p))) .. (n - 1)
        /\ \A i \in 1 .. Len(p) : p[i].id = n - (Len(q) + Len(p)) + i - 1
        /\ \A i \in 1 .. Len(q) : q[i].id = n - Len(q) + i - 1
    BY <1>4 DEF Match
  <1>6. \A i \in 1 .. (Len(q) - 1) : Tail(q)[i].id = n - (Len(q) - 1) + i - 1
    BY <1>1, <1>4, <1>5
  <1>7. m.id = n - Len(q)
    BY <1>2, <1>4, <1>5
  <1>8. Len(q) - 1 + (Len(p) + 1) = Len(q) + Len(p)
    BY <1>4
  <1>9. ASSUME NEW i \in 1 .. (Len(p) + 1)
        PROVE  Append(p, m)[i].id = n - (Len(q) + Len(p)) + i - 1
    <2>1. CASE i \in 1 .. Len(p)
      BY <2>1, <1>3, <1>5
    <2>2. CASE i = Len(p) + 1
      <3>1. n - (Len(q) + Len(p)) + i - 1 = n - Len(q)
        BY <2>2, <1>4
      <3> QED BY <3>1, <2>2, <1>3, <1>7
    <2> QED BY <2>1, <2>2, <1>4
  <1>10. Match(n, D, Tail(q), Append(p, m))
    BY <1>1, <1>3, <1>4, <1>5, <1>6, <1>8, <1>9 DEF Match
  <1> QED BY <1>10 DEF m

LEMMA MatchHeard ==
    ASSUME NEW n \in Nat, NEW D, NEW q \in Seq(RequestMessage), NEW p \in Seq(ReplyMessage),
           Match(n, D, q, p), p # << >>
    PROVE  /\ Head(p).id \in D
           /\ \A id \in D : Head(p).id <= id
           /\ Match(n, D \ {Head(p).id}, q, Tail(p))
  <1>1. /\ Head(p) \in ReplyMessage /\ Head(p) = p[1]
        /\ Tail(p) \in Seq(ReplyMessage) /\ Len(Tail(p)) = Len(p) - 1
        /\ \A i \in 1 .. Len(Tail(p)) : Tail(p)[i] = p[i + 1]
    BY HeadTailProperties
  <1>2. /\ Len(p) \in Nat \ {0} /\ Len(q) \in Nat
        /\ DOMAIN q = 1 .. Len(q) /\ DOMAIN p = 1 .. Len(p) /\ DOMAIN Tail(p) = 1 .. (Len(p) - 1)
    BY <1>1, EmptySeq
  <1>3. /\ Len(q) + Len(p) <= n
        /\ D = (n - (Len(q) + Len(p))) .. (n - 1)
        /\ \A i \in 1 .. Len(p) : p[i].id = n - (Len(q) + Len(p)) + i - 1
        /\ \A i \in 1 .. Len(q) : q[i].id = n - Len(q) + i - 1
    BY <1>2 DEF Match
  <1>4. Head(p).id = n - (Len(q) + Len(p))
    BY <1>1, <1>2, <1>3
  <1>5. D \ {Head(p).id} = (n - (Len(q) + (Len(p) - 1))) .. (n - 1)
    <2>1. PICK k \in Nat, l \in Nat : k = Len(q) /\ l = Len(p)
      BY <1>2
    <2>2. D = (n - (k + l)) .. (n - 1) /\ Head(p).id = n - (k + l)
      BY <2>1, <1>3, <1>4
    <2>3. D \ {n - (k + l)} = (n - (k + (l - 1))) .. (n - 1)
      BY <2>1, <2>2
    <2> QED BY <2>1, <2>2, <2>3
  <1>6. \A i \in 1 .. (Len(p) - 1) : Tail(p)[i].id = n - (Len(q) + (Len(p) - 1)) + i - 1
    BY <1>1, <1>2, <1>3
  <1>7. Match(n, D \ {Head(p).id}, q, Tail(p))
    BY <1>1, <1>2, <1>3, <1>5, <1>6 DEF Match
  <1> QED BY <1>2, <1>3, <1>4, <1>7

\* Every message is about an id that has a listener.
LEMMA MatchIds ==
    ASSUME NEW n \in Nat, NEW D, NEW q \in Seq(RequestMessage), NEW p \in Seq(ReplyMessage),
           Match(n, D, q, p)
    PROVE  /\ n \notin D /\ D \subseteq Nat
           /\ \A i \in DOMAIN q : q[i].id \in D
           /\ \A j \in DOMAIN p : p[j].id \in D
  <1>1. /\ Len(p) \in Nat /\ Len(q) \in Nat
        /\ DOMAIN q = 1 .. Len(q) /\ DOMAIN p = 1 .. Len(p)
    OBVIOUS
  <1>2. /\ Len(q) + Len(p) <= n
        /\ D = (n - (Len(q) + Len(p))) .. (n - 1)
        /\ \A i \in 1 .. Len(p) : p[i].id = n - (Len(q) + Len(p)) + i - 1
        /\ \A i \in 1 .. Len(q) : q[i].id = n - Len(q) + i - 1
    BY <1>1 DEF Match
  <1> QED BY <1>1, <1>2

\* The oldest request comes after all the replies.
LEMMA MatchHead ==
    ASSUME NEW n \in Nat, NEW D, NEW q \in Seq(RequestMessage), NEW p \in Seq(ReplyMessage),
           Match(n, D, q, p), q # << >>
    PROVE  Head(q) = q[1] /\ 1 \in DOMAIN q /\ q[1].id = n - Len(q)
  <1>1. Len(q) \in Nat \ {0} /\ DOMAIN q = 1 .. Len(q) /\ Head(q) = q[1]
    BY EmptySeq
  <1>2. \A i \in 1 .. Len(q) : q[i].id = n - Len(q) + i - 1
    BY <1>1 DEF Match
  <1> QED BY <1>1, <1>2

-----------------------------------------------------------------------------
(* The invariant.                                                          *)

Fails == {c \in Calls : calls[c].answer = Failed}

\* Every failure replaced the Viz.
Counted == viz = IF calls = << >> THEN 0 ELSE 1 + Cardinality(Fails)

Matched(v) == Match(nextId[v], DOMAIN listeners[v], requests[v], replies[v])

\* The call that listens to an id.
Caller(v, id) == calls[listeners[v][id]]

Heard(v) ==
    \A id \in DOMAIN listeners[v] :
      /\ listeners[v][id] \in Calls
      /\ Caller(v, id).on = v /\ Caller(v, id).id = id /\ Caller(v, id).answer = Pending

Mail(v) ==
    /\ \A i \in DOMAIN requests[v] :
         requests[v][i].src = Caller(v, requests[v][i].id).src
    /\ \A j \in DOMAIN replies[v] :
         \/ replies[v][j].answer = Failed
         \/ /\ replies[v][j].answer = Caller(v, replies[v][j].id).src
            /\ replies[v][j].answer \notin Bad

\* A bad graph was given to the worker before number n.
SpoiltBy(v, n) == \E d \in Calls : calls[d].on = v /\ calls[d].src \in Bad /\ calls[d].id < n

Spoilt(v) == worker[v] = "spoiled" => SpoiltBy(v, nextId[v] - Len(requests[v]))

Blamed(v) ==
    \A j \in DOMAIN replies[v] :
      replies[v][j].answer = Failed =>
        \/ Caller(v, replies[v][j].id).src \in Bad
        \/ SpoiltBy(v, replies[v][j].id)

\* What is known of a call.
Logged(c) ==
    /\ calls[c].on <= viz /\ calls[c].id < nextId[calls[c].on]
    /\ calls[c].answer = Pending =>
         /\ calls[c].id \in DOMAIN listeners[calls[c].on]
         /\ listeners[calls[c].on][calls[c].id] = c
    /\ calls[c].answer \in Source => calls[c].src \notin Bad
    /\ calls[c].answer = Failed => calls[c].on < viz

\* An earlier call of the same Viz was waiting when this one was made, or it
\* had been drawn.
Ordered(c, d) ==
    calls[c].on = calls[d].on /\ calls[d].id < calls[c].id =>
      d < c /\ (d \in calls[c].behind \/ calls[d].answer \in Source)

Here(v) == Matched(v) /\ Heard(v) /\ Mail(v) /\ Spoilt(v) /\ Blamed(v)

IInv ==
    /\ TypeOK /\ Counted
    /\ \A v \in Instance : Here(v)
    /\ \A c \in Calls : Logged(c)
    /\ \A c, d \in Calls : Ordered(c, d)

-----------------------------------------------------------------------------
(* What the types say.                                                     *)

LEMMA Typed ==
    ASSUME TypeOK
    PROVE  /\ calls \in Seq(CallRecord) /\ Len(calls) \in Nat /\ Len(calls) <= MaxCalls
           /\ Calls = 1 .. Len(calls) /\ Calls \subseteq 1 .. MaxCalls
           /\ \A c \in Calls : calls[c] \in CallRecord
           /\ IsFiniteSet(Fails) /\ Cardinality(Fails) \in Nat
           /\ Cardinality(Fails) <= Len(calls)
  <1>1. calls \in Seq(CallRecord) /\ Len(calls) \in Nat /\ Len(calls) <= MaxCalls
    BY DEF TypeOK
  <1>2. Calls = 1 .. Len(calls)
    BY <1>1 DEF Calls
  <1>3. Calls \subseteq 1 .. MaxCalls
    BY <1>1, <1>2, VizAssumption
  <1>4. \A c \in Calls : calls[c] \in CallRecord
    BY <1>1, <1>2, ElementOfSeq
  <1>5. IsFiniteSet(Calls) /\ Cardinality(Calls) = Len(calls)
    BY <1>1, <1>2, FS_Interval
  <1>6. Fails \in SUBSET Calls
    BY DEF Fails
  <1>7. IsFiniteSet(Fails) /\ Cardinality(Fails) <= Len(calls)
    BY <1>5, <1>6, FS_Subset
  <1>8. Cardinality(Fails) \in Nat
    BY <1>7, FS_CardinalityType
  <1> QED BY <1>1, <1>2, <1>3, <1>4, <1>7, <1>8

LEMMA TypedViz ==
    ASSUME TypeOK, NEW v \in Instance
    PROVE  /\ v \in Nat \ {0} /\ nextId[v] \in Nat
           /\ requests[v] \in Seq(RequestMessage) /\ replies[v] \in Seq(ReplyMessage)
           /\ worker[v] \in {"loading", "ready", "spoiled", "lost"}
           /\ Len(requests[v]) \in Nat /\ Len(replies[v]) \in Nat
           /\ DOMAIN requests[v] = 1 .. Len(requests[v])
           /\ DOMAIN replies[v] = 1 .. Len(replies[v])
  <1>1. requests[v] \in Seq(RequestMessage) /\ replies[v] \in Seq(ReplyMessage)
    BY DEF TypeOK, RequestMessage, ReplyMessage
  <1>2. v \in Nat \ {0} /\ nextId[v] \in Nat /\ worker[v] \in {"loading", "ready", "spoiled", "lost"}
    BY VizAssumption DEF TypeOK, Instance
  <1> QED BY <1>1, <1>2

LEMMA TypedIds ==
    ASSUME TypeOK, NEW v \in Instance, Matched(v)
    PROVE  /\ nextId[v] \notin DOMAIN listeners[v] /\ DOMAIN listeners[v] \subseteq Nat
           /\ \A i \in DOMAIN requests[v] : requests[v][i].id \in DOMAIN listeners[v]
           /\ \A j \in DOMAIN replies[v] : replies[v][j].id \in DOMAIN listeners[v]
  <1>1. PICK n, D, q, p : n = nextId[v] /\ D = DOMAIN listeners[v] /\ q = requests[v] /\ p = replies[v]
    OBVIOUS
  <1>2. n \in Nat /\ q \in Seq(RequestMessage) /\ p \in Seq(ReplyMessage) /\ Match(n, D, q, p)
    BY <1>1, TypedViz DEF Matched
  <1>3. /\ n \notin D /\ D \subseteq Nat
        /\ \A i \in DOMAIN q : q[i].id \in D
        /\ \A j \in DOMAIN p : p[j].id \in D
    BY <1>2, MatchIds
  <1> QED BY <1>1, <1>3

LEMMA InitHolds == Init => IInv
  <1> SUFFICES ASSUME Init PROVE IInv
    OBVIOUS
  <1> USE DEF Init
  <1>1. Calls = {} /\ Len(calls) = 0
    BY EmptySeq DEF Calls
  <1>2. TypeOK
    <2>1. calls \in Seq(CallRecord) /\ Len(calls) <= MaxCalls
      BY <1>1, EmptySeq, VizAssumption
    <2>2. /\ requests \in [Instance -> Seq([id : Nat, src : Source])]
          /\ replies \in [Instance -> Seq([id : Nat, answer : Answers])]
      BY EmptySeq
    <2> QED BY <2>1, <2>2 DEF TypeOK
  <1>3. Counted
    BY DEF Counted
  <1>4. ASSUME NEW v \in Instance PROVE Here(v)
    <2>1. /\ nextId[v] = 0 /\ listeners[v] = << >> /\ requests[v] = << >>
          /\ replies[v] = << >> /\ worker[v] = "loading"
      OBVIOUS
    <2>2. Len(<< >>) = 0 /\ DOMAIN << >> = {}
      BY EmptySeq
    <2> QED BY <2>1, <2>2 DEF Here, Matched, Match, Heard, Mail, Spoilt, Blamed
  <1> QED BY <1>1, <1>2, <1>3, <1>4 DEF IInv

-----------------------------------------------------------------------------
(* A call is made.                                                         *)

LEMMA RenderKeeps ==
    ASSUME IInv, NEW src \in Source, Render(src)
    PROVE  IInv'
  <1>v. PICK v : v = IF viz = 0 THEN NewViz ELSE viz
    OBVIOUS
  <1>n. PICK n : n = nextId[v]
    OBVIOUS
  <1>w. PICK new : new = Len(calls) + 1
    OBVIOUS
  <1>r. PICK r : r = [src |-> src, on |-> v, id |-> n, answer |-> Pending,
                      behind |-> {c \in Calls : calls[c].answer = Pending}]
    OBVIOUS
  <1>t. TypeOK /\ Counted /\ \A w \in Instance : Here(w)
    BY DEF IInv
  <1>1. /\ Len(calls) < MaxCalls /\ viz' = v /\ calls' = Append(calls, r)
        /\ Post(v, src) /\ worker' = worker /\ replies' = replies
    BY <1>v, <1>n, <1>r DEF Render
  <1>2. v \in Instance /\ (viz = 0 => calls = << >> /\ v = 1) /\ (viz # 0 => v = viz)
    <2>1. viz = 0 => calls = << >>
      BY <1>t, Typed DEF Counted
    <2>2. MaxCalls \in Nat \ {0}
      BY <1>1, <1>t, Typed, VizAssumption
    <2> QED BY <2>1, <2>2, <1>t, <1>v DEF NewViz, Instance, TypeOK
  <1>3. n \in Nat /\ v \in Nat \ {0}
    BY <1>t, <1>n, <1>2, TypedViz
  <1>4. r \in CallRecord
    BY <1>r, <1>2, <1>3, <1>t, Typed DEF CallRecord
  <1>5. /\ calls' \in Seq(CallRecord) /\ Len(calls') = new /\ Calls' = Calls \cup {new}
        /\ new \notin Calls /\ calls'[new] = r /\ new \in Nat
        /\ \A c \in Calls : calls'[c] = calls[c] /\ c < new
    <2>1. /\ calls' \in Seq(CallRecord) /\ Len(calls') = new /\ calls'[new] = r
          /\ \A c \in 1 .. Len(calls) : calls'[c] = calls[c]
      BY <1>w, <1>1, <1>4, <1>t, Typed, AppendProperties
    <2>2. Calls' = 1 .. new /\ Calls = 1 .. Len(calls) /\ Len(calls) \in Nat
      BY <2>1, <1>t, Typed DEF Calls
    <2> QED BY <2>1, <2>2, <1>w
  <1>6. /\ r.src = src /\ r.on = v /\ r.id = n /\ r.answer = Pending
        /\ r.behind = {c \in Calls : calls[c].answer = Pending}
    BY <1>r
  <1>7. /\ nextId'[v] = n + 1 /\ requests'[v] = Append(requests[v], Request(n, src))
        /\ DOMAIN listeners'[v] = DOMAIN listeners[v] \cup {n}
        /\ listeners'[v][n] = new
        /\ \A id \in DOMAIN listeners[v] \ {n} : listeners'[v][id] = listeners[v][id]
        /\ \A w \in Instance \ {v} : /\ nextId'[w] = nextId[w] /\ requests'[w] = requests[w]
                                     /\ listeners'[w] = listeners[w]
        /\ nextId' \in [Instance -> Nat] /\ DOMAIN listeners' = Instance
    BY <1>1, <1>2, <1>3, <1>n, <1>w, <1>t DEF Post, TypeOK
  <1>8. n \notin DOMAIN listeners[v]
    BY <1>2, <1>n, <1>t, TypedIds DEF Here
  <1>9. requests' \in [Instance -> Seq([id : Nat, src : Source])]
    <2>1. Request(n, src) \in [id : Nat, src : Source]
      BY <1>3 DEF Request
    <2>2. Append(requests[v], Request(n, src)) \in Seq([id : Nat, src : Source])
      BY <2>1, <1>2, <1>t, AppendProperties DEF TypeOK
    <2>3. requests' = [requests EXCEPT ![v] = Append(requests[v], Request(n, src))]
      BY <1>1, <1>2, <1>n, <1>t DEF Post, TypeOK
    <2> QED BY <2>2, <2>3, <1>t DEF TypeOK
  <1>10. TypeOK'
    <2>1. viz' \in {0} \cup Instance
      BY <1>1, <1>2
    <2>2. Len(calls') <= MaxCalls
      BY <1>w, <1>1, <1>5, <1>t, Typed, VizAssumption
    <2>3. worker' \in [Instance -> {"loading", "ready", "spoiled", "lost"}]
      BY <1>1, <1>t DEF TypeOK
    <2>4. replies' \in [Instance -> Seq([id : Nat, answer : Answers])]
      BY <1>1, <1>t DEF TypeOK
    <2> QED BY <2>1, <2>2, <2>3, <2>4, <1>5, <1>7, <1>9 DEF TypeOK
  <1>11. Counted'
    <2>1. Fails' = Fails
      <3>1. Pending # Failed
        BY VizAssumption
      <3> QED BY <3>1, <1>5, <1>6 DEF Fails
    <2>2. calls' # << >>
      BY <1>5, <1>w, <1>t, Typed, EmptySeq
    <2>3. CASE viz = 0
      <3>1. Fails = {}
        BY <2>3, <1>2, EmptySeq DEF Fails, Calls
      <3> QED BY <3>1, <2>1, <2>2, <2>3, <1>1, <1>2, FS_EmptySet DEF Counted
    <2>4. CASE viz # 0
      BY <2>1, <2>2, <2>4, <1>1, <1>2, <1>t DEF Counted
    <2> QED BY <2>3, <2>4
  <1>12. ASSUME NEW w \in Instance, NEW k, SpoiltBy(w, k) PROVE SpoiltBy(w, k)'
    BY <1>5, <1>12 DEF SpoiltBy
  <1>13. ASSUME NEW w \in Instance, NEW id \in DOMAIN listeners[w]
         PROVE  /\ id \in DOMAIN listeners'[w] /\ listeners'[w][id] = listeners[w][id]
                /\ listeners[w][id] \in Calls
                /\ calls'[listeners'[w][id]] = calls[listeners[w][id]]
    <2>1. id \in DOMAIN listeners'[w] /\ listeners'[w][id] = listeners[w][id]
      BY <1>7, <1>8
    <2>2. listeners[w][id] \in Calls
      BY <1>t DEF Here, Heard
    <2> QED BY <2>1, <2>2, <1>5
  <1>14. calls'[listeners'[v][n]] = r
    BY <1>5, <1>7
  <1>15. ASSUME NEW w \in Instance PROVE Here(w)'
    <2>1. Matched(w)'
      <3>1. CASE w = v
        <4>1. Match(n + 1, DOMAIN listeners[v] \cup {n},
                    Append(requests[v], Request(n, src)), replies[v])
          BY <1>2, <1>3, <1>t, TypedViz, MatchPosted, <1>n DEF Here, Matched
        <4> QED BY <4>1, <3>1, <1>7, <1>1 DEF Matched
      <3>2. CASE w # v
        <4>1. /\ nextId'[w] = nextId[w] /\ requests'[w] = requests[w]
              /\ listeners'[w] = listeners[w] /\ replies'[w] = replies[w]
          BY <3>2, <1>7, <1>1
        <4>2. Matched(w)
          BY <1>t DEF Here
        <4> QED BY <4>1, <4>2 DEF Matched
      <3> QED BY <3>1, <3>2
    <2>2. Heard(w)'
      <3> SUFFICES ASSUME NEW id \in DOMAIN listeners'[w]
                   PROVE  /\ listeners'[w][id] \in Calls'
                          /\ calls'[listeners'[w][id]].on = w
                          /\ calls'[listeners'[w][id]].id = id
                          /\ calls'[listeners'[w][id]].answer = Pending
        BY DEF Heard, Caller
      <3>1. CASE id \in DOMAIN listeners[w]
        BY <3>1, <1>13, <1>5, <1>t DEF Here, Heard, Caller
      <3>2. CASE id \notin DOMAIN listeners[w]
        <4>1. w = v /\ id = n
          BY <3>2, <1>7
        <4> QED BY <4>1, <1>14, <1>6, <1>7, <1>5
      <3> QED BY <3>1, <3>2
    <2>3. \A j \in DOMAIN replies[w] : replies[w][j].id \in DOMAIN listeners[w]
      BY <1>t, TypedIds DEF Here
    <2>4. \A i \in DOMAIN requests[w] : requests[w][i].id \in DOMAIN listeners[w]
      BY <1>t, TypedIds DEF Here
    <2>5. ASSUME NEW i \in DOMAIN requests'[w]
          PROVE  requests'[w][i].src = calls'[listeners'[w][requests'[w][i].id]].src
      <3>1. CASE requests'[w] = requests[w]
        BY <3>1, <2>4, <1>13, <1>t DEF Here, Mail, Caller
      <3>2. CASE requests'[w] # requests[w]
        <4>q. PICK q : q = requests[v]
          OBVIOUS
        <4>m. PICK m : m = Request(n, src)
          OBVIOUS
        <4>1. w = v /\ requests'[w] = Append(q, m)
          BY <3>2, <1>7, <4>q, <4>m
        <4>2. m \in RequestMessage /\ m.id = n /\ m.src = src
          BY <1>3, <4>m DEF Request, RequestMessage
        <4>3. q \in Seq(RequestMessage) /\ DOMAIN q = 1 .. Len(q) /\ Len(q) \in Nat
          BY <1>2, <1>t, <4>q, TypedViz
        <4>4. /\ Len(Append(q, m)) = Len(q) + 1 /\ Append(q, m) \in Seq(RequestMessage)
              /\ \A k \in 1 .. Len(q) : Append(q, m)[k] = q[k]
              /\ Append(q, m)[Len(q) + 1] = m
          BY <4>2, <4>3, AppendProperties
        <4>5. i \in 1 .. (Len(q) + 1)
          BY <4>1, <4>4
        <4>6. CASE i \in 1 .. Len(q)
          <5>1. requests'[w][i] = requests[w][i] /\ i \in DOMAIN requests[w]
            BY <4>1, <4>3, <4>4, <4>6, <4>q
          <5> QED BY <5>1, <2>4, <1>13, <1>t DEF Here, Mail, Caller
        <4>7. CASE i = Len(q) + 1
          BY <4>1, <4>2, <4>4, <4>7, <1>14, <1>6
        <4> QED BY <4>3, <4>5, <4>6, <4>7
      <3> QED BY <3>1, <3>2
    <2>6. Mail(w)'
      <3>1. ASSUME NEW j \in DOMAIN replies[w]
            PROVE  \/ replies[w][j].answer = Failed
                   \/ /\ replies[w][j].answer = calls'[listeners'[w][replies[w][j].id]].src
                      /\ replies[w][j].answer \notin Bad
        BY <2>3, <1>13, <1>t DEF Here, Mail, Caller
      <3> QED BY <3>1, <2>5, <1>1 DEF Mail, Caller
    <2>7. Spoilt(w)'
      <3>1. nextId'[w] - Len(requests'[w]) = nextId[w] - Len(requests[w])
        <4>1. CASE w = v
          <5>1. Request(n, src) \in RequestMessage
            BY <1>3 DEF Request, RequestMessage
          <5>2. Len(requests'[v]) = Len(requests[v]) + 1 /\ Len(requests[v]) \in Nat
            BY <5>1, <1>2, <1>7, <1>t, TypedViz, AppendProperties
          <5>3. PICK l \in Nat : l = Len(requests[v])
            BY <5>2
          <5>4. nextId'[v] = n + 1 /\ nextId[v] = n /\ Len(requests'[v]) = l + 1
            BY <5>2, <5>3, <1>7, <1>n
          <5>5. n + 1 - (l + 1) = n - l
            BY <5>3, <1>3
          <5> QED BY <4>1, <5>3, <5>4, <5>5, <1>3
        <4> QED BY <4>1, <1>7
      <3>k. PICK k : k = nextId[w] - Len(requests[w])
        OBVIOUS
      <3>2. worker[w] = "spoiled" => SpoiltBy(w, k)
        BY <1>t, <3>k DEF Here, Spoilt
      <3>3. worker'[w] = "spoiled" => SpoiltBy(w, k)'
        BY <3>2, <1>1, <1>12
      <3> QED BY <3>1, <3>3, <3>k DEF Spoilt
    <2>8. Blamed(w)'
      <3> SUFFICES ASSUME NEW j \in DOMAIN replies[w], replies[w][j].answer = Failed,
                          NEW id, id = replies[w][j].id
                   PROVE  calls'[listeners'[w][id]].src \in Bad \/ SpoiltBy(w, id)'
        BY <1>1 DEF Blamed, Caller, SpoiltBy
      <3>1. calls[listeners[w][id]].src \in Bad \/ SpoiltBy(w, id)
        BY <1>t DEF Here, Blamed, Caller
      <3>2. calls'[listeners'[w][id]] = calls[listeners[w][id]]
        BY <2>3, <1>13
      <3> QED BY <3>1, <3>2, <1>12
    <2> QED BY <2>1, <2>2, <2>6, <2>7, <2>8 DEF Here
  <1>16. ASSUME NEW c \in Calls' PROVE Logged(c)'
    <2>1. CASE c = new
      BY <2>1, <1>1, <1>3, <1>5, <1>6, <1>7, VizAssumption DEF Logged
    <2>2. CASE c \in Calls
      <3>1. Logged(c) /\ calls'[c] = calls[c] /\ calls[c] \in CallRecord
        BY <2>2, <1>5, <1>t, Typed DEF IInv
      <3>2. PICK w \in Instance : w = calls[c].on
        BY <3>1 DEF CallRecord
      <3>3. PICK k \in Nat : k = calls[c].id
        BY <3>1 DEF CallRecord
      <3>4. w <= viz /\ viz \in Nat /\ viz <= viz' /\ viz' \in Nat /\ w \in Nat
        BY <3>1, <3>2, <1>1, <1>2, <1>3, <1>t DEF Logged, TypeOK, Instance
      <3>5. nextId[w] \in Nat /\ nextId'[w] \in Nat /\ nextId[w] <= nextId'[w] /\ k < nextId'[w]
        BY <3>1, <3>2, <3>3, <1>7, <1>3, <1>n, <1>t, TypedViz DEF Logged
      <3>6. calls[c].answer = Pending => k \in DOMAIN listeners'[w] /\ listeners'[w][k] = c
        BY <3>1, <3>2, <3>3, <1>13 DEF Logged
      <3>7. calls[c].answer = Failed => w < viz'
        BY <3>1, <3>2, <3>4 DEF Logged
      <3> QED BY <3>1, <3>2, <3>3, <3>4, <3>5, <3>6, <3>7 DEF Logged
    <2> QED BY <2>1, <2>2, <1>5
  <1>17. ASSUME NEW c \in Calls', NEW d \in Calls' PROVE Ordered(c, d)'
    <2>1. CASE c \in Calls /\ d \in Calls
      BY <2>1, <1>5 DEF IInv, Ordered
    <2>2. CASE c = new /\ d = new
      BY <2>2, <1>3, <1>5, <1>6 DEF Ordered
    <2>3. CASE c \in Calls /\ d = new
      <3>1. Logged(c) /\ calls[c] \in CallRecord
        BY <2>3, <1>t, Typed DEF IInv
      <3>2. calls[c].on = v => calls[c].id < n /\ calls[c].id \in Nat
        BY <3>1, <1>n DEF Logged, CallRecord
      <3>3. ~ (calls'[c].on = calls'[d].on /\ calls'[d].id < calls'[c].id)
        BY <2>3, <3>2, <1>3, <1>5, <1>6
      <3> QED BY <3>3 DEF Ordered
    <2>4. CASE c = new /\ d \in Calls
      <3>1. Logged(d) /\ calls[d] \in CallRecord
        BY <2>4, <1>t, Typed DEF IInv
      <3>2. calls[d].on = v => calls[d].answer # Failed
        <4>1. viz # 0
          BY <2>4, <1>2, EmptySeq DEF Calls
        <4> QED BY <4>1, <3>1, <1>2, <1>3 DEF Logged
      <3>3. calls[d].on = v => calls[d].answer \in Source \/ d \in r.behind
        BY <3>1, <3>2, <2>4, <1>6 DEF CallRecord, Answers
      <3> QED BY <2>4, <3>3, <1>5, <1>6 DEF Ordered
    <2> QED BY <2>1, <2>2, <2>3, <2>4, <1>5
  <1> QED BY <1>10, <1>11, <1>15, <1>16, <1>17 DEF IInv

-----------------------------------------------------------------------------
(* A worker loads, or answers.                                             *)

LEMMA LoadKeeps ==
    ASSUME IInv, NEW v \in Instance, Load(v)
    PROVE  IInv'
  <1>t. TypeOK
    BY DEF IInv
  <1>1. PICK to \in {"ready", "lost"} : worker' = [worker EXCEPT ![v] = to]
    BY DEF Load
  <1>2. /\ viz' = viz /\ calls' = calls /\ nextId' = nextId /\ listeners' = listeners
        /\ requests' = requests /\ replies' = replies
    BY DEF Load
  <1>3. /\ worker' \in [Instance -> {"loading", "ready", "spoiled", "lost"}]
        /\ \A w \in Instance : worker'[w] = "spoiled" => worker[w] = "spoiled"
    BY <1>1, <1>t DEF TypeOK
  <1>4. TypeOK'
    BY <1>2, <1>3, <1>t DEF TypeOK, Calls
  <1>5. Counted' /\ Calls' = Calls
    BY <1>2 DEF Counted, Fails, Calls, IInv
  <1>6. ASSUME NEW w \in Instance PROVE Here(w)'
    <2>1. Here(w)
      BY DEF IInv
    <2>2. Spoilt(w)'
      BY <2>1, <1>2, <1>3, <1>5 DEF Here, Spoilt, SpoiltBy
    <2> QED BY <2>1, <2>2, <1>2, <1>5 DEF Here, Matched, Heard, Mail, Caller, Blamed, SpoiltBy
  <1>7. \A c \in Calls' : Logged(c)'
    BY <1>2, <1>5 DEF IInv, Logged
  <1>8. \A c, d \in Calls' : Ordered(c, d)'
    BY <1>2, <1>5 DEF IInv, Ordered
  <1> QED BY <1>4, <1>5, <1>6, <1>7, <1>8 DEF IInv

LEMMA AnswerKeeps ==
    ASSUME IInv, NEW v \in Instance, Answer(v)
    PROVE  IInv'
  <1>t. TypeOK /\ Here(v)
    BY DEF IInv
  <1>1. PICK request, answer, n, q :
          /\ n = nextId[v] /\ q = requests[v] /\ q # << >> /\ request = Head(q)
          /\ answer \in GraphvizRender(v, request.src)
          /\ replies' = [replies EXCEPT ![v] =
                           Append(replies[v], [id |-> request.id, answer |-> answer])]
          /\ worker' = [worker EXCEPT ![v] = IF answer = Failed THEN "spoiled" ELSE worker[v]]
          /\ requests' = [requests EXCEPT ![v] = Tail(q)]
    BY <1>t DEF Answer, TypeOK
  <1>2. viz' = viz /\ calls' = calls /\ nextId' = nextId /\ listeners' = listeners
    BY DEF Answer
  <1>3. PICK p : p = replies[v]
    OBVIOUS
  <1>4. /\ n \in Nat /\ q \in Seq(RequestMessage) /\ p \in Seq(ReplyMessage)
        /\ Len(q) \in Nat /\ Len(p) \in Nat /\ DOMAIN p = 1 .. Len(p)
    BY <1>1, <1>3, <1>t, TypedViz
  <1>5. PICK id, c : id = request.id /\ c = listeners[v][id]
    OBVIOUS
  <1>6. /\ request = q[1] /\ 1 \in DOMAIN q /\ request \in RequestMessage
        /\ id = n - Len(q) /\ id \in Nat /\ id \in DOMAIN listeners[v]
    <2>1. PICK D : D = DOMAIN listeners[v]
      OBVIOUS
    <2>2. Match(n, D, q, p)
      BY <2>1, <1>1, <1>3, <1>t DEF Here, Matched
    <2>3. \A i \in DOMAIN q : q[i].id \in D
      BY <2>2, <1>4, MatchIds
    <2>4. Head(q) \in RequestMessage
      BY <1>1, <1>4, HeadTailProperties
    <2>5. Head(q) = q[1] /\ 1 \in DOMAIN q /\ q[1].id = n - Len(q)
      BY <2>2, <1>1, <1>4, MatchHead
    <2> QED BY <2>1, <2>3, <2>4, <2>5, <1>1, <1>5 DEF RequestMessage
  <1>7. c \in Calls /\ calls[c].on = v /\ calls[c].id = id /\ calls[c].src = request.src
    <2>1. requests[v][1].src = calls[c].src
      BY <1>1, <1>5, <1>6, <1>t DEF Here, Mail, Caller
    <2> QED BY <2>1, <1>1, <1>5, <1>6, <1>t DEF Here, Heard, Caller
  <1>8. /\ answer \in Answers
        /\ answer # Failed => answer = request.src /\ answer \notin Bad
        /\ answer = Failed => request.src \in Bad \/ worker[v] = "spoiled"
    <2>1. request.src \in Source /\ Failed \notin Source
      BY <1>6, VizAssumption DEF RequestMessage
    <2>2. CASE request.src \in Bad
      BY <2>1, <2>2, <1>1 DEF GraphvizRender, Answers
    <2>3. CASE request.src \notin Bad
      BY <2>1, <2>3, <1>1 DEF GraphvizRender, Answers
    <2> QED BY <2>2, <2>3
  <1>9. answer = Failed => calls[c].src \in Bad \/ SpoiltBy(v, id)
    BY <1>1, <1>6, <1>7, <1>8, <1>t DEF Here, Spoilt
  <1>10. PICK m : m = [id |-> id, answer |-> answer]
    OBVIOUS
  <1>11. m \in ReplyMessage /\ m.id = id /\ m.answer = answer
    BY <1>6, <1>8, <1>10 DEF ReplyMessage
  <1>12. /\ Append(p, m) \in Seq(ReplyMessage) /\ DOMAIN Append(p, m) = 1 .. (Len(p) + 1)
         /\ \A i \in 1 .. Len(p) : Append(p, m)[i] = p[i]
         /\ Append(p, m)[Len(p) + 1] = m
         /\ Tail(q) \in Seq(RequestMessage) /\ Len(Tail(q)) = Len(q) - 1
         /\ DOMAIN Tail(q) = 1 .. (Len(q) - 1) /\ DOMAIN q = 1 .. Len(q)
         /\ \A i \in 1 .. (Len(q) - 1) : Tail(q)[i] = q[i + 1]
    <2>1. /\ Append(p, m) \in Seq(ReplyMessage) /\ Len(Append(p, m)) = Len(p) + 1
          /\ \A i \in 1 .. Len(p) : Append(p, m)[i] = p[i]
          /\ Append(p, m)[Len(p) + 1] = m
      BY <1>4, <1>11, AppendProperties
    <2>2. /\ Tail(q) \in Seq(RequestMessage) /\ Len(Tail(q)) = Len(q) - 1
          /\ \A i \in 1 .. Len(Tail(q)) : Tail(q)[i] = q[i + 1]
      BY <1>1, <1>4, HeadTailProperties
    <2> QED BY <2>1, <2>2, <1>4
  <1>13. /\ replies'[v] = Append(p, m) /\ requests'[v] = Tail(q)
         /\ worker'[v] = "spoiled" => answer = Failed \/ worker[v] = "spoiled"
         /\ \A w \in Instance \ {v} : /\ replies'[w] = replies[w] /\ requests'[w] = requests[w]
                                      /\ worker'[w] = worker[w]
    BY <1>1, <1>3, <1>5, <1>10, <1>t DEF TypeOK
  <1>14. TypeOK'
    <2>1. worker' \in [Instance -> {"loading", "ready", "spoiled", "lost"}]
      BY <1>1, <1>t DEF TypeOK
    <2>2. requests' \in [Instance -> Seq(RequestMessage)]
      BY <1>1, <1>12, <1>t DEF TypeOK, RequestMessage
    <2>3. replies' \in [Instance -> Seq(ReplyMessage)]
      BY <1>1, <1>3, <1>5, <1>10, <1>12, <1>t DEF TypeOK, ReplyMessage
    <2> QED BY <2>1, <2>2, <2>3, <1>2, <1>t DEF TypeOK, RequestMessage, ReplyMessage
  <1>15. Counted' /\ Calls' = Calls
    BY <1>2 DEF Counted, Fails, Calls, IInv
  <1>16. ASSUME NEW w \in Instance, w # v PROVE Here(w)'
    <2>1. Here(w)
      BY DEF IInv
    <2>2. /\ listeners'[w] = listeners[w] /\ nextId'[w] = nextId[w]
          /\ requests'[w] = requests[w] /\ replies'[w] = replies[w] /\ worker'[w] = worker[w]
      BY <1>2, <1>13, <1>16
    <2>3. \A call : Caller(w, call)' = Caller(w, call)
      BY <1>2, <2>2 DEF Caller
    <2>4. \A call : SpoiltBy(w, call)' = SpoiltBy(w, call)
      BY <1>2, <1>15 DEF SpoiltBy
    <2>5. Matched(w)' /\ Heard(w)'
      BY <2>1, <1>15, <2>2, <2>3 DEF Here, Matched, Heard
    <2>6. Mail(w)' /\ Spoilt(w)' /\ Blamed(w)'
      BY <2>1, <2>2, <2>3, <2>4 DEF Here, Mail, Spoilt, Blamed
    <2> QED BY <2>5, <2>6 DEF Here
  <1>17. Here(v)'
    <2>1. Matched(v)'
      <3>1. Match(n, DOMAIN listeners[v], q, p)
        BY <1>1, <1>3, <1>t DEF Here, Matched
      <3>2. Match(n, DOMAIN listeners[v], Tail(q), Append(p, [id |-> Head(q).id, answer |-> answer]))
        BY <3>1, <1>1, <1>4, <1>8, MatchAnswered
      <3>3. Match(n, DOMAIN listeners[v], Tail(q), Append(p, m))
        BY <3>2, <1>1, <1>5, <1>10
      <3> QED BY <3>3, <1>1, <1>2, <1>13 DEF Matched
    <2>2. Heard(v)'
      BY <1>2, <1>15, <1>t DEF Here, Heard, Caller
    <2>3. ASSUME NEW i \in DOMAIN requests'[v]
          PROVE  requests'[v][i].src = calls[listeners[v][requests'[v][i].id]].src
      <3>1. i + 1 \in DOMAIN requests[v] /\ requests'[v][i] = requests[v][i + 1]
        <4>1. i \in 1 .. (Len(q) - 1) /\ requests'[v][i] = Tail(q)[i]
          BY <1>12, <1>13
        <4>2. i + 1 \in DOMAIN q /\ Tail(q)[i] = q[i + 1]
          BY <4>1, <1>4, <1>12
        <4> QED BY <4>1, <4>2, <1>1
      <3> QED BY <3>1, <1>t DEF Here, Mail, Caller
    <2>4. ASSUME NEW j \in DOMAIN replies'[v]
          PROVE  \/ j \in DOMAIN replies[v] /\ replies'[v][j] = replies[v][j]
                 \/ replies'[v][j] = m
      BY <1>3, <1>4, <1>12, <1>13
    <2>5. Mail(v)'
      <3>1. ASSUME NEW j \in DOMAIN replies'[v]
            PROVE  \/ replies'[v][j].answer = Failed
                   \/ /\ replies'[v][j].answer = calls[listeners[v][replies'[v][j].id]].src
                      /\ replies'[v][j].answer \notin Bad
        <4>1. CASE replies'[v][j] = m
          BY <4>1, <1>5, <1>7, <1>8, <1>11
        <4>2. CASE j \in DOMAIN replies[v] /\ replies'[v][j] = replies[v][j]
          BY <4>2, <1>t DEF Here, Mail, Caller
        <4> QED BY <4>1, <4>2, <2>4
      <3> QED BY <3>1, <2>3, <1>2 DEF Mail, Caller
    <2>6. Spoilt(v)'
      <3>1. nextId'[v] - Len(requests'[v]) = id + 1
        <4>1. nextId'[v] = n /\ requests'[v] = Tail(q) /\ Len(Tail(q)) = Len(q) - 1
          BY <1>1, <1>2, <1>12, <1>13
        <4>2. Len(requests'[v]) = Len(q) - 1 /\ Len(q) \in Nat /\ n \in Nat /\ id = n - Len(q)
          BY <4>1, <1>4, <1>6
        <4>3. PICK l \in Nat : l = Len(q)
          BY <4>2
        <4>4. n - (l - 1) = n - l + 1
          BY <4>2, <4>3
        <4> QED BY <4>1, <4>2, <4>3, <4>4
      <3> SUFFICES ASSUME worker'[v] = "spoiled"
                   PROVE  \E d \in Calls : /\ calls[d].on = v /\ calls[d].src \in Bad
                                           /\ calls[d].id < id + 1
        BY <3>1, <1>2, <1>15 DEF Spoilt, SpoiltBy
      <3>2. CASE calls[c].src \in Bad
        BY <3>1, <3>2, <1>6, <1>7
      <3>3. CASE SpoiltBy(v, id)
        <4>1. PICK d \in Calls : calls[d].on = v /\ calls[d].src \in Bad /\ calls[d].id < id
          BY <3>3 DEF SpoiltBy
        <4>2. calls[d].id \in Nat
          BY <1>t, Typed DEF CallRecord
        <4> QED BY <3>1, <4>1, <4>2, <1>6
      <3>4. worker[v] = "spoiled" => SpoiltBy(v, id)
        BY <1>1, <1>6, <1>t DEF Here, Spoilt
      <3> QED BY <3>2, <3>3, <3>4, <1>9, <1>13
    <2>7. Blamed(v)'
      <3>1. ASSUME NEW j \in DOMAIN replies'[v], replies'[v][j].answer = Failed
            PROVE  \/ calls[listeners[v][replies'[v][j].id]].src \in Bad
                   \/ \E d \in Calls : /\ calls[d].on = v /\ calls[d].src \in Bad
                                       /\ calls[d].id < replies'[v][j].id
        <4>1. CASE replies'[v][j] = m
          BY <4>1, <3>1, <1>5, <1>9, <1>11 DEF SpoiltBy
        <4>2. CASE j \in DOMAIN replies[v] /\ replies'[v][j] = replies[v][j]
          BY <4>2, <3>1, <1>t DEF Here, Blamed, Caller, SpoiltBy
        <4> QED BY <4>1, <4>2, <2>4
      <3> QED BY <3>1, <1>2, <1>15 DEF Blamed, Caller, SpoiltBy
    <2> QED BY <2>1, <2>2, <2>5, <2>6, <2>7 DEF Here
  <1>18. \A c1 \in Calls' : Logged(c1)'
    BY <1>2, <1>15 DEF IInv, Logged
  <1>19. \A c1, d1 \in Calls' : Ordered(c1, d1)'
    BY <1>2, <1>15 DEF IInv, Ordered
  <1> QED BY <1>14, <1>15, <1>16, <1>17, <1>18, <1>19 DEF IInv

-----------------------------------------------------------------------------
(* A reply is heard.                                                       *)

\* The call that an answer settles, as the refinement needs it too.
Settles(v, id, c, a) ==
    /\ 1 \in DOMAIN replies[v] /\ replies[v][1].id = id /\ replies[v][1].answer = a
    /\ id \in DOMAIN listeners[v] /\ listeners[v][id] = c /\ a \in Answers
    /\ \A k \in DOMAIN listeners[v] : id <= k
    /\ c \in Calls /\ calls[c].on = v /\ calls[c].id = id /\ calls[c].answer = Pending
    /\ calls' = [calls EXCEPT ![c].answer = a]
    /\ viz' = IF a = Failed THEN viz + 1 ELSE viz

LEMMA MessageSettles ==
    ASSUME TypeOK, NEW v \in Instance, Here(v), Message(v)
    PROVE  \E id \in Nat, c \in Calls, a \in Answers : Settles(v, id, c, a)
  <1>1. PICK p, D : p = replies[v] /\ D = DOMAIN listeners[v]
    OBVIOUS
  <1>2. PICK reply, id, c, a :
          /\ reply = Head(p) /\ id = reply.id /\ c = listeners[v][id] /\ a = reply.answer
    OBVIOUS
  <1>3. p # << >> /\ id \in D /\ Settle(c, a)
    BY <1>1, <1>2 DEF Message
  <1>4. p \in Seq(ReplyMessage) /\ DOMAIN p = 1 .. Len(p) /\ Len(p) \in Nat
    BY <1>1, TypedViz
  <1>5. reply = p[1] /\ 1 \in DOMAIN p /\ reply \in ReplyMessage
    <2>1. reply \in ReplyMessage
      BY <1>2, <1>3, <1>4, HeadTailProperties
    <2>2. Len(p) # 0
      BY <1>3, <1>4, EmptySeq
    <2> QED BY <2>1, <2>2, <1>2, <1>4
  <1>6. \A k \in D : id <= k
    <2>1. PICK n, q : n = nextId[v] /\ q = requests[v]
      OBVIOUS
    <2>2. Match(n, D, q, p) /\ n \in Nat /\ q \in Seq(RequestMessage)
      BY <2>1, <1>1, TypedViz DEF Here, Matched
    <2>3. \A k \in D : Head(p).id <= k
      BY <2>2, <1>3, <1>4, MatchHeard
    <2> QED BY <2>3, <1>2
  <1>7. c \in Calls /\ calls[c].on = v /\ calls[c].id = id /\ calls[c].answer = Pending
    BY <1>1, <1>2, <1>3 DEF Here, Heard, Caller
  <1>8. id \in Nat /\ a \in Answers
    BY <1>2, <1>5 DEF ReplyMessage
  <1>9. Settles(v, id, c, a)
    BY <1>1, <1>2, <1>3, <1>5, <1>6, <1>7, <1>8 DEF Settles, Settle, NewViz
  <1> QED BY <1>7, <1>8, <1>9

\* One call of the log has an answer and nothing else changed.
LEMMA LogSettled ==
    ASSUME TypeOK, NEW c \in Calls, NEW a \in Answers,
           calls' = [calls EXCEPT ![c].answer = a]
    PROVE  /\ calls' \in Seq(CallRecord) /\ Len(calls') = Len(calls) /\ Calls' = Calls
           /\ \A d \in Calls : /\ calls'[d].src = calls[d].src /\ calls'[d].on = calls[d].on
                              /\ calls'[d].id = calls[d].id /\ calls'[d].behind = calls[d].behind
                              /\ calls'[d].answer = IF d = c THEN a ELSE calls[d].answer
  <1>1. PICK s, r : s = calls /\ r = [s[c] EXCEPT !.answer = a]
    OBVIOUS
  <1>2. /\ s \in Seq(CallRecord) /\ Calls = 1 .. Len(s)
        /\ \A d \in Calls : s[d] \in CallRecord
    BY <1>1, Typed
  <1>3. /\ r \in CallRecord /\ r.answer = a
        /\ r.src = s[c].src /\ r.on = s[c].on /\ r.id = s[c].id /\ r.behind = s[c].behind
    BY <1>1, <1>2 DEF CallRecord
  <1>4. calls' = [s EXCEPT ![c] = r]
    <2>1. calls' = [calls EXCEPT ![c] = [calls[c] EXCEPT !.answer = a]]
      OBVIOUS
    <2>2. [calls[c] EXCEPT !.answer = a] = r
      BY <1>1
    <2> QED BY <2>1, <2>2, <1>1
  <1>5. /\ calls' \in Seq(CallRecord) /\ Len(calls') = Len(s)
        /\ \A d \in 1 .. Len(s) : calls'[d] = IF d = c THEN r ELSE s[d]
    <2>1. c \in 1 .. Len(s) /\ s \in Seq(CallRecord) /\ r \in CallRecord
      BY <1>2, <1>3
    <2>2. /\ [s EXCEPT ![c] = r] \in Seq(CallRecord) /\ Len([s EXCEPT ![c] = r]) = Len(s)
          /\ \A d \in 1 .. Len(s) : [s EXCEPT ![c] = r][d] = IF d = c THEN r ELSE s[d]
      BY <2>1, ExceptSeq
    <2> QED BY <2>2, <1>4
  <1>6. Calls' = Calls
    BY <1>2, <1>5 DEF Calls
  <1> QED BY <1>1, <1>2, <1>3, <1>5, <1>6

LEMMA MessageKeeps ==
    ASSUME IInv, NEW v \in Instance, Message(v)
    PROVE  IInv'
  <1>t. TypeOK /\ Counted /\ \A w \in Instance : Here(w)
    BY DEF IInv
  <1>1. PICK id \in Nat, c \in Calls, a \in Answers : Settles(v, id, c, a)
    BY <1>t, MessageSettles
  <1>2. /\ calls' \in Seq(CallRecord) /\ Len(calls') = Len(calls) /\ Calls' = Calls
        /\ \A d \in Calls : /\ calls'[d].src = calls[d].src /\ calls'[d].on = calls[d].on
                           /\ calls'[d].id = calls[d].id /\ calls'[d].behind = calls[d].behind
                           /\ calls'[d].answer = IF d = c THEN a ELSE calls[d].answer
    BY <1>1, <1>t, LogSettled DEF Settles
  <1>3. nextId' = nextId /\ worker' = worker /\ requests' = requests
    BY DEF Message
  <1>4. PICK p : p = replies[v]
    OBVIOUS
  <1>5. /\ p \in Seq(ReplyMessage) /\ p # << >> /\ Head(p) = p[1] /\ Tail(p) \in Seq(ReplyMessage)
        /\ DOMAIN Tail(p) = 1 .. (Len(p) - 1) /\ DOMAIN p = 1 .. Len(p) /\ Len(p) \in Nat
        /\ \A j \in 1 .. (Len(p) - 1) : Tail(p)[j] = p[j + 1]
    <2>1. p \in Seq(ReplyMessage) /\ p # << >> /\ DOMAIN p = 1 .. Len(p) /\ Len(p) \in Nat
      BY <1>4, <1>t, TypedViz DEF Message
    <2>2. /\ Tail(p) \in Seq(ReplyMessage) /\ Len(Tail(p)) = Len(p) - 1
          /\ \A j \in 1 .. Len(Tail(p)) : Tail(p)[j] = p[j + 1]
      BY <2>1, HeadTailProperties
    <2> QED BY <2>1, <2>2
  <1>6. replies' = [replies EXCEPT ![v] = Tail(p)]
    BY <1>4, <1>t DEF Message, TypeOK
  <1>7. /\ DOMAIN listeners' = Instance
        /\ DOMAIN listeners'[v] = DOMAIN listeners[v] \ {id}
        /\ \A k \in DOMAIN listeners[v] \ {id} : listeners'[v][k] = listeners[v][k]
        /\ \A w \in Instance \ {v} : listeners'[w] = listeners[w]
    <2>1. listeners' = [listeners EXCEPT ![v] = [k \in DOMAIN listeners[v] \ {id} |-> listeners[v][k]]]
      <3>1. Head(replies[v]).id = id
        BY <1>1, <1>4, <1>5 DEF Settles
      <3> QED BY <3>1, <1>t DEF Message, TypeOK
    <2> QED BY <2>1, <1>t DEF TypeOK
  <1>8. /\ replies'[v] = Tail(p)
        /\ \A w \in Instance \ {v} : replies'[w] = replies[w]
    BY <1>6, <1>t DEF TypeOK
  <1>9. viz \in Nat /\ viz <= viz' /\ viz' \in Nat
    BY <1>1, <1>t DEF Settles, TypeOK, Instance
  <1>10. Counted' /\ viz' \in {0} \cup Instance
    <2>1. calls # << >> /\ calls' # << >>
      BY <1>2, EmptySeq DEF Calls
    <2>2. viz = 1 + Cardinality(Fails)
      BY <2>1, <1>t DEF Counted
    <2>3. Pending # Failed
      BY VizAssumption
    <2>4. CASE a = Failed
      <3>1. Fails' = Fails \cup {c} /\ c \notin Fails
        BY <2>3, <2>4, <1>1, <1>2 DEF Fails, Settles
      <3>2. /\ IsFiniteSet(Calls) /\ Cardinality(Calls) = Len(calls)
            /\ IsFiniteSet(Fails) /\ Cardinality(Fails) \in Nat /\ Len(calls) \in Nat
            /\ Len(calls) <= MaxCalls
        <4>1. Calls = 1 .. Len(calls) /\ Len(calls) \in Nat /\ Len(calls) <= MaxCalls
          BY <1>t, Typed
        <4>2. IsFiniteSet(Calls) /\ Cardinality(Calls) = Len(calls)
          <5>1. PICK n \in Nat : n = Len(calls)
            BY <4>1
          <5>2. IsFiniteSet(1 .. n) /\ Cardinality(1 .. n) = n
            BY FS_Interval
          <5> QED BY <5>1, <5>2, <4>1
        <4>3. IsFiniteSet(Fails) /\ Cardinality(Fails) \in Nat
          BY <1>t, Typed
        <4> QED BY <4>1, <4>2, <4>3
      <3>3. Cardinality(Fails \cup {c}) = Cardinality(Fails) + 1
        BY <3>1, <3>2, FS_AddElement
      <3>4. Fails \cup {c} \in SUBSET Calls
        BY DEF Fails
      <3>5. Cardinality(Fails \cup {c}) <= Len(calls)
        BY <3>2, <3>4, FS_Subset
      <3>6. viz' = 1 + Cardinality(Fails')
        BY <3>1, <3>2, <3>3, <2>2, <2>4, <1>1 DEF Settles
      <3>7. viz' \in Instance
        BY <3>1, <3>2, <3>3, <3>5, <3>6, VizAssumption DEF Instance
      <3> QED BY <3>6, <3>7, <2>1 DEF Counted
    <2>5. CASE a # Failed
      <3>1. Fails' = Fails
        BY <2>3, <2>5, <1>1, <1>2 DEF Fails, Settles
      <3> QED BY <3>1, <2>1, <2>2, <2>5, <1>1, <1>t DEF Settles, Counted, TypeOK
    <2> QED BY <2>4, <2>5
  <1>11. TypeOK'
    <2>1. replies' \in [Instance -> Seq(ReplyMessage)]
      BY <1>5, <1>6, <1>t DEF TypeOK, ReplyMessage
    <2>2. Len(calls') <= MaxCalls
      BY <1>2, <1>t DEF TypeOK
    <2> QED BY <2>1, <2>2, <1>2, <1>3, <1>7, <1>10, <1>t DEF TypeOK, ReplyMessage
  <1>12. ASSUME NEW w \in Instance, NEW k, SpoiltBy(w, k) PROVE SpoiltBy(w, k)'
    BY <1>2, <1>12 DEF SpoiltBy
  <1>13. ASSUME NEW w \in Instance, NEW k \in DOMAIN listeners'[w]
         PROVE  /\ k \in DOMAIN listeners[w] /\ listeners'[w][k] = listeners[w][k]
                /\ listeners[w][k] \in Calls /\ listeners[w][k] # c
    <2>1. k \in DOMAIN listeners[w] /\ listeners'[w][k] = listeners[w][k] /\ (w = v => k # id)
      BY <1>7
    <2>2. /\ listeners[w][k] \in Calls
          /\ calls[listeners[w][k]].on = w /\ calls[listeners[w][k]].id = k
      BY <2>1, <1>t DEF Here, Heard, Caller
    <2> QED BY <2>1, <2>2, <1>1 DEF Settles
  <1>14. ASSUME NEW w \in Instance PROVE Matched(w)'
    <2>1. CASE w = v
      <3>1. PICK n, D, q : n = nextId[v] /\ D = DOMAIN listeners[v] /\ q = requests[v]
        OBVIOUS
      <3>2. Match(n, D, q, p) /\ n \in Nat /\ q \in Seq(RequestMessage)
        BY <3>1, <1>4, <1>t, TypedViz DEF Here, Matched
      <3>3. Match(n, D \ {Head(p).id}, q, Tail(p))
        BY <3>2, <1>5, MatchHeard
      <3>4. Match(n, D \ {id}, q, Tail(p))
        BY <3>3, <1>1, <1>4, <1>5 DEF Settles
      <3> QED BY <3>1, <3>4, <2>1, <1>3, <1>7, <1>8 DEF Matched
    <2>2. CASE w # v
      <3>1. Matched(w)
        BY <1>t DEF Here
      <3>2. /\ nextId'[w] = nextId[w] /\ requests'[w] = requests[w]
            /\ listeners'[w] = listeners[w] /\ replies'[w] = replies[w]
        BY <2>2, <1>3, <1>7, <1>8
      <3> QED BY <3>1, <3>2 DEF Matched
    <2> QED BY <2>1, <2>2
  <1>15. ASSUME NEW w \in Instance PROVE Here(w)'
    <2>1. ASSUME NEW j \in DOMAIN replies'[w]
          PROVE  \E i \in DOMAIN replies[w] : replies'[w][j] = replies[w][i]
      <3>1. CASE w = v
        <4>1. j \in 1 .. (Len(p) - 1) /\ replies'[w][j] = Tail(p)[j]
          BY <3>1, <1>5, <1>8
        <4>2. j + 1 \in DOMAIN p /\ Tail(p)[j] = p[j + 1]
          BY <4>1, <1>5
        <4> QED BY <3>1, <4>1, <4>2, <1>4
      <3> QED BY <3>1, <1>8
    <2>2. /\ \A j \in DOMAIN replies'[w] : replies'[w][j].id \in DOMAIN listeners'[w]
          /\ \A i \in DOMAIN requests'[w] : requests'[w][i].id \in DOMAIN listeners'[w]
      <3>1. PICK n, D, q, s : /\ n = nextId'[w] /\ D = DOMAIN listeners'[w]
                              /\ q = requests'[w] /\ s = replies'[w]
        OBVIOUS
      <3>2. n \in Nat /\ q \in Seq(RequestMessage) /\ s \in Seq(ReplyMessage)
        BY <3>1, <1>11 DEF TypeOK, RequestMessage, ReplyMessage
      <3>3. Match(n, D, q, s)
        BY <3>1, <1>14 DEF Matched
      <3>4. /\ \A i \in DOMAIN q : q[i].id \in D
            /\ \A j \in DOMAIN s : s[j].id \in D
        BY <3>2, <3>3, MatchIds
      <3> QED BY <3>1, <3>4
    <2>3. Heard(w)'
      BY <1>2, <1>13, <1>t DEF Here, Heard, Caller
    <2>4. Mail(w)'
      <3>1. ASSUME NEW i \in DOMAIN requests'[w]
            PROVE  requests'[w][i].src = calls'[listeners'[w][requests'[w][i].id]].src
        <4>1. requests[w][i].src = calls[listeners[w][requests[w][i].id]].src
          BY <1>3, <1>t DEF Here, Mail, Caller
        <4>2. PICK k \in DOMAIN listeners'[w] : k = requests'[w][i].id
          BY <2>2
        <4>3. calls'[listeners'[w][k]].src = calls[listeners[w][k]].src
          BY <1>2, <1>13
        <4> QED BY <4>1, <4>2, <4>3, <1>3
      <3>2. ASSUME NEW j \in DOMAIN replies'[w]
            PROVE  \/ replies'[w][j].answer = Failed
                   \/ /\ replies'[w][j].answer = calls'[listeners'[w][replies'[w][j].id]].src
                      /\ replies'[w][j].answer \notin Bad
        <4>1. PICK i \in DOMAIN replies[w] : replies'[w][j] = replies[w][i]
          BY <2>1
        <4>2. \/ replies[w][i].answer = Failed
              \/ /\ replies[w][i].answer = calls[listeners[w][replies[w][i].id]].src
                 /\ replies[w][i].answer \notin Bad
          BY <1>t DEF Here, Mail, Caller
        <4>3. PICK k \in DOMAIN listeners'[w] : k = replies'[w][j].id
          BY <2>2
        <4>4. calls'[listeners'[w][k]].src = calls[listeners[w][k]].src
          BY <1>2, <1>13
        <4> QED BY <4>1, <4>2, <4>3, <4>4
      <3> QED BY <3>1, <3>2 DEF Mail, Caller
    <2>5. Spoilt(w)'
      <3>1. PICK k : k = nextId[w] - Len(requests[w])
        OBVIOUS
      <3>2. worker[w] = "spoiled" => SpoiltBy(w, k)
        BY <3>1, <1>t DEF Here, Spoilt
      <3>3. worker'[w] = "spoiled" => SpoiltBy(w, k)'
        BY <3>2, <1>3, <1>12
      <3> QED BY <3>1, <3>3, <1>3 DEF Spoilt
    <2>6. Blamed(w)'
      <3> SUFFICES ASSUME NEW j \in DOMAIN replies'[w], replies'[w][j].answer = Failed,
                          NEW k, k = replies'[w][j].id
                   PROVE  calls'[listeners'[w][k]].src \in Bad \/ SpoiltBy(w, k)'
        BY DEF Blamed, Caller, SpoiltBy
      <3>1. PICK i \in DOMAIN replies[w] : replies'[w][j] = replies[w][i]
        BY <2>1
      <3>2. calls[listeners[w][k]].src \in Bad \/ SpoiltBy(w, k)
        BY <3>1, <1>t DEF Here, Blamed, Caller
      <3>3. calls'[listeners'[w][k]].src = calls[listeners[w][k]].src
        BY <2>2, <1>2, <1>13
      <3> QED BY <3>2, <3>3, <1>12
    <2> QED BY <2>3, <2>4, <2>5, <2>6, <1>14 DEF Here
  <1>16. ASSUME NEW d \in Calls' PROVE Logged(d)'
    <2>1. d \in Calls /\ Logged(d) /\ calls[d] \in CallRecord
      BY <1>2, <1>t, Typed DEF IInv
    <2>2. PICK w \in Instance, k \in Nat : w = calls[d].on /\ k = calls[d].id
      BY <2>1 DEF CallRecord
    <2>3. calls'[d].on = w /\ calls'[d].id = k /\ calls'[d].src = calls[d].src
      BY <2>1, <2>2, <1>2
    <2>4. w <= viz' /\ k < nextId'[w]
      <3>1. w <= viz /\ k < nextId[w] /\ w \in Nat
        BY <2>1, <2>2 DEF Logged, Instance
      <3> QED BY <3>1, <1>3, <1>9
    <2>5. calls'[d].answer = Pending => k \in DOMAIN listeners'[w] /\ listeners'[w][k] = d
      <3> SUFFICES ASSUME calls'[d].answer = Pending
                   PROVE  k \in DOMAIN listeners'[w] /\ listeners'[w][k] = d
        OBVIOUS
      <3>1. a # Pending
        BY VizAssumption DEF Answers
      <3>2. d # c /\ calls[d].answer = Pending
        BY <3>1, <2>1, <1>2
      <3>3. k \in DOMAIN listeners[w] /\ listeners[w][k] = d
        BY <3>2, <2>1, <2>2 DEF Logged
      <3>4. w = v => k # id
        BY <3>2, <3>3, <1>1 DEF Settles
      <3> QED BY <3>3, <3>4, <1>7
    <2>6. calls'[d].answer \in Source => calls[d].src \notin Bad
      <3>1. a \in Source => calls[c].src \notin Bad
        <4>1. \/ a = Failed
              \/ a = calls[c].src /\ a \notin Bad
          BY <1>1, <1>t DEF Settles, Here, Mail, Caller
        <4> QED BY <4>1, VizAssumption
      <3> QED BY <3>1, <2>1, <1>2 DEF Logged
    <2>7. calls'[d].answer = Failed => w < viz'
      <3>1. CASE d = c
        <4>1. w = v /\ v <= viz
          BY <3>1, <2>1, <2>2, <1>1 DEF Settles, Logged
        <4>2. a = Failed => viz' = viz + 1
          BY <1>1 DEF Settles
        <4>3. v \in Nat
          BY DEF Instance
        <4> QED BY <4>1, <4>2, <4>3, <3>1, <1>2, <1>9
      <3>2. CASE d # c
        <4>1. calls[d].answer = Failed => w < viz /\ w \in Nat
          BY <2>1, <2>2 DEF Logged, Instance
        <4> QED BY <4>1, <3>2, <2>1, <1>2, <1>9
      <3> QED BY <3>1, <3>2
    <2> QED BY <2>3, <2>4, <2>5, <2>6, <2>7 DEF Logged
  <1>17. ASSUME NEW d \in Calls', NEW e \in Calls' PROVE Ordered(d, e)'
    <2>1. Ordered(d, e) /\ d \in Calls /\ e \in Calls
      BY <1>2 DEF IInv
    <2>2. calls[e].answer \in Source => e # c
      BY <1>1, VizAssumption DEF Settles
    <2> QED BY <2>1, <2>2, <1>2 DEF Ordered
  <1> QED BY <1>10, <1>11, <1>15, <1>16, <1>17 DEF IInv

-----------------------------------------------------------------------------
(* The theorems.                                                           *)

LEMMA Step ==
    ASSUME IInv, [Next]_vizVars
    PROVE  IInv'
  <1>1. ASSUME NEW src \in Source, Render(src) PROVE IInv'
    BY <1>1, RenderKeeps
  <1>2. ASSUME NEW v \in Instance, Load(v) PROVE IInv'
    BY <1>2, LoadKeeps
  <1>3. ASSUME NEW v \in Instance, Answer(v) PROVE IInv'
    BY <1>3, AnswerKeeps
  <1>4. ASSUME NEW v \in Instance, Message(v) PROVE IInv'
    BY <1>4, MessageKeeps
  <1>5. CASE UNCHANGED vizVars
    <2>1. /\ viz' = viz /\ calls' = calls /\ nextId' = nextId /\ listeners' = listeners
          /\ worker' = worker /\ requests' = requests /\ replies' = replies
      BY <1>5 DEF vizVars
    <2>2. Calls' = Calls /\ Fails' = Fails
      BY <2>1 DEF Calls, Fails
    <2>3. TypeOK' /\ Counted'
      BY <2>1, <2>2 DEF IInv, TypeOK, Counted, Calls
    <2>4. ASSUME NEW v \in Instance PROVE Here(v)'
      <3>1. Here(v)
        BY DEF IInv
      <3>2. \A id : Caller(v, id)' = Caller(v, id)
        BY <2>1 DEF Caller
      <3>3. \A n : SpoiltBy(v, n)' = SpoiltBy(v, n)
        BY <2>1, <2>2 DEF SpoiltBy
      <3>4. Matched(v)' /\ Heard(v)'
        BY <2>1, <2>2, <3>1, <3>2 DEF Here, Matched, Heard
      <3>5. Mail(v)' /\ Spoilt(v)' /\ Blamed(v)'
        BY <2>1, <3>1, <3>2, <3>3 DEF Here, Mail, Spoilt, Blamed
      <3> QED BY <3>4, <3>5 DEF Here
    <2>5. \A c \in Calls' : Logged(c)'
      BY <2>1, <2>2 DEF IInv, Logged
    <2>6. \A c, d \in Calls' : Ordered(c, d)'
      BY <2>1, <2>2 DEF IInv, Ordered
    <2> QED BY <2>3, <2>4, <2>5, <2>6 DEF IInv
  <1> QED BY <1>1, <1>2, <1>3, <1>4, <1>5 DEF Next

LEMMA Inductive == Spec => []IInv
  BY InitHolds, Step, PTL DEF Spec

\* TypeOK: in particular the Viz of the page never runs out of the instances
\* there can be, one more than there are calls.
THEOREM VizTypeCorrect == Spec => []TypeOK
  <1>1. IInv => TypeOK
    BY DEF IInv
  <1> QED BY <1>1, Inductive, PTL

\* ListenersMatchMessages: a reply finds its listener, whatever the graphs, the
\* number of calls and the order in which page and workers take their turns.
THEOREM MessagesFindListeners == Spec => []ListenersMatchMessages
  <1>1. IInv => ListenersMatchMessages
    BY DEF IInv, Here, Matched, Match, ListenersMatchMessages
  <1> QED BY <1>1, Inductive, PTL

-----------------------------------------------------------------------------
(* The refinement of Rendering.                                            *)

SeenOf(s) == [c \in DOMAIN s |-> [src |-> s[c].src, answer |-> s[c].answer,
                                  behind |-> s[c].behind]]

SeenRecord == [src : Source, answer : Answers \cup {Pending}, behind : SUBSET (1 .. MaxCalls)]

LEMMA SeenFacts ==
    ASSUME NEW s \in Seq(CallRecord)
    PROVE  /\ SeenOf(s) \in Seq(SeenRecord) /\ Len(SeenOf(s)) = Len(s)
           /\ DOMAIN SeenOf(s) = 1 .. Len(s) /\ Len(s) \in Nat
           /\ \A c \in 1 .. Len(s) :
                SeenOf(s)[c] = [src |-> s[c].src, answer |-> s[c].answer, behind |-> s[c].behind]
  <1>1. Len(s) \in Nat /\ DOMAIN s = 1 .. Len(s)
    OBVIOUS
  <1>2. \A c \in 1 .. Len(s) : s[c] \in CallRecord
    BY ElementOfSeq
  <1>3. SeenOf(s) \in [1 .. Len(s) -> SeenRecord]
    BY <1>1, <1>2 DEF SeenOf, CallRecord, SeenRecord
  <1>4. SeenOf(s) \in Seq(SeenRecord)
    BY <1>1, <1>3, SeqDef
  <1>5. Len(SeenOf(s)) = Len(s)
    BY <1>1, <1>3, <1>4, LenProperties
  <1> QED BY <1>1, <1>3, <1>4, <1>5 DEF SeenOf

LEMMA SeenInit == Init => Seen = << >>
  <1> SUFFICES ASSUME Init PROVE Seen = << >>
    OBVIOUS
  <1>1. PICK s : s = << >>
    OBVIOUS
  <1>2. s \in Seq(CallRecord) /\ Len(s) = 0
    BY <1>1, EmptySeq
  <1>3. SeenOf(s) \in Seq(SeenRecord) /\ Len(SeenOf(s)) = 0
    BY <1>2, SeenFacts
  <1>4. SeenOf(s) = << >>
    BY <1>3, EmptySeq
  <1>5. Seen = SeenOf(calls)
    BY DEF Seen, SeenOf, Calls
  <1> QED BY <1>1, <1>4, <1>5 DEF Init

\* A call of GraphRenderer.render asks.
LEMMA RenderAsks ==
    ASSUME IInv, IInv', NEW src \in Source, Render(src)
    PROVE  Promise!Ask(src)
  <1>1. PICK s, t, r :
          /\ s = calls /\ t = calls' /\ t = Append(s, r)
          /\ r.src = src /\ r.answer = Pending
          /\ r.behind = {c \in Calls : calls[c].answer = Pending}
    <2>1. PICK v : v = IF viz = 0 THEN NewViz ELSE viz
      OBVIOUS
    <2>2. calls' = Append(calls,
             [src |-> src, on |-> v, id |-> nextId[v], answer |-> Pending,
              behind |-> {c \in Calls : calls[c].answer = Pending}])
      BY <2>1 DEF Render
    <2>3. PICK r : r = [src |-> src, on |-> v, id |-> nextId[v], answer |-> Pending,
                        behind |-> {c \in Calls : calls[c].answer = Pending}]
      OBVIOUS
    <2>4. /\ r.src = src /\ r.answer = Pending
          /\ r.behind = {c \in Calls : calls[c].answer = Pending}
      BY <2>3
    <2>5. calls' = Append(calls, r)
      BY <2>2, <2>3
    <2> QED BY <2>4, <2>5
  <1>2. s \in Seq(CallRecord) /\ t \in Seq(CallRecord) /\ DOMAIN s = 1 .. Len(s) /\ Calls = 1 .. Len(s)
    BY <1>1 DEF IInv, TypeOK, Calls
  <1>3. Len(t) = Len(s) + 1 /\ t[Len(s) + 1] = r /\ \A c \in 1 .. Len(s) : t[c] = s[c]
    BY <1>1, <1>2, AppendProperties
  <1>4. Seen = SeenOf(s) /\ Seen' = SeenOf(t)
    BY <1>1 DEF Seen, SeenOf, Calls
  <1>5. PICK x, y, m : x = SeenOf(s) /\ y = SeenOf(t) /\ m = Promise!Asked(src)
    OBVIOUS
  <1>6. /\ x \in Seq(SeenRecord) /\ y \in Seq(SeenRecord) /\ Len(x) = Len(s) /\ Len(y) = Len(s) + 1
        /\ DOMAIN x = 1 .. Len(s) /\ Len(s) \in Nat
        /\ \A c \in 1 .. Len(s) :
             x[c] = [src |-> s[c].src, answer |-> s[c].answer, behind |-> s[c].behind]
        /\ \A c \in 1 .. (Len(s) + 1) :
             y[c] = [src |-> t[c].src, answer |-> t[c].answer, behind |-> t[c].behind]
    BY <1>2, <1>3, <1>5, SeenFacts
  <1>7. m = y[Len(s) + 1]
    <2>1. m = [src |-> src, answer |-> Pending, behind |-> {c \in DOMAIN x : x[c].answer = Pending}]
      <3>1. x = Seen
        BY <1>4, <1>5
      <3>2. Promise!Asked(src) = [src |-> src, answer |-> Pending,
                                  behind |-> {c \in DOMAIN Seen : Seen[c].answer = Pending}]
        BY DEF Promise!Asked
      <3> QED BY <3>1, <3>2, <1>5
    <2>2. y[Len(s) + 1] = [src |-> src, answer |-> Pending, behind |-> r.behind]
      <3>1. PICK n : n = Len(s) + 1
        OBVIOUS
      <3>2. n \in 1 .. n /\ t[n] = r
        BY <3>1, <1>3, <1>6
      <3>3. y[n] = [src |-> t[n].src, answer |-> t[n].answer, behind |-> t[n].behind]
        BY <3>1, <3>2, <1>6
      <3>4. y[n] = [src |-> r.src, answer |-> r.answer, behind |-> r.behind]
        BY <3>2, <3>3
      <3> QED BY <3>1, <3>4, <1>1
    <2>3. r.behind = {c \in DOMAIN x : x[c].answer = Pending}
      BY <1>1, <1>2, <1>6
    <2> QED BY <2>1, <2>2, <2>3
  <1>8. m \in SeenRecord
    BY <1>6, <1>7, ElementOfSeq
  <1>9. /\ Append(x, m) \in Seq(SeenRecord) /\ Len(Append(x, m)) = Len(x) + 1
        /\ \A c \in 1 .. Len(x) : Append(x, m)[c] = x[c]
        /\ Append(x, m)[Len(x) + 1] = m
    BY <1>6, <1>8, AppendProperties
  <1>10. ASSUME NEW c \in 1 .. Len(y) PROVE y[c] = Append(x, m)[c]
    <2>1. CASE c \in 1 .. Len(s)
      BY <2>1, <1>3, <1>6, <1>9
    <2>2. CASE c = Len(s) + 1
      BY <2>2, <1>6, <1>7, <1>9
    <2> QED BY <2>1, <2>2, <1>6
  <1>11. y = Append(x, m)
    BY <1>6, <1>9, <1>10, SeqEqual
  <1> QED BY <1>4, <1>5, <1>11 DEF Promise!Ask

\* A reply that is heard draws, or fails for the reason Rendering allows.
LEMMA MessageAnswers ==
    ASSUME IInv, NEW v \in Instance, Message(v)
    PROVE  Promise!Next
  <1>t. TypeOK /\ Here(v)
    BY DEF IInv
  <1>1. PICK id \in Nat, c \in Calls, a \in Answers : Settles(v, id, c, a)
    BY <1>t, MessageSettles
  <1>2. /\ calls' \in Seq(CallRecord) /\ Len(calls') = Len(calls) /\ Calls' = Calls
        /\ \A d \in Calls : /\ calls'[d].src = calls[d].src /\ calls'[d].on = calls[d].on
                           /\ calls'[d].id = calls[d].id /\ calls'[d].behind = calls[d].behind
                           /\ calls'[d].answer = IF d = c THEN a ELSE calls[d].answer
    BY <1>1, <1>t, LogSettled DEF Settles
  <1>3. /\ DOMAIN Seen = Calls
        /\ \A d \in Calls : Seen[d].src = calls[d].src /\ Seen[d].answer = calls[d].answer
                           /\ Seen[d].behind = calls[d].behind
    BY DEF Seen
  <1>4. Seen' = [Seen EXCEPT ![c].answer = a]
    <2>1. Seen' = [d \in Calls |-> [src |-> calls'[d].src, answer |-> calls'[d].answer,
                                    behind |-> calls'[d].behind]]
      BY <1>2 DEF Seen
    <2>2. Seen' = [d \in Calls |-> [src |-> calls[d].src,
                                    answer |-> IF d = c THEN a ELSE calls[d].answer,
                                    behind |-> calls[d].behind]]
      BY <2>1, <1>2
    <2>3. [Seen EXCEPT ![c].answer = a] =
            [d \in Calls |-> IF d = c THEN [Seen[c] EXCEPT !.answer = a] ELSE Seen[d]]
      BY DEF Seen
    <2>4. [Seen[c] EXCEPT !.answer = a] =
            [src |-> calls[c].src, answer |-> a, behind |-> calls[c].behind]
      BY DEF Seen
    <2>5. \A d \in Calls : Seen[d] = [src |-> calls[d].src, answer |-> calls[d].answer,
                                      behind |-> calls[d].behind]
      BY DEF Seen
    <2> QED BY <2>2, <2>3, <2>4, <2>5
  <1>5. Promise!Answer(c, a)
    BY <1>1, <1>3, <1>4 DEF Settles, Promise!Answer
  <1>6. CASE a # Failed
    <2>1. a = calls[c].src /\ a \notin Bad
      BY <1>1, <1>6, <1>t DEF Settles, Here, Mail, Caller
    <2>2. Promise!Draw(c)
      BY <2>1, <1>3, <1>5 DEF Promise!Draw
    <2> QED BY <2>2, <1>3 DEF Promise!Next
  <1>7. CASE a = Failed
    <2>1. CASE calls[c].src \in Bad
      BY <2>1, <1>3, <1>5, <1>7 DEF Promise!Fail, Promise!Next
    <2>2. CASE calls[c].src \notin Bad
      <3>1. SpoiltBy(v, id)
        BY <2>2, <1>1, <1>7, <1>t DEF Settles, Here, Blamed, Caller
      <3>2. PICK d \in Calls : calls[d].on = v /\ calls[d].src \in Bad /\ calls[d].id < id
        BY <3>1 DEF SpoiltBy
      <3>3. Logged(d) /\ Ordered(c, d) /\ calls[d] \in CallRecord
        BY <1>t, Typed DEF IInv
      <3>4. calls[d].answer \notin Source
        BY <3>2, <3>3 DEF Logged
      <3>5. d \in calls[c].behind
        BY <3>2, <3>3, <3>4, <1>1 DEF Ordered, Settles
      <3>6. calls[d].answer # Pending
        <4>1. calls[d].id \in Nat
          BY <3>3 DEF CallRecord
        <4>2. ASSUME calls[d].answer = Pending PROVE FALSE
          <5>1. calls[d].id \in DOMAIN listeners[v]
            BY <4>2, <3>2, <3>3 DEF Logged
          <5>2. id <= calls[d].id
            BY <5>1, <1>1 DEF Settles
          <5> QED BY <5>2, <4>1, <3>2
        <4> QED BY <4>2
      <3>7. calls[d].answer = Failed
        BY <3>3, <3>4, <3>6 DEF CallRecord, Answers
      <3>8. Promise!Fail(c)
        BY <3>2, <3>5, <3>7, <1>3, <1>5, <1>7 DEF Promise!Fail
      <3> QED BY <3>8, <1>3 DEF Promise!Next
    <2> QED BY <2>1, <2>2
  <1> QED BY <1>6, <1>7

LEMMA StepRefines ==
    ASSUME IInv, IInv', [Next]_vizVars
    PROVE  [Promise!Next]_Seen
  <1>1. ASSUME NEW src \in Source, Render(src) PROVE Promise!Next
    BY <1>1, RenderAsks DEF Promise!Next
  <1>2. ASSUME NEW v \in Instance, Message(v) PROVE Promise!Next
    BY <1>2, MessageAnswers
  <1>3. ASSUME NEW v \in Instance, Load(v) \/ Answer(v) PROVE UNCHANGED Seen
    BY <1>3 DEF Load, Answer, Seen, Calls
  <1>4. CASE UNCHANGED vizVars
    BY <1>4 DEF vizVars, Seen, Calls
  <1> QED BY <1>1, <1>2, <1>3, <1>4 DEF Next

\* RendersAsPromised: page, workers and messages together do what Rendering
\* says: each call is answered once, with the drawing of its own source, and a
\* good graph fails only behind a bad one that was waiting.
THEOREM RenderingIsImplemented == Spec => RendersAsPromised
  <1>1. IInv /\ IInv' /\ [Next]_vizVars => [Promise!Next]_Seen
    BY StepRefines
  <1>2. Init => Seen = << >>
    BY SeenInit
  <1> QED BY <1>1, <1>2, Inductive, PTL DEF Spec, RendersAsPromised, Promise!Spec
=============================================================================
