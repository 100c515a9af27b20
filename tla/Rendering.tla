----------------------------- MODULE Rendering -----------------------------
(* What GraphRenderer.render of the dashboard promises its callers, with no  *)
(* worker and no message in it: every call gets one answer, the drawing of   *)
(* its own source or a failure, and only a graph that cannot be drawn, or    *)
(* one that was waiting behind such a graph, fails.                          *)
EXTENDS Naturals, Sequences

CONSTANTS
    Source,        \* the DOT texts
    Bad,           \* those that Graphviz refuses
    Pending,       \* the promise has not settled
    Failed         \* the promise was rejected

VARIABLE calls     \* the calls in the order they were made

Asked(src) == [src    |-> src,
               answer |-> Pending,
               behind |-> {c \in DOMAIN calls : calls[c].answer = Pending}]

Ask(src) == calls' = Append(calls, Asked(src))

Answer(c, answer) ==
    /\ calls[c].answer = Pending
    /\ calls' = [calls EXCEPT ![c].answer = answer]

Draw(c) ==
    /\ calls[c].src \notin Bad
    /\ Answer(c, calls[c].src)

Fail(c) ==
    /\ \/ calls[c].src \in Bad
       \/ \E d \in calls[c].behind : calls[d].src \in Bad /\ calls[d].answer = Failed
    /\ Answer(c, Failed)

Next ==
    \/ \E src \in Source : Ask(src)
    \/ \E c \in DOMAIN calls : Draw(c) \/ Fail(c)

Spec == calls = << >> /\ [][Next]_calls
=============================================================================
