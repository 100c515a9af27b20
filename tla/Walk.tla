-------------------------------- MODULE Walk --------------------------------
(***************************************************************************)
(* What the checkpoints of a run promise: read one after the other they    *)
(* are a walk through the graph, each node chosen by the routing rules     *)
(* from the outcome of the node checkpointed before it, as if no process   *)
(* had ever crashed.  A crash, a resume and a repeated attempt do not show. *)
(* RunLoop implements this (RunHistory!WalkSpec).                          *)
(***************************************************************************)
EXTENDS Routing

CONSTANTS Graph, Start, Terminal, Outcomes

VARIABLES
    last,  \* the node checkpointed last
    out,   \* its outcome
    seen,  \* the outcome each node of this iteration was last checkpointed with
    join   \* the context key parallel.join_node

walk == <<last, out, seen, join>>

Fresh == [n \in Node |-> NoOutcome]

Init ==
    /\ last = NoNode
    /\ out = NoOutcome
    /\ seen = Fresh
    /\ join = NoNode

\* Reaching a terminal node with an unsatisfied gate means reaching the gate's
\* retry target.
Landing(n, outcomes) ==
    LET failed == IF n \in Terminal THEN FailedGates(Graph, outcomes) ELSE {}
    IN  IF failed = {} THEN {n}
        ELSE {ResolveRetryTarget(Graph, gate) : gate \in failed} \ (Terminal \cup {NoNode})

\* Node n completes with outcome o, coming from the outcomes and the join given.
Complete(n, outcomes, from) ==
    \E o \in Outcomes[n] :
        /\ last' = n
        /\ out' = o
        /\ seen' = [outcomes EXCEPT ![n] = o]
        /\ join' = IF o.join # NoNode THEN o.join ELSE from

Decision == Decide(Graph, last, out, join)

Begin ==
    /\ last = NoNode
    /\ \E n \in Landing(Start, seen) : Complete(n, seen, join)

Hop ==
    /\ last # NoNode
    /\ Decision.kind = "hop"
    /\ \E n \in Landing(Decision.to, seen) : Complete(n, seen, join)

FanOutAndJoin ==
    /\ last # NoNode
    /\ Decision.kind = "fan_out"
    /\ \E n \in Landing(Decision.to, seen) : Complete(n, seen, Decision.to)

\* A restart forgets the outcomes.  When a crash falls on it, the resumed run
\* follows the edge without a restart and remembers them.
Restart ==
    /\ last # NoNode
    /\ Decision.kind = "restart"
    /\ \/ \E n \in Landing(Decision.to, Fresh) : Complete(n, Fresh, NoNode)
       \/ \E n \in Landing(Decision.to, seen) : Complete(n, seen, join)

Next == Begin \/ Hop \/ FanOutAndJoin \/ Restart

Spec == Init /\ [][Next]_walk

-----------------------------------------------------------------------------

\* No walk ends at a terminal node past an unsatisfied gate.
WalkPassesGates == last \in Terminal => FailedGates(Graph, seen) = {}
=============================================================================
