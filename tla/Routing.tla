------------------------------ MODULE Routing ------------------------------
(***************************************************************************)
(* Where a run goes after a node: edge selection, the failure policy of    *)
(* fan-in nodes, retry targets, the join of a fan-out and the goal gates.  *)
(* src/internal/attractor/engine: engine.go, next_hop.go,                  *)
(* parallel_handlers.go.                                                   *)
(*                                                                         *)
(* A graph is a record:                                                    *)
(*   edges      the edges                                                  *)
(*   fanIn      nodes of type parallel.fan_in                              *)
(*   parallel   nodes of type parallel                                     *)
(*   gates      nodes with goal_gate=true                                  *)
(*   retry      for every node <<retry_target, fallback_retry_target>>     *)
(*   retryAll   the same two attributes of the graph                       *)
(*                                                                         *)
(* An edge is [from, to, guarded, when, label, weight, order, restart]: its *)
(* condition, when it has one (guarded), is the set of <<status, class>>   *)
(* pairs it holds for.  An outcome is [status, class, label, next]: class  *)
(* is what classifyFailureClass makes of it, label the preferred label     *)
(* after normalizeLabel, next the suggested ids.  Conditions on other      *)
(* context keys are left out.                                              *)
(***************************************************************************)
EXTENDS Integers, Sequences, FiniteSets

CONSTANTS
    Node,      \* node ids
    NoNode,    \* no node id
    NoLabel,   \* an empty label
    NoOutcome, \* a node without an outcome
    Rank       \* the lexical order of node ids

ASSUME RoutingAssumption ==
    /\ Rank \in [Node -> Nat]
    /\ \A m, n \in Node : Rank[m] = Rank[n] => m = n
    /\ NoNode \notin Node

AnyNode == Node \cup {NoNode}

\* What the validator lets through: lintEdgeTargetsExist refuses an edge to a
\* node that is not there.  lintRetryTargetsExist only warns of such a target.
IsEdge(e) ==
    /\ e.from \in Node /\ e.to \in Node
    /\ e.weight \in Int /\ e.order \in Nat
    /\ e.guarded \in BOOLEAN /\ e.restart \in BOOLEAN

IsGraph(g) ==
    /\ IsFiniteSet(Node)
    /\ IsFiniteSet(g.edges)
    /\ \A e \in g.edges : IsEdge(e)
    /\ g.fanIn \subseteq Node /\ g.parallel \subseteq Node /\ g.gates \subseteq Node
    /\ g.retry \in [Node -> AnyNode \X AnyNode]
    /\ g.retryAll \in AnyNode \X AnyNode

Failing(o) == o.status \in {"fail", "retry"}
Passing(o) == o.status \in {"success", "degraded_success", "partial_success"}

Outgoing(g, n) == {e \in g.edges : e.from = n}

-----------------------------------------------------------------------------
(* Edge selection *)

Matches(e, o) == e.guarded /\ <<o.status, o.class>> \in e.when

\* The edge declared first.
Earliest(edges) == CHOOSE e \in edges : \A f \in edges : e.order <= f.order

\* bestEdge's order: weight descending, target ascending, declaration.
Better(e, f) ==
    \/ e.weight > f.weight
    \/ e.weight = f.weight /\ Rank[e.to] < Rank[f.to]
    \/ e.weight = f.weight /\ e.to = f.to /\ e.order <= f.order

BestEdge(edges) == CHOOSE e \in edges : \A f \in edges : Better(e, f)

\* Edges to the first suggested id that has any.
Suggested(edges, o) ==
    LET Hit(i) == {e \in edges : e.to = o.next[i]}
        hits == {i \in DOMAIN o.next : Hit(i) # {}}
    IN  IF hits = {} THEN {} ELSE Hit(CHOOSE i \in hits : \A j \in hits : i <= j)

SelectAllEligibleEdges(g, n, o) ==
    LET edges == Outgoing(g, n)
        matched == {e \in edges : Matches(e, o)}
        labelled == {e \in edges : o.label # NoLabel /\ e.label = o.label}
        suggested == Suggested(edges, o)
        plain == {e \in edges : ~e.guarded}
    IN  CASE matched # {} -> matched
          [] matched = {} /\ labelled # {} -> {Earliest(labelled)}
          [] matched = {} /\ labelled = {} /\ suggested # {} -> {Earliest(suggested)}
          [] matched = {} /\ labelled = {} /\ suggested = {} /\ plain # {} -> plain
          [] OTHER -> edges

-----------------------------------------------------------------------------
(* The next hop *)

FailingFanIn(g, n, o) == n \in g.fanIn /\ Failing(o)

\* resolveRetryTargetWithSource: the first attribute that is set.
ResolveRetryTarget(g, n) ==
    LET chain == g.retry[n] \o g.retryAll
        set == {i \in DOMAIN chain : chain[i] # NoNode}
    IN  IF set = {} THEN NoNode ELSE chain[CHOOSE i \in set : \A j \in set : i <= j]

Stop == [kind |-> "stop", to |-> NoNode]
HopTo(n) == [kind |-> "hop", to |-> n]
Along(e) == [kind |-> IF e.restart THEN "restart" ELSE "hop", to |-> e.to]

ResolveNextHop(g, n, o) ==
    LET matched == {e \in Outgoing(g, n) : Matches(e, o)}
        target == ResolveRetryTarget(g, n)
        eligible == SelectAllEligibleEdges(g, n, o)
    IN  IF FailingFanIn(g, n, o)
        THEN CASE matched # {} -> Along(BestEdge(matched))
               [] matched = {} /\ o.class # "deterministic" /\ target # NoNode -> HopTo(target)
               [] OTHER -> Stop
        ELSE IF eligible = {} THEN Stop ELSE Along(BestEdge(eligible))

-----------------------------------------------------------------------------
(* The join of a fan-out *)

\* The nodes at most k edges away from a node, by k: what the two breadth-first
\* searches give, the distance of n being the number of k it is not within.
Within(g, start) ==
    LET Beside(n) == {n} \cup {e.to : e \in Outgoing(g, n)}
        f[k \in 0 .. Cardinality(Node)] ==
            IF k = 0 THEN {start} ELSE UNION {Beside(n) : n \in f[k - 1]}
    IN  f

Reachable(g, m) == Within(g, m)[Cardinality(Node)]

\* Of the candidates, the one nearest to the branch starts: by largest
\* distance, then total distance, then name.
Nearest(g, edges, cands) ==
    LET radius == 0 .. Cardinality(Node)
        Met(k) == {n \in cands : \A e \in edges : n \in Within(g, e.to)[k]}
        least == CHOOSE k \in radius : Met(k) # {} /\ \A i \in radius : i < k => Met(i) = {}
        total(n) == Cardinality({p \in edges \X radius : n \notin Within(g, p[1].to)[p[2]]})
        Closer(m, n) ==
            \/ total(m) < total(n)
            \/ total(m) = total(n) /\ Rank[m] <= Rank[n]
    IN  CHOOSE m \in Met(least) : \A n \in Met(least) : Closer(m, n)

\* findJoinNode: a fan-in every branch reaches (a branch may start at it), or
\* else any node strictly below every branch.
FindJoinNode(g, edges) ==
    LET starts == {e.to : e \in edges}
        fanIns == {n \in g.fanIn : \A s \in starts : n \in Reachable(g, s)}
        below == {n \in Node : \A s \in starts : n # s /\ n \in Reachable(g, s)}
    IN  CASE starts = {} -> NoNode
          [] starts # {} /\ fanIns # {} -> Nearest(g, edges, fanIns)
          [] starts # {} /\ fanIns = {} /\ below # {} -> Nearest(g, edges, below)
          [] OTHER -> NoNode

-----------------------------------------------------------------------------
(* What follows a completed node: lines 923 to 1073 of runLoop and, with the *)
(* same order of cases, lines 344 to 460 of resumeFromLogsRoot.              *)

\* An implicit fan-out runs before any failure policy is looked at.
FanOut(g, n, o) ==
    LET eligible == SelectAllEligibleEdges(g, n, o)
    IN  IF Cardinality(eligible) > 1 THEN FindJoinNode(g, eligible) ELSE NoNode

\* A failed node without a hop falls back to the retry targets, except for a
\* fan-in that failed deterministically.
Fallback(g, n, o) ==
    IF FailingFanIn(g, n, o) /\ o.class = "deterministic"
    THEN NoNode
    ELSE ResolveRetryTarget(g, n)

\* join: the value of the context key parallel.join_node.
Decide(g, n, o, join) ==
    LET spread == FanOut(g, n, o)
        hop == ResolveNextHop(g, n, o)
        back == Fallback(g, n, o)
    IN  CASE n \in g.parallel /\ join = NoNode -> [kind |-> "error", to |-> NoNode]
          [] n \in g.parallel /\ join # NoNode -> HopTo(join)
          [] n \notin g.parallel /\ spread # NoNode -> [kind |-> "fan_out", to |-> spread]
          [] n \notin g.parallel /\ spread = NoNode /\ hop.kind # "stop" -> hop
          [] n \notin g.parallel /\ spread = NoNode /\ hop.kind = "stop" ->
                 IF o.status # "fail" THEN [kind |-> "finish", to |-> NoNode]
                 ELSE IF back # NoNode THEN HopTo(back)
                 ELSE [kind |-> "fail", to |-> NoNode]

\* checkGoalGates looks at the nodes that have an outcome; which of several
\* unsatisfied gates it names depends on the iteration order of a Go map.
FailedGates(g, outcomes) ==
    {n \in g.gates : outcomes[n] # NoOutcome /\ ~Passing(outcomes[n])}
=============================================================================
