--------------------------- MODULE RoutingProofs ---------------------------
(***************************************************************************)
(* The routing rules of every finite, valid graph are defined: each order  *)
(* the engine chooses by is total on what it chooses from, so each choice  *)
(* is one of the candidates, and a decision to move names a node.  And     *)
(* they choose what they are meant to: the join nearest to the branches,   *)
(* the first retry target that is set.  The searches of the graph are      *)
(* compared with its walks (Path), round by round.                         *)
(***************************************************************************)
EXTENDS Routing, FiniteSetTheorems, SequenceTheorems, TLAPS

\* A total and transitive relation has a least element on a finite set: take the
\* element with the fewest below it.
LEMMA LeastOfFinite ==
    ASSUME NEW S, IsFiniteSet(S), S # {}, NEW R,
           \A x, y \in S : <<x, y>> \in R \/ <<y, x>> \in R,
           \A x, y, z \in S : <<x, y>> \in R /\ <<y, z>> \in R => <<x, z>> \in R
    PROVE  \E x \in S : \A y \in S : <<x, y>> \in R
  <1> DEFINE Below(x) == {y \in S : <<y, x>> \in R /\ <<x, y>> \notin R}
  <1> DEFINE T == {Below(x) : x \in S}
  <1>1. IsWellFoundedOn(StrictSubsetOrdering(S), SUBSET S)
    BY FS_StrictSubsetOrderingWellFounded, FS_FiniteSubsetsOfFinite
  <1>2. T \subseteq SUBSET S /\ T # {}
    <2>1. \A x \in S : Below(x) \subseteq S
      OBVIOUS
    <2>2. PICK x \in S : TRUE
      OBVIOUS
    <2>3. Below(x) \in T
      OBVIOUS
    <2> HIDE DEF Below
    <2> QED BY <2>1, <2>3
  <1> HIDE DEF T
  <1>3. PICK B \in T : \A C \in T : <<C, B>> \notin StrictSubsetOrdering(S)
    BY <1>1, <1>2, WFMin
  <1>4. PICK x \in S : B = Below(x)
    BY <1>3 DEF T
  <1>5. ASSUME NEW y \in S, <<x, y>> \notin R PROVE FALSE
    <2>1. <<y, x>> \in R
      BY <1>5
    <2>2. Below(y) \subseteq Below(x)
      BY <2>1, <1>5
    <2>3. y \in Below(x) /\ y \notin Below(y)
      BY <2>1, <1>5
    <2>4. Below(y) \in T
      BY DEF T
    <2>5. <<Below(y), Below(x)>> \in StrictSubsetOrdering(S)
      BY <2>2, <2>3 DEF StrictSubsetOrdering
    <2> QED BY <2>4, <2>5, <1>3, <1>4
  <1> QED BY <1>5

\* A finite set of numbers has a least one.
LEMMA LeastNumber ==
    ASSUME NEW T \in SUBSET Nat, IsFiniteSet(T), T # {}
    PROVE  \E k \in T : \A i \in T : k <= i
  <1> DEFINE R == {p \in Nat \X Nat : p[1] <= p[2]}
  <1>1. \A i, k \in T : <<i, k>> \in R <=> i <= k
    OBVIOUS
  <1>2. \A i, k \in T : <<i, k>> \in R \/ <<k, i>> \in R
    OBVIOUS
  <1>3. \A i, j, k \in T : <<i, j>> \in R /\ <<j, k>> \in R => <<i, k>> \in R
    OBVIOUS
  <1> HIDE DEF R
  <1>4. \E k \in T : \A i \in T : <<k, i>> \in R
    BY <1>2, <1>3, LeastOfFinite
  <1> QED BY <1>1, <1>4

\* What holds of 0 and, with k, of k + 1 holds up to n: a least counterexample
\* would have a predecessor.
LEMMA UpTo ==
    ASSUME NEW n \in Nat, NEW T, 0 \in T, \A k \in 0 .. n - 1 : k \in T => k + 1 \in T
    PROVE  0 .. n \subseteq T
  <1> DEFINE Rest == {k \in 0 .. n : k \notin T}
  <1> SUFFICES ASSUME Rest # {} PROVE FALSE
    OBVIOUS
  <1>1. Rest \in SUBSET Nat /\ IsFiniteSet(Rest)
    <2>1. IsFiniteSet(0 .. n) /\ Rest \in SUBSET (0 .. n)
      BY FS_Interval
    <2>2. 0 .. n \subseteq Nat
      OBVIOUS
    <2> HIDE DEF Rest
    <2> QED BY <2>1, <2>2, FS_Subset
  <1>2. PICK k \in Rest : \A i \in Rest : k <= i
    <2> HIDE DEF Rest
    <2> QED BY <1>1, LeastNumber
  <1>3. k \in 1 .. n /\ k - 1 \in 0 .. n - 1 /\ k - 1 \notin Rest
    BY <1>2
  <1>4. k - 1 \in T
    BY <1>3
  <1>5. (k - 1) + 1 = k
    BY <1>3
  <1> QED BY <1>2, <1>3, <1>4, <1>5

\* A step can be taken n times in a row: the function that a search by rounds
\* defines exists.
LEMMA Iterates ==
    ASSUME NEW n \in Nat, NEW D, NEW a \in D, NEW step \in [D -> D]
    PROVE  \E f \in [0 .. n -> D] : f[0] = a /\ \A k \in 1 .. n : f[k] = step[f[k - 1]]
  <1> DEFINE T == {m \in Nat : \E f \in [0 .. m -> D] :
                                   f[0] = a /\ \A k \in 1 .. m : f[k] = step[f[k - 1]]}
  <1>1. 0 \in T
    <2>1. [k \in 0 .. 0 |-> a] \in [0 .. 0 -> D]
      OBVIOUS
    <2>2. [k \in 0 .. 0 |-> a][0] = a /\ 1 .. 0 = {}
      OBVIOUS
    <2> QED BY <2>1, <2>2
  <1>2. ASSUME NEW m \in 0 .. n - 1, m \in T PROVE m + 1 \in T
    <2>1. PICK f \in [0 .. m -> D] : f[0] = a /\ \A k \in 1 .. m : f[k] = step[f[k - 1]]
      BY <1>2
    <2> DEFINE h == [k \in 0 .. m + 1 |-> IF k = m + 1 THEN step[f[m]] ELSE f[k]]
    <2>2. h \in [0 .. m + 1 -> D] /\ h[0] = a
      BY <2>1
    <2>3. ASSUME NEW k \in 1 .. m + 1 PROVE h[k] = step[h[k - 1]]
      BY <2>1
    <2> HIDE DEF h
    <2> QED BY <2>2, <2>3
  <1>3. n \in 0 .. n
    OBVIOUS
  <1>4. n \in T
    <2> HIDE DEF T
    <2> QED BY <1>1, <1>2, <1>3, UpTo
  <1> QED BY <1>4

\* The edges out of a node are finitely many edges.
LEMMA OutgoingType ==
    ASSUME NEW g, IsGraph(g), NEW n
    PROVE  IsFiniteSet(Outgoing(g, n)) /\ \A e \in Outgoing(g, n) : IsEdge(e)
  <1>1. Outgoing(g, n) \in SUBSET g.edges
    BY DEF Outgoing
  <1> QED BY <1>1, FS_Subset DEF IsGraph

\* bestEdge's order is total on edges: it picks one of them.
LEMMA BestEdgeIn ==
    ASSUME NEW edges, IsFiniteSet(edges), edges # {}, \A e \in edges : IsEdge(e)
    PROVE  BestEdge(edges) \in edges
  <1> DEFINE R == {p \in edges \X edges : Better(p[1], p[2])}
  <1>1. \A e \in edges : e.weight \in Int /\ e.order \in Nat /\ e.to \in Node /\ Rank[e.to] \in Nat
    BY RoutingAssumption DEF IsEdge
  <1>2. \A e, f \in edges : <<e, f>> \in R <=> Better(e, f)
    OBVIOUS
  <1>3. \A e, f \in edges : Better(e, f) \/ Better(f, e)
    BY <1>1, RoutingAssumption DEF Better
  <1>4. \A e, f, h \in edges : Better(e, f) /\ Better(f, h) => Better(e, h)
    BY <1>1 DEF Better
  <1> HIDE DEF R
  <1>5. \E e \in edges : \A f \in edges : <<e, f>> \in R
    BY <1>2, <1>3, <1>4, LeastOfFinite
  <1>6. \E e \in edges : \A f \in edges : Better(e, f)
    BY <1>5, <1>2
  <1> QED BY <1>6 DEF BestEdge

\* The pick does not depend on how the sort treats equal edges, as none are equal:
\* edges are numbered as they are declared.
THEOREM BestEdgeUnique ==
    ASSUME NEW edges, IsFiniteSet(edges), edges # {}, \A e \in edges : IsEdge(e),
           \A e, f \in edges : e.order = f.order => e = f,
           NEW best \in edges, \A f \in edges : Better(best, f)
    PROVE  BestEdge(edges) = best
  <1>1. \A e \in edges : e.weight \in Int /\ e.order \in Nat /\ e.to \in Node /\ Rank[e.to] \in Nat
    BY RoutingAssumption DEF IsEdge
  <1>2. \A e, f \in edges : Better(e, f) /\ Better(f, e) => e = f
    BY <1>1 DEF Better
  <1>3. BestEdge(edges) \in edges /\ \A f \in edges : Better(BestEdge(edges), f)
    BY DEF BestEdge
  <1> QED BY <1>2, <1>3

\* So is the declaration order.
LEMMA EarliestIn ==
    ASSUME NEW edges, IsFiniteSet(edges), edges # {}, \A e \in edges : IsEdge(e)
    PROVE  Earliest(edges) \in edges
  <1> DEFINE R == {p \in edges \X edges : p[1].order <= p[2].order}
  <1>1. \A e \in edges : e.order \in Nat
    BY DEF IsEdge
  <1>2. \A e, f \in edges : <<e, f>> \in R <=> e.order <= f.order
    OBVIOUS
  <1> HIDE DEF R
  <1>3. \A e, f \in edges : <<e, f>> \in R \/ <<f, e>> \in R
    <2>1. \A e, f \in edges : e.order <= f.order \/ f.order <= e.order
      BY <1>1
    <2> QED BY <2>1, <1>2, Zenon
  <1>4. \A e, f, h \in edges : <<e, f>> \in R /\ <<f, h>> \in R => <<e, h>> \in R
    BY <1>1, <1>2
  <1>5. \E e \in edges : \A f \in edges : <<e, f>> \in R
    BY <1>3, <1>4, LeastOfFinite
  <1>6. \E e \in edges : \A f \in edges : e.order <= f.order
    BY <1>5, <1>2
  <1> QED BY <1>6 DEF Earliest

\* selectAllEligibleEdges returns edges out of the node, and some whenever there
\* are any: a node is only a dead end when no edge leaves it.
THEOREM EligibleEdges ==
    ASSUME NEW g, IsGraph(g), NEW n, NEW o
    PROVE  /\ SelectAllEligibleEdges(g, n, o) \subseteq Outgoing(g, n)
           /\ Outgoing(g, n) # {} => SelectAllEligibleEdges(g, n, o) # {}
  <1> DEFINE edges == Outgoing(g, n)
             matched == {e \in edges : Matches(e, o)}
             labelled == {e \in edges : o.label # NoLabel /\ e.label = o.label}
             suggested == Suggested(edges, o)
             plain == {e \in edges : ~e.guarded}
  <1>1. \A S \in SUBSET edges : S # {} => Earliest(S) \in S
    BY OutgoingType, FS_Subset, EarliestIn
  <1>2. suggested \in SUBSET edges
    BY DEF Suggested
  <1>3. matched \in SUBSET edges /\ labelled \in SUBSET edges /\ plain \in SUBSET edges
    OBVIOUS
  <1>4. SelectAllEligibleEdges(g, n, o) =
            CASE matched # {} -> matched
              [] matched = {} /\ labelled # {} -> {Earliest(labelled)}
              [] matched = {} /\ labelled = {} /\ suggested # {} -> {Earliest(suggested)}
              [] matched = {} /\ labelled = {} /\ suggested = {} /\ plain # {} -> plain
              [] OTHER -> edges
    BY DEF SelectAllEligibleEdges
  <1> HIDE DEF edges, matched, labelled, suggested, plain
  <1>5. CASE matched # {}
    BY <1>5, <1>3, <1>4 DEF edges
  <1>6. CASE matched = {} /\ labelled # {}
    BY <1>6, <1>1, <1>3, <1>4 DEF edges
  <1>7. CASE matched = {} /\ labelled = {} /\ suggested # {}
    BY <1>7, <1>1, <1>2, <1>4 DEF edges
  <1>8. CASE matched = {} /\ labelled = {} /\ suggested = {} /\ plain # {}
    BY <1>8, <1>3, <1>4 DEF edges
  <1>9. CASE matched = {} /\ labelled = {} /\ suggested = {} /\ plain = {}
    BY <1>9, <1>4 DEF edges
  <1> QED BY <1>5, <1>6, <1>7, <1>8, <1>9

\* What the attributes of a node and of its graph mean: the node's own come first,
\* and of both a retry_target comes before a fallback_retry_target.
LEMMA RetryTargetOrder ==
    ASSUME NEW g, IsGraph(g), NEW n \in Node
    PROVE  ResolveRetryTarget(g, n) =
               IF g.retry[n][1] # NoNode THEN g.retry[n][1]
               ELSE IF g.retry[n][2] # NoNode THEN g.retry[n][2]
               ELSE IF g.retryAll[1] # NoNode THEN g.retryAll[1]
               ELSE g.retryAll[2]
  <1>1. PICK a, b \in AnyNode : g.retry[n] = <<a, b>>
    BY DEF IsGraph
  <1>2. PICK c, d \in AnyNode : g.retryAll = <<c, d>>
    BY DEF IsGraph
  <1> DEFINE chain == g.retry[n] \o g.retryAll
             set == {i \in DOMAIN chain : chain[i] # NoNode}
             first == CHOOSE i \in set : \A j \in set : i <= j
  <1>3. /\ DOMAIN chain = 1 .. 4
        /\ chain[1] = a /\ chain[2] = b /\ chain[3] = c /\ chain[4] = d
    <2>1. PICK p, q : p = <<a, b>> /\ q = <<c, d>>
      OBVIOUS
    <2>2. /\ p \in Seq(AnyNode) /\ Len(p) = 2 /\ p[1] = a /\ p[2] = b
          /\ q \in Seq(AnyNode) /\ Len(q) = 2 /\ q[1] = c /\ q[2] = d
      BY <2>1
    <2>3. DOMAIN (p \o q) = 1 .. 4 /\ \A i \in 1 .. 4 : (p \o q)[i] = IF i <= 2 THEN p[i] ELSE q[i - 2]
      <3>1. /\ p \o q \in Seq(AnyNode) /\ Len(p \o q) = 4
            /\ \A i \in 1 .. 4 : (p \o q)[i] = IF i <= Len(p) THEN p[i] ELSE q[i - Len(p)]
        <4>1. ASSUME NEW s \in Seq(AnyNode), NEW t \in Seq(AnyNode)
              PROVE  /\ s \o t \in Seq(AnyNode) /\ Len(s \o t) = Len(s) + Len(t)
                     /\ \A i \in 1 .. Len(s) + Len(t) : (s \o t)[i] = IF i <= Len(s) THEN s[i] ELSE t[i - Len(s)]
          BY ConcatProperties
        <4>2. p \in Seq(AnyNode) /\ q \in Seq(AnyNode) /\ Len(p) + Len(q) = 4
          BY <2>2
        <4>3. /\ p \o q \in Seq(AnyNode) /\ Len(p \o q) = Len(p) + Len(q)
              /\ \A i \in 1 .. Len(p) + Len(q) :
                    (p \o q)[i] = IF i <= Len(p) THEN p[i] ELSE q[i - Len(p)]
          BY <4>1, <4>2, Zenon
        <4> QED BY <4>2, <4>3
      <3> QED BY <2>2, <3>1
    <2>4. chain = p \o q
      BY <1>1, <1>2, <2>1
    <2>5. (p \o q)[1] = a /\ (p \o q)[2] = b /\ (p \o q)[3] = c /\ (p \o q)[4] = d
      BY <2>1, <2>2, <2>3
    <2> HIDE DEF chain
    <2> QED BY <2>3, <2>4, <2>5
  <1>4. ResolveRetryTarget(g, n) = IF set = {} THEN NoNode ELSE chain[first]
    BY DEF ResolveRetryTarget
  <1>5. chain[1] = a /\ chain[2] = b /\ chain[3] = c /\ chain[4] = d
    BY <1>3
  <1> HIDE DEF chain
  <1>6. \A i : i \in set <=> i \in 1 .. 4 /\ chain[i] # NoNode
    BY <1>3
  <1>7. set \subseteq Int
    BY <1>6
  <1> HIDE DEF set
  <1>8. ASSUME NEW k \in set, \A j \in set : k <= j PROVE first = k
    <2>1. first \in set /\ \A j \in set : first <= j
      BY <1>8
    <2> HIDE DEF first
    <2> QED BY <1>7, <1>8, <2>1
  <1> HIDE DEF first
  <1>9. CASE a # NoNode
    BY <1>1, <1>4, <1>8, <1>5, <1>6, <1>9
  <1>10. CASE a = NoNode /\ b # NoNode
    BY <1>1, <1>4, <1>8, <1>5, <1>6, <1>10
  <1>11. CASE a = NoNode /\ b = NoNode /\ c # NoNode
    BY <1>1, <1>2, <1>4, <1>8, <1>5, <1>6, <1>11
  <1>12. CASE a = NoNode /\ b = NoNode /\ c = NoNode /\ d # NoNode
    BY <1>1, <1>2, <1>4, <1>8, <1>5, <1>6, <1>12
  <1>13. CASE a = NoNode /\ b = NoNode /\ c = NoNode /\ d = NoNode
    BY <1>1, <1>2, <1>4, <1>5, <1>6, <1>13
  <1> QED BY <1>9, <1>10, <1>11, <1>12, <1>13

\* A retry target is a node of the graph or missing.
LEMMA RetryTargetType ==
    ASSUME NEW g, IsGraph(g), NEW n \in Node
    PROVE  ResolveRetryTarget(g, n) \in AnyNode
  <1>1. g.retry[n] \in AnyNode \X AnyNode /\ g.retryAll \in AnyNode \X AnyNode
    BY DEF IsGraph
  <1> QED BY <1>1, RetryTargetOrder

-----------------------------------------------------------------------------
(* The breadth-first searches                                              *)

\* The rounds of the search from start: the nodes met, and their successors.
LEMMA WithinRounds ==
    ASSUME NEW g, IsGraph(g), NEW start \in Node
    PROVE  /\ Cardinality(Node) \in Nat
           /\ Within(g, start) \in [0 .. Cardinality(Node) -> SUBSET Node]
           /\ Within(g, start)[0] = {start}
           /\ \A k \in 0 .. Cardinality(Node) - 1 : \A n :
                 n \in Within(g, start)[k + 1] <=>
                     \/ n \in Within(g, start)[k]
                     \/ \E e \in g.edges : e.from \in Within(g, start)[k] /\ e.to = n
  <1> DEFINE K == Cardinality(Node)
             Beside(n) == {n} \cup {e.to : e \in Outgoing(g, n)}
             Rounds(f) == [k \in 0 .. K |->
                              IF k = 0 THEN {start} ELSE UNION {Beside(n) : n \in f[k - 1]}]
             step == [S \in SUBSET Node |-> UNION {Beside(n) : n \in S}]
             F == Within(g, start)
  <1>1. K \in Nat
    BY FS_CardinalityType DEF IsGraph
  <1>2. F = CHOOSE f : f = Rounds(f)
    BY DEF Within
  <1>3. \A n \in Node : Beside(n) \in SUBSET Node
    BY DEF IsGraph, IsEdge, Outgoing
  <1>4. \A S \in SUBSET Node : UNION {Beside(n) : n \in S} \in SUBSET Node
    <2> HIDE DEF Beside
    <2> QED BY <1>3
  <1>5. step \in [SUBSET Node -> SUBSET Node]
    <2> HIDE DEF Beside
    <2> QED BY <1>4
  <1>6. PICK f \in [0 .. K -> SUBSET Node] :
            f[0] = {start} /\ \A k \in 1 .. K : f[k] = step[f[k - 1]]
    <2> HIDE DEF step, K
    <2>1. PICK D, a : D = SUBSET Node /\ a = {start}
      OBVIOUS
    <2>2. a \in D /\ step \in [D -> D]
      BY <1>5, <2>1
    <2>3. \E f \in [0 .. K -> D] : f[0] = a /\ \A k \in 1 .. K : f[k] = step[f[k - 1]]
      BY <1>1, <2>2, Iterates
    <2> QED BY <2>1, <2>3
  <1>7. f = Rounds(f)
    <2>1. ASSUME NEW k \in 1 .. K PROVE f[k] = UNION {Beside(n) : n \in f[k - 1]}
      <3>1. f[k - 1] \in SUBSET Node
        BY <1>1, <1>6
      <3> HIDE DEF Beside
      <3> QED BY <1>6, <3>1
    <2> HIDE DEF Beside, step, K
    <2> QED BY <1>1, <1>6, <2>1
  <1>8. F = Rounds(F)
    <2> HIDE DEF Rounds, F
    <2> QED BY <1>2, <1>7
  <1> HIDE DEF F
  <1>9. F[0] = {start} /\ \A k \in 0 .. K - 1 : F[k + 1] = UNION {Beside(n) : n \in F[k]}
    <2>1. \A k \in 0 .. K : F[k] = IF k = 0 THEN {start} ELSE UNION {Beside(n) : n \in F[k - 1]}
      <3> HIDE DEF Beside, K
      <3> QED BY <1>8
    <2>2. \A k \in 0 .. K - 1 : k + 1 \in 0 .. K /\ k + 1 # 0 /\ (k + 1) - 1 = k
      BY <1>1
    <2>3. 0 \in 0 .. K
      BY <1>1
    <2> HIDE DEF Beside, K
    <2> QED BY <2>1, <2>2, <2>3
  <1>10. \A k \in 0 .. K - 1 : \A n :
             n \in F[k + 1] <=> n \in F[k] \/ \E e \in g.edges : e.from \in F[k] /\ e.to = n
    BY <1>9 DEF Outgoing
  <1>11. DOMAIN F = 0 .. K /\ F = [k \in DOMAIN F |-> F[k]]
    <2> HIDE DEF Beside, K
    <2> QED BY <1>8
  <1>12. 0 .. K \subseteq {k \in Nat : F[k] \in SUBSET Node}
    <2> DEFINE T == {k \in Nat : F[k] \in SUBSET Node}
    <2>1. 0 \in T
      BY <1>9
    <2>2. \A k \in 0 .. K - 1 : k \in T => k + 1 \in T
      <3> HIDE DEF Beside, K
      <3> QED BY <1>1, <1>4, <1>9
    <2>3. 0 .. K \subseteq T
      <3> HIDE DEF T, K
      <3> QED BY <1>1, <2>1, <2>2, UpTo
    <2> QED BY <2>3
  <1>13. F \in [0 .. K -> SUBSET Node]
    <2> HIDE DEF K
    <2> QED BY <1>11, <1>12
  <1> QED BY <1>1, <1>9, <1>10, <1>13 DEF F

\* There is a walk of j edges from m to n.
Path(g, m, n, j) ==
    \E p \in [0 .. j -> Node] :
        /\ p[0] = m /\ p[j] = n
        /\ \A i \in 1 .. j : \E e \in g.edges : e.from = p[i - 1] /\ e.to = p[i]

LEMMA PathGrows ==
    ASSUME NEW g, IsGraph(g), NEW m \in Node, NEW j \in Nat, NEW n \in Node
    PROVE  Path(g, m, n, j + 1) <=> \E e \in g.edges : Path(g, m, e.from, j) /\ e.to = n
  <1>1. ASSUME Path(g, m, n, j + 1)
        PROVE  \E e \in g.edges : Path(g, m, e.from, j) /\ e.to = n
    <2>1. PICK p \in [0 .. j + 1 -> Node] :
              /\ p[0] = m /\ p[j + 1] = n
              /\ \A i \in 1 .. j + 1 : \E e \in g.edges : e.from = p[i - 1] /\ e.to = p[i]
      BY <1>1 DEF Path
    <2>2. PICK e \in g.edges : e.from = p[j] /\ e.to = n
      <3>1. j + 1 \in 1 .. j + 1 /\ (j + 1) - 1 = j
        OBVIOUS
      <3> QED BY <2>1, <3>1
    <2> DEFINE q == [i \in 0 .. j |-> p[i]]
    <2>3. q \in [0 .. j -> Node] /\ q[0] = m /\ q[j] = e.from
      BY <2>1, <2>2
    <2>4. \A i \in 1 .. j : \E d \in g.edges : d.from = q[i - 1] /\ d.to = q[i]
      <3>1. \A i \in 1 .. j : i \in 1 .. j + 1 /\ q[i - 1] = p[i - 1] /\ q[i] = p[i]
        OBVIOUS
      <3> HIDE DEF q
      <3> QED BY <2>1, <3>1
    <2> HIDE DEF q
    <2>5. Path(g, m, e.from, j)
      BY <2>3, <2>4 DEF Path
    <2> QED BY <2>2, <2>5
  <1>2. ASSUME NEW e \in g.edges, Path(g, m, e.from, j), e.to = n
        PROVE  Path(g, m, n, j + 1)
    <2>1. PICK p \in [0 .. j -> Node] :
              /\ p[0] = m /\ p[j] = e.from
              /\ \A i \in 1 .. j : \E d \in g.edges : d.from = p[i - 1] /\ d.to = p[i]
      BY <1>2 DEF Path
    <2> DEFINE q == [i \in 0 .. j + 1 |-> IF i = j + 1 THEN n ELSE p[i]]
    <2>2. q \in [0 .. j + 1 -> Node] /\ q[0] = m /\ q[j + 1] = n /\ q[j] = e.from
      BY <2>1
    <2>3. ASSUME NEW i \in 1 .. j + 1
          PROVE  \E d \in g.edges : d.from = q[i - 1] /\ d.to = q[i]
      <3>1. CASE i = j + 1
        <4>1. q[i - 1] = e.from /\ q[i] = e.to
          BY <1>2, <2>2, <3>1
        <4> QED BY <4>1
      <3>2. CASE i # j + 1
        <4>1. i \in 1 .. j /\ q[i - 1] = p[i - 1] /\ q[i] = p[i]
          BY <3>2
        <4> HIDE DEF q
        <4> QED BY <2>1, <4>1
      <3> QED BY <3>1, <3>2
    <2> HIDE DEF q
    <2> QED BY <2>2, <2>3 DEF Path
  <1> QED BY <1>1, <1>2

\* The searches measure distance: round k has met the nodes at most k edges away.
THEOREM WithinIsDistance ==
    ASSUME NEW g, IsGraph(g), NEW start \in Node, NEW k \in 0 .. Cardinality(Node), NEW n \in Node
    PROVE  n \in Within(g, start)[k] <=> \E j \in 0 .. k : Path(g, start, n, j)
  <1> DEFINE K == Cardinality(Node)
             F == Within(g, start)
             Near(i) == {m \in Node : \E j \in 0 .. i : Path(g, start, m, j)}
             T == {i \in Nat : F[i] = Near(i)}
  <1>1. /\ K \in Nat /\ F \in [0 .. K -> SUBSET Node] /\ F[0] = {start}
        /\ \A i \in 0 .. K - 1 : \A m : m \in F[i + 1] <=>
              m \in F[i] \/ \E e \in g.edges : e.from \in F[i] /\ e.to = m
    BY WithinRounds
  <1> HIDE DEF F, K
  <1>2. 0 \in T
    <2>1. ASSUME NEW m \in Node PROVE Path(g, start, m, 0) <=> m = start
      <3>1. ASSUME Path(g, start, m, 0) PROVE m = start
        BY <3>1 DEF Path
      <3>2. ASSUME m = start PROVE Path(g, start, m, 0)
        <4>1. [i \in 0 .. 0 |-> start] \in [0 .. 0 -> Node] /\ [i \in 0 .. 0 |-> start][0] = start
          OBVIOUS
        <4>2. 1 .. 0 = {}
          OBVIOUS
        <4> QED BY <3>2, <4>1, <4>2 DEF Path
      <3> QED BY <3>1, <3>2
    <2>2. 0 .. 0 = {0}
      OBVIOUS
    <2>3. Near(0) = {start}
      BY <2>1, <2>2
    <2> QED BY <1>1, <2>3
  <1>3. ASSUME NEW i \in 0 .. K - 1, i \in T PROVE i + 1 \in T
    <2>1. F[i] = Near(i) /\ i \in Nat /\ i + 1 \in 0 .. K
      BY <1>1, <1>3
    <2>2. 0 .. i + 1 = (0 .. i) \cup {i + 1} /\ 0 .. i + 1 = {0} \cup {j + 1 : j \in 0 .. i}
      BY <2>1
    <2>3. ASSUME NEW m \in F[i + 1] PROVE m \in Near(i + 1)
      <3>1. m \in Node
        BY <1>1, <2>1
      <3>2. CASE m \in F[i]
        BY <2>1, <2>2, <3>2
      <3>3. CASE m \notin F[i]
        <4>1. PICK e \in g.edges : e.from \in F[i] /\ e.to = m
          BY <1>1, <3>3
        <4>2. PICK j \in 0 .. i : Path(g, start, e.from, j)
          BY <2>1, <4>1
        <4>3. Path(g, start, m, j + 1) /\ j + 1 \in 0 .. i + 1
          BY <2>1, <3>1, <4>1, <4>2, PathGrows
        <4> QED BY <3>1, <4>3
      <3> QED BY <3>2, <3>3
    <2>4. ASSUME NEW m \in Node, NEW j \in 0 .. i + 1, Path(g, start, m, j) PROVE m \in F[i + 1]
      <3>1. CASE j \in 0 .. i
        <4>1. m \in F[i]
          BY <2>1, <2>4, <3>1
        <4> QED BY <1>1, <1>3, <4>1
      <3>2. CASE j = i + 1
        <4>1. PICK e \in g.edges : Path(g, start, e.from, i) /\ e.to = m
          BY <2>1, <2>4, <3>2, PathGrows
        <4>2. e.from \in Node /\ i \in 0 .. i
          BY <2>1 DEF IsGraph, IsEdge
        <4>3. e.from \in F[i]
          BY <2>1, <4>1, <4>2
        <4> QED BY <1>1, <1>3, <4>1, <4>3
      <3> QED BY <2>1, <2>4, <3>1, <3>2
    <2>5. F[i + 1] = Near(i + 1)
      BY <2>3, <2>4
    <2> QED BY <2>1, <2>5
  <1>4. k \in T
    <2>1. 0 .. K \subseteq T
      <3> HIDE DEF T
      <3> QED BY <1>1, <1>2, <1>3, UpTo
    <2> QED BY <2>1 DEF K
  <1> QED BY <1>4 DEF F

\* As many rounds as there are nodes are enough: a round that meets nobody new is
\* the last one that could, and each before it meets one.
LEMMA SearchCloses ==
    ASSUME NEW g, IsGraph(g), NEW start \in Node, NEW e \in g.edges, e.from \in Reachable(g, start)
    PROVE  e.to \in Reachable(g, start)
  <1> DEFINE K == Cardinality(Node)
             F == Within(g, start)
             Closed(i) == \A d \in g.edges : d.from \in F[i] => d.to \in F[i]
             T == {i \in Nat : Closed(i) \/ Cardinality(F[i]) >= i + 1}
  <1>1. /\ K \in Nat /\ F \in [0 .. K -> SUBSET Node] /\ F[0] = {start}
        /\ \A i \in 0 .. K - 1 : \A m : m \in F[i + 1] <=>
              m \in F[i] \/ \E d \in g.edges : d.from \in F[i] /\ d.to = m
    BY WithinRounds
  <1>2. IsFiniteSet(Node)
    BY DEF IsGraph
  <1> HIDE DEF F
  <1>3. 0 \in T
    <2>1. Cardinality(F[0]) = 1
      BY <1>1, FS_Singleton
    <2> QED BY <2>1
  <1>4. ASSUME NEW i \in 0 .. K - 1, i \in T PROVE i + 1 \in T
    <2>1. F[i] \in SUBSET Node /\ F[i + 1] \in SUBSET Node /\ i + 1 \in Nat
      <3>1. i \in 0 .. K /\ i + 1 \in 0 .. K
        BY <1>1
      <3> HIDE DEF K
      <3> QED BY <1>1, <3>1
    <2>2. CASE Closed(i)
      <3>1. \A m : m \in F[i + 1] <=> m \in F[i]
        BY <1>1, <2>2
      <3>2. F[i + 1] = F[i]
        <4> HIDE DEF Closed, T
        <4> QED BY <3>1
      <3> QED BY <2>1, <2>2, <3>2
    <2>3. CASE ~Closed(i)
      <3>1. F[i] \subseteq F[i + 1] /\ F[i] # F[i + 1]
        BY <1>1, <1>4, <2>3
      <3>2. /\ IsFiniteSet(F[i]) /\ IsFiniteSet(F[i + 1])
            /\ Cardinality(F[i]) \in Nat /\ Cardinality(F[i + 1]) \in Nat
        BY <1>2, <2>1, FS_Subset, FS_CardinalityType
      <3>3. Cardinality(F[i]) <= Cardinality(F[i + 1]) /\ Cardinality(F[i]) # Cardinality(F[i + 1])
        BY <3>1, <3>2, FS_Subset
      <3>4. Cardinality(F[i]) >= i + 1
        BY <1>4, <2>3
      <3>5. Cardinality(F[i + 1]) >= (i + 1) + 1
        BY <3>2, <3>3, <3>4
      <3> QED BY <2>1, <3>5
    <2> QED BY <2>2, <2>3
  <1>5. K \in T
    <2>1. K \in 0 .. K
      BY <1>1
    <2> HIDE DEF T, K
    <2> QED BY <1>1, <1>3, <1>4, <2>1, UpTo
  <1>6. Closed(K)
    <2>1. F[K] \in SUBSET Node
      BY <1>1
    <2>2. Cardinality(F[K]) <= K
      BY <1>2, <2>1, FS_Subset
    <2>3. Cardinality(F[K]) \in Nat
      BY <1>2, <2>1, FS_Subset, FS_CardinalityType
    <2> HIDE DEF Closed
    <2> QED BY <1>1, <1>5, <2>2, <2>3
  <1> QED BY <1>6 DEF Reachable, F

\* A node is reachable exactly if edges lead to it.
Leads(g, m, n) == \E j \in Nat : Path(g, m, n, j)

THEOREM ReachableIsAll ==
    ASSUME NEW g, IsGraph(g), NEW start \in Node, NEW n \in Node
    PROVE  n \in Reachable(g, start) <=> Leads(g, start, n)
  <1> DEFINE K == Cardinality(Node)
  <1>1. K \in Nat /\ K \in 0 .. K
    BY WithinRounds
  <1>2. Reachable(g, start) = Within(g, start)[K]
    BY DEF Reachable
  <1>3. \A m \in Node : m \in Reachable(g, start) <=> \E j \in 0 .. K : Path(g, start, m, j)
    BY <1>1, <1>2, WithinIsDistance
  <1>4. ASSUME n \in Reachable(g, start) PROVE Leads(g, start, n)
    <2>1. 0 .. K \subseteq Nat
      BY <1>1
    <2> HIDE DEF K
    <2> QED BY <1>3, <1>4, <2>1 DEF Leads
  <1>5. ASSUME NEW j \in Nat, Path(g, start, n, j) PROVE n \in Reachable(g, start)
    <2> DEFINE T == {i \in Nat : \A m \in Node : Path(g, start, m, i) => m \in Reachable(g, start)}
    <2>1. 0 \in T
      <3>1. 0 \in 0 .. K
        BY <1>1
      <3> HIDE DEF K
      <3> QED BY <1>3, <3>1
    <2>2. ASSUME NEW i \in 0 .. j - 1, i \in T PROVE i + 1 \in T
      <3>1. ASSUME NEW m \in Node, Path(g, start, m, i + 1) PROVE m \in Reachable(g, start)
        <4>1. PICK e \in g.edges : Path(g, start, e.from, i) /\ e.to = m
          BY <3>1, PathGrows
        <4>2. e.from \in Node
          BY DEF IsGraph, IsEdge
        <4>3. e.from \in Reachable(g, start)
          BY <2>2, <4>1, <4>2
        <4> QED BY <4>1, <4>3, SearchCloses
      <3> QED BY <3>1
    <2>3. j \in T
      <3>1. j \in 0 .. j
        OBVIOUS
      <3> HIDE DEF T
      <3> QED BY <2>1, <2>2, <3>1, UpTo
    <2> QED BY <1>5, <2>3
  <1> QED BY <1>4, <1>5 DEF Leads

Near(g, m, n, k) == \E j \in 0 .. k : Path(g, m, n, j)

-----------------------------------------------------------------------------
(* The join of a fan-out                                                   *)

\* The rounds that the searches from the branches go without meeting n: the sum
\* of its distances.
Missing(g, edges, n) ==
    Cardinality({p \in edges \X (0 .. Cardinality(Node)) : n \notin Within(g, p[1].to)[p[2]]})

Sooner(g, edges, m, n) ==
    \/ Missing(g, edges, m) < Missing(g, edges, n)
    \/ Missing(g, edges, m) = Missing(g, edges, n) /\ Rank[m] <= Rank[n]

\* findJoinNode's order picks one of its candidates, and none that all branches
\* meet in an earlier round: by the last round of the search every candidate that
\* all branches reach has been met.
LEMMA NearestIn ==
    ASSUME NEW g, IsGraph(g), NEW edges, IsFiniteSet(edges),
           NEW cands \in SUBSET Node, cands # {},
           \A n \in cands : \A e \in edges : n \in Reachable(g, e.to)
    PROVE  /\ Nearest(g, edges, cands) \in cands
           /\ \E k \in 0 .. Cardinality(Node) :
                 /\ \A e \in edges : Nearest(g, edges, cands) \in Within(g, e.to)[k]
                 /\ \A n \in cands, i \in 0 .. k - 1 : \E e \in edges : n \notin Within(g, e.to)[i]
                 /\ \A n \in cands : (\A e \in edges : n \in Within(g, e.to)[k]) =>
                       Sooner(g, edges, Nearest(g, edges, cands), n)
  <1> DEFINE K == Cardinality(Node)
             radius == 0 .. K
             Met(k) == {n \in cands : \A e \in edges : n \in Within(g, e.to)[k]}
             Least(k) == Met(k) # {} /\ \A i \in radius : i < k => Met(i) = {}
             least == CHOOSE k \in radius : Least(k)
             total(n) == Cardinality({p \in edges \X radius : n \notin Within(g, p[1].to)[p[2]]})
             Closer(m, n) ==
                 \/ total(m) < total(n)
                 \/ total(m) = total(n) /\ Rank[m] <= Rank[n]
  <1>1. K \in Nat
    BY FS_CardinalityType DEF IsGraph
  <1>2. Met(K) = cands
    BY DEF Reachable
  <1>3. least \in radius /\ Least(least)
    <2> DEFINE T == {k \in radius : Met(k) # {}}
    <2>1. T \in SUBSET Nat /\ T # {}
      BY <1>1, <1>2
    <2>2. IsFiniteSet(T)
      <3>1. IsFiniteSet(radius) /\ T \in SUBSET radius
        BY <1>1, FS_Interval
      <3> HIDE DEF T, radius
      <3> QED BY <3>1, FS_Subset
    <2>3. PICK k \in T : \A i \in T : k <= i
      BY <2>1, <2>2, LeastNumber
    <2>4. k \in radius /\ Least(k)
      BY <2>1, <2>3, <1>1
    <2> HIDE DEF Met, radius
    <2> QED BY <2>4
  <1>4. Met(least) \in SUBSET cands /\ IsFiniteSet(Met(least))
    <2>1. IsFiniteSet(cands)
      BY FS_Subset DEF IsGraph
    <2> QED BY <2>1, FS_Subset
  <1>5. \A n \in cands : total(n) \in Nat /\ Rank[n] \in Nat
    <2>1. IsFiniteSet(radius)
      BY <1>1, FS_Interval
    <2>2. IsFiniteSet(edges \X radius)
      BY <2>1, FS_Product
    <2> HIDE DEF radius
    <2>3. ASSUME NEW n \in cands PROVE total(n) \in Nat
      <3>1. {p \in edges \X radius : n \notin Within(g, p[1].to)[p[2]]} \in SUBSET (edges \X radius)
        OBVIOUS
      <3> QED BY <2>2, <3>1, FS_Subset, FS_CardinalityType
    <2> QED BY <2>3, RoutingAssumption
  <1> DEFINE M == Met(least)
             R == {p \in M \X M : Closer(p[1], p[2])}
  <1>6. \A m, n \in M : <<m, n>> \in R <=> Closer(m, n)
    OBVIOUS
  <1>7. ASSUME NEW m \in Met(least), \A n \in Met(least) : Sooner(g, edges, m, n)
        PROVE  \E k \in 0 .. Cardinality(Node) :
                   /\ \A e \in edges : m \in Within(g, e.to)[k]
                   /\ \A n \in cands, i \in 0 .. k - 1 : \E e \in edges : n \notin Within(g, e.to)[i]
                   /\ \A n \in cands : (\A e \in edges : n \in Within(g, e.to)[k]) => Sooner(g, edges, m, n)
    <2>1. \A i \in 0 .. least - 1 : i \in radius /\ i < least
      BY <1>1, <1>3
    <2>2. \A i \in 0 .. least - 1 : Met(i) = {}
      BY <1>3, <2>1
    <2>3. \A e \in edges : m \in Within(g, e.to)[least]
      OBVIOUS
    <2>4. \A n \in cands, i \in 0 .. least - 1 : \E e \in edges : n \notin Within(g, e.to)[i]
      BY <2>2
    <2>5. least \in 0 .. Cardinality(Node)
      BY <1>3
    <2>6. \A n \in cands : (\A e \in edges : n \in Within(g, e.to)[least]) => Sooner(g, edges, m, n)
      BY <1>7
    <2> HIDE DEF least
    <2> QED BY <2>3, <2>4, <2>5, <2>6
  <1>8. Met(least) # {}
    BY <1>3
  <1> HIDE DEF Met, least, total, R, radius, K
  <1>9. \A m, n \in M : Closer(m, n) \/ Closer(n, m)
    BY <1>4, <1>5
  <1>10. \A l, m, n \in M : Closer(l, m) /\ Closer(m, n) => Closer(l, n)
    BY <1>4, <1>5
  <1> HIDE DEF M, Closer
  <1>11. \E m \in M : \A n \in M : <<m, n>> \in R
    <2>1. IsFiniteSet(M) /\ M # {}
      BY <1>8, <1>4 DEF M
    <2> QED BY <2>1, <1>6, <1>9, <1>10, LeastOfFinite
  <1>12. Nearest(g, edges, cands) = CHOOSE m \in M : \A n \in M : Closer(m, n)
    BY DEF Nearest, M, Closer, Met, least, total, radius, K
  <1>13. Nearest(g, edges, cands) \in M /\ \A n \in M : Closer(Nearest(g, edges, cands), n)
    BY <1>6, <1>11, <1>12
  <1>14. \A m, n \in M : Closer(m, n) <=> Sooner(g, edges, m, n)
    BY DEF Closer, Sooner, total, Missing, radius, K
  <1>15. /\ Nearest(g, edges, cands) \in Met(least)
         /\ \A n \in Met(least) : Sooner(g, edges, Nearest(g, edges, cands), n)
    BY <1>13, <1>14 DEF M
  <1> QED BY <1>4, <1>15, <1>7

\* findJoinNode prefers a fan-in among the nodes its searches met from all
\* branches, and takes the one they met first.
LEMMA JoinFound ==
    ASSUME NEW g, IsGraph(g), NEW edges, IsFiniteSet(edges), edges # {}
    PROVE  LET join == FindJoinNode(g, edges)
               fanIns == {n \in g.fanIn : \A e \in edges : n \in Reachable(g, e.to)}
               below == {n \in Node : \A e \in edges : n # e.to /\ n \in Reachable(g, e.to)}
               cands == IF fanIns # {} THEN fanIns ELSE below
           IN  IF cands = {} THEN join = NoNode
               ELSE /\ join \in cands
                    /\ \E k \in 0 .. Cardinality(Node) :
                          /\ \A e \in edges : join \in Within(g, e.to)[k]
                          /\ \A n \in cands, i \in 0 .. k - 1 :
                                \E e \in edges : n \notin Within(g, e.to)[i]
                          /\ \A n \in cands :
                                (\A e \in edges : n \in Within(g, e.to)[k]) => Sooner(g, edges, join, n)
  <1> DEFINE join == FindJoinNode(g, edges)
             starts == {e.to : e \in edges}
             fanIns == {n \in g.fanIn : \A e \in edges : n \in Reachable(g, e.to)}
             below == {n \in Node : \A e \in edges : n # e.to /\ n \in Reachable(g, e.to)}
             cands == IF fanIns # {} THEN fanIns ELSE below
  <1>1. /\ fanIns = {n \in g.fanIn : \A s \in starts : n \in Reachable(g, s)}
        /\ below = {n \in Node : \A s \in starts : n # s /\ n \in Reachable(g, s)}
        /\ starts # {}
    OBVIOUS
  <1>2. fanIns \in SUBSET Node /\ below \in SUBSET Node
    BY DEF IsGraph
  <1>3. \A n \in cands : \A e \in edges : n \in Reachable(g, e.to)
    OBVIOUS
  <1>4. join = IF cands = {} THEN NoNode ELSE Nearest(g, edges, cands)
    <2>1. join = CASE starts = {} -> NoNode
                   [] starts # {} /\ fanIns # {} -> Nearest(g, edges, fanIns)
                   [] starts # {} /\ fanIns = {} /\ below # {} -> Nearest(g, edges, below)
                   [] OTHER -> NoNode
      BY <1>1 DEF FindJoinNode
    <2> HIDE DEF fanIns, below, starts, join
    <2>2. CASE fanIns # {}
      BY <1>1, <2>1, <2>2
    <2>3. CASE fanIns = {} /\ below # {}
      BY <1>1, <2>1, <2>3
    <2>4. CASE fanIns = {} /\ below = {}
      BY <1>1, <2>1, <2>4
    <2> QED BY <2>2, <2>3, <2>4
  <1> HIDE DEF join, fanIns, below
  <1>5. cands \in SUBSET Node
    BY <1>2
  <1> HIDE DEF cands
  <1>6. CASE cands = {}
    BY <1>4, <1>6 DEF join, cands, fanIns, below
  <1>7. CASE cands # {}
    <2>1. join = Nearest(g, edges, cands)
      BY <1>4, <1>7
    <2>2. /\ Nearest(g, edges, cands) \in cands
          /\ \E k \in 0 .. Cardinality(Node) :
                /\ \A e \in edges : Nearest(g, edges, cands) \in Within(g, e.to)[k]
                /\ \A n \in cands, i \in 0 .. k - 1 : \E e \in edges : n \notin Within(g, e.to)[i]
                /\ \A n \in cands : (\A e \in edges : n \in Within(g, e.to)[k]) =>
                      Sooner(g, edges, Nearest(g, edges, cands), n)
      BY <1>3, <1>5, <1>7, NearestIn
    <2> QED BY <1>7, <2>1, <2>2 DEF join, cands, fanIns, below
  <1> QED BY <1>6, <1>7

\* The sum of the distances from the branches to n: one for each number of edges
\* that is too few for a branch to get there.
Effort(g, edges, n) ==
    Cardinality({p \in edges \X (0 .. Cardinality(Node)) : ~Near(g, p[1].to, n, p[2])})

\* The join of a fan-out, whatever search finds it, is a node every branch can get
\* to: a fan-in if there is such a fan-in, and otherwise a node below all branches;
\* it is missing only when there is neither.  Of these it is the one with the
\* least largest distance, then with the least sum of distances, then the first
\* by name.
THEOREM JoinIsNearest ==
    ASSUME NEW g, IsGraph(g), NEW edges \in SUBSET g.edges, edges # {}
    PROVE  LET join == FindJoinNode(g, edges)
               fanIns == {n \in g.fanIn : \A e \in edges : Leads(g, e.to, n)}
               below == {n \in Node : \A e \in edges : n # e.to /\ Leads(g, e.to, n)}
               cands == IF fanIns # {} THEN fanIns ELSE below
               Met(n, k) == \A e \in edges : Near(g, e.to, n, k)
           IN  IF cands = {} THEN join = NoNode
               ELSE /\ join \in cands
                    /\ \E k \in 0 .. Cardinality(Node) :
                          /\ Met(join, k)
                          /\ \A n \in cands, i \in 0 .. k - 1 : ~Met(n, i)
                          /\ \A n \in cands \ {join} : Met(n, k) =>
                                \/ Effort(g, edges, join) < Effort(g, edges, n)
                                \/ /\ Effort(g, edges, join) = Effort(g, edges, n)
                                   /\ Rank[join] < Rank[n]
  <1> DEFINE join == FindJoinNode(g, edges)
             fanIns == {n \in g.fanIn : \A e \in edges : Leads(g, e.to, n)}
             below == {n \in Node : \A e \in edges : n # e.to /\ Leads(g, e.to, n)}
             cands == IF fanIns # {} THEN fanIns ELSE below
             K == Cardinality(Node)
  <1>1. IsFiniteSet(edges) /\ \A e \in edges : e.to \in Node
    BY FS_Subset DEF IsGraph, IsEdge
  <1>2. g.fanIn \subseteq Node /\ fanIns \subseteq Node /\ below \subseteq Node
    BY DEF IsGraph
  <1>3. ASSUME NEW e \in edges, NEW n \in Node
        PROVE  n \in Reachable(g, e.to) <=> Leads(g, e.to, n)
    BY <1>1, ReachableIsAll
  <1>4. ASSUME NEW e \in edges, NEW n \in Node, NEW k \in 0 .. K
        PROVE  n \in Within(g, e.to)[k] <=> Near(g, e.to, n, k)
    BY <1>1, WithinIsDistance DEF Near
  <1>5. /\ fanIns = {n \in g.fanIn : \A e \in edges : n \in Reachable(g, e.to)}
        /\ below = {n \in Node : \A e \in edges : n # e.to /\ n \in Reachable(g, e.to)}
    BY <1>2, <1>3
  <1>6. K \in Nat
    BY FS_CardinalityType DEF IsGraph
  <1>7. ASSUME NEW n \in Node PROVE Missing(g, edges, n) = Effort(g, edges, n)
    <2>1. \A p \in edges \X (0 .. K) :
              n \notin Within(g, p[1].to)[p[2]] <=> ~Near(g, p[1].to, n, p[2])
      <3>1. \A p \in edges \X (0 .. K) : p[1] \in edges /\ p[2] \in 0 .. K
        OBVIOUS
      <3> HIDE DEF K
      <3> QED BY <1>4, <3>1
    <2>2. {p \in edges \X (0 .. K) : n \notin Within(g, p[1].to)[p[2]]}
              = {p \in edges \X (0 .. K) : ~Near(g, p[1].to, n, p[2])}
      BY <2>1
    <2> QED BY <2>2 DEF Missing, Effort
  <1> HIDE DEF join, fanIns, below
  <1>8. IF cands = {} THEN join = NoNode
        ELSE /\ join \in cands
             /\ \E k \in 0 .. K :
                   /\ \A e \in edges : join \in Within(g, e.to)[k]
                   /\ \A n \in cands, i \in 0 .. k - 1 : \E e \in edges : n \notin Within(g, e.to)[i]
                   /\ \A n \in cands :
                         (\A e \in edges : n \in Within(g, e.to)[k]) => Sooner(g, edges, join, n)
    BY <1>1, <1>5, JoinFound DEF join
  <1>9. cands \subseteq Node
    BY <1>2
  <1> HIDE DEF cands, K
  <1>10. CASE cands = {}
    BY <1>8, <1>10 DEF join, fanIns, below, cands
  <1>11. CASE cands # {}
    <2> DEFINE Met(n, k) == \A e \in edges : Near(g, e.to, n, k)
    <2>1. /\ join \in cands
          /\ \E k \in 0 .. K :
                /\ \A e \in edges : join \in Within(g, e.to)[k]
                /\ \A n \in cands, i \in 0 .. k - 1 : \E e \in edges : n \notin Within(g, e.to)[i]
                /\ \A n \in cands :
                      (\A e \in edges : n \in Within(g, e.to)[k]) => Sooner(g, edges, join, n)
      BY <1>8, <1>11
    <2>2. PICK k \in 0 .. K :
              /\ \A e \in edges : join \in Within(g, e.to)[k]
              /\ \A n \in cands, i \in 0 .. k - 1 : \E e \in edges : n \notin Within(g, e.to)[i]
              /\ \A n \in cands :
                    (\A e \in edges : n \in Within(g, e.to)[k]) => Sooner(g, edges, join, n)
      BY <2>1
    <2>3. \A n \in cands : \A i \in 0 .. K :
              (\A e \in edges : n \in Within(g, e.to)[i]) <=> Met(n, i)
      BY <1>4, <1>9
    <2>4. 0 .. k - 1 \subseteq 0 .. K
      BY <1>6
    <2>5. Met(join, k) /\ \A n \in cands, i \in 0 .. k - 1 : ~Met(n, i)
      <3> HIDE DEF Met
      <3> QED BY <2>1, <2>2, <2>3, <2>4
    <2>6. ASSUME NEW n \in cands \ {join}, Met(n, k)
          PROVE  \/ Effort(g, edges, join) < Effort(g, edges, n)
                 \/ Effort(g, edges, join) = Effort(g, edges, n) /\ Rank[join] < Rank[n]
      <3>1. Sooner(g, edges, join, n)
        <4> HIDE DEF Met
        <4> QED BY <2>2, <2>3, <2>6
      <3>2. n \in Node /\ join \in Node /\ n # join
        BY <1>9, <2>1, <2>6
      <3>3. Rank[join] \in Nat /\ Rank[n] \in Nat /\ Rank[join] # Rank[n]
        BY <3>2, RoutingAssumption
      <3> QED BY <1>7, <3>1, <3>2, <3>3 DEF Sooner
    <2> HIDE DEF Met
    <2>7. /\ join \in cands
          /\ \E i \in 0 .. K :
                /\ Met(join, i)
                /\ \A n \in cands, j \in 0 .. i - 1 : ~Met(n, j)
                /\ \A n \in cands \ {join} : Met(n, i) =>
                      \/ Effort(g, edges, join) < Effort(g, edges, n)
                      \/ /\ Effort(g, edges, join) = Effort(g, edges, n)
                         /\ Rank[join] < Rank[n]
      BY <2>1, <2>5, <2>6
    <2> QED BY <1>11, <2>7 DEF join, fanIns, below, cands, K, Met
  <1> QED BY <1>10, <1>11

\* findJoinNode finds a node or nothing.
LEMMA JoinType ==
    ASSUME NEW g, IsGraph(g), NEW edges, IsFiniteSet(edges)
    PROVE  FindJoinNode(g, edges) \in AnyNode
  <1>1. CASE edges = {}
    BY <1>1 DEF FindJoinNode, AnyNode
  <1>2. CASE edges # {}
    <2>1. g.fanIn \subseteq Node
      BY DEF IsGraph
    <2> QED BY <1>2, <2>1, JoinFound DEF AnyNode
  <1> QED BY <1>1, <1>2

Moves == {"hop", "fan_out", "restart"}
Ends == {"finish", "fail", "error"}

\* Whatever a node returns, the run either ends there or goes to a node of the
\* graph: no decision leads nowhere.
THEOREM DecisionType ==
    ASSUME NEW g, IsGraph(g), NEW n \in Node, NEW o, NEW join \in AnyNode
    PROVE  \/ Decide(g, n, o, join).kind \in Moves /\ Decide(g, n, o, join).to \in Node
           \/ Decide(g, n, o, join).kind \in Ends
  <1> DEFINE spread == FanOut(g, n, o)
             hop == ResolveNextHop(g, n, o)
             back == Fallback(g, n, o)
             matched == {e \in Outgoing(g, n) : Matches(e, o)}
             target == ResolveRetryTarget(g, n)
             eligible == SelectAllEligibleEdges(g, n, o)
  <1>1. /\ IsFiniteSet(eligible) /\ \A e \in eligible : IsEdge(e)
        /\ IsFiniteSet(matched) /\ \A e \in matched : IsEdge(e)
    <2>1. eligible \in SUBSET Outgoing(g, n) /\ matched \in SUBSET Outgoing(g, n)
      BY EligibleEdges
    <2> HIDE DEF eligible, matched
    <2> QED BY <2>1, OutgoingType, FS_Subset
  <1>2. spread \in AnyNode
    <2>1. CASE Cardinality(eligible) > 1
      BY <2>1, <1>1, JoinType DEF FanOut
    <2>2. CASE ~(Cardinality(eligible) > 1)
      BY <2>2 DEF FanOut, AnyNode
    <2> QED BY <2>1, <2>2
  <1>3. target \in AnyNode /\ back \in AnyNode
    BY RetryTargetType DEF Fallback, AnyNode
  <1>4. \A e : IsEdge(e) => Along(e).kind \in Moves /\ Along(e).to \in Node
    BY DEF Along, IsEdge, Moves
  <1>5. hop = Stop \/ (hop.kind \in Moves /\ hop.to \in Node)
    <2> HIDE DEF matched, target, eligible
    <2>1. hop = IF FailingFanIn(g, n, o)
                THEN CASE matched # {} -> Along(BestEdge(matched))
                       [] matched = {} /\ o.class # "deterministic" /\ target # NoNode -> HopTo(target)
                       [] OTHER -> Stop
                ELSE IF eligible = {} THEN Stop ELSE Along(BestEdge(eligible))
      BY DEF ResolveNextHop, matched, target, eligible
    <2> HIDE DEF hop
    <2>2. CASE FailingFanIn(g, n, o) /\ matched # {}
      BY <1>1, <1>4, <2>1, <2>2, BestEdgeIn
    <2>3. CASE FailingFanIn(g, n, o) /\ matched = {} /\ o.class # "deterministic" /\ target # NoNode
      BY <1>3, <2>1, <2>3 DEF HopTo, Moves, AnyNode
    <2>4. CASE FailingFanIn(g, n, o) /\ matched = {} /\ ~(o.class # "deterministic" /\ target # NoNode)
      BY <2>1, <2>4
    <2>5. CASE ~FailingFanIn(g, n, o)
      BY <1>1, <1>4, <2>1, <2>5, BestEdgeIn
    <2> QED BY <2>2, <2>3, <2>4, <2>5
  <1> HIDE DEF spread, hop, back
  <1>6. CASE n \in g.parallel
    BY <1>6 DEF Decide, HopTo, Moves, Ends, AnyNode
  <1>7. CASE n \notin g.parallel /\ spread # NoNode
    BY <1>2, <1>7 DEF Decide, Moves, AnyNode, spread
  <1>8. CASE n \notin g.parallel /\ spread = NoNode /\ hop.kind # "stop"
    BY <1>5, <1>8 DEF Decide, Stop, spread, hop
  <1>9. CASE n \notin g.parallel /\ spread = NoNode /\ hop.kind = "stop"
    BY <1>3, <1>9 DEF Decide, HopTo, Moves, Ends, AnyNode, spread, hop, back
  <1> QED BY <1>6, <1>7, <1>8, <1>9
=============================================================================
