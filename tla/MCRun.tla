------------------------------- MODULE MCRun -------------------------------
(* Instances of RunClaims for TLC: small graphs with the features that meet *)
(* in a run.                                                                 *)
EXTENDS RunClaims, TLC

CONSTANTS begin, build, verify, leave, left, right, merge, split, upper, lower

Outcome(stat, class) ==
    [status |-> stat, class |-> class, label |-> NoLabel, next |-> <<>>, join |-> NoNode]
Success == Outcome("success", "")
Broken == Outcome("fail", "deterministic")
Malformed == Outcome("fail", "structural")
Flaky == Outcome("fail", "transient_infra")
CanceledOutcome == Outcome("fail", "canceled")

Edge(m, n, when, order) ==
    [from |-> m, to |-> n, guarded |-> when # {}, when |-> when, label |-> NoLabel,
     weight |-> 0, order |-> order, restart |-> FALSE]
Restart(edge) == [edge EXCEPT !.restart = TRUE]

OnFlaky == {<<"fail", "transient_infra">>}

GateRank == begin :> 1 @@ build :> 2 @@ verify :> 3 @@ leave :> 4
Retry(m, target, fallback) ==
    [n \in Node |-> IF n = m THEN <<target, fallback>> ELSE <<NoNode, NoNode>>]

\* Implement, verify behind a goal gate, exit; an unsatisfied gate goes back
\* to build.
GateGraph ==
    [edges |-> {Edge(begin, build, {}, 1), Edge(build, verify, {}, 2), Edge(verify, leave, {}, 3)},
     fanIn |-> {}, parallel |-> {}, gates |-> {verify},
     retry |-> Retry(verify, build, NoNode), retryAll |-> <<NoNode, NoNode>>]

GateOutcomes ==
    begin :> {Success} @@ build :> {Success, Broken} @@ verify :> {Success, Broken, Flaky} @@ leave :> {Success}

\* The same loop, but a transient failure of verify restarts the run at build.
RestartGraph ==
    [GateGraph EXCEPT !.edges = @ \cup {Restart(Edge(verify, build, OnFlaky, 4))}]

RestartOutcomes ==
    begin :> {Success} @@ build :> {Success} @@ verify :> {Success, Broken, Flaky} @@ leave :> {Success}

\* A gate that is its own retry target, with a node between it and the exit.
SelfGateGraph ==
    [GateGraph EXCEPT !.edges = {Edge(begin, verify, {}, 1), Edge(verify, build, {}, 2),
                                Edge(build, leave, {}, 3)},
                      !.retry = Retry(verify, verify, NoNode)]

\* An implicit fan-out joined by a fan-in that goes back to begin on a
\* structural failure and not on a deterministic one; an explicit fan-out joined
\* by the exit.
FanRank ==
    begin :> 1 @@ left :> 2 @@ right :> 3 @@ merge :> 4 @@
    split :> 5 @@ upper :> 6 @@ lower :> 7 @@ leave :> 8

FanGraph ==
    [edges |-> {Edge(begin, left, {}, 1), Edge(begin, right, {}, 2),
                Edge(left, merge, {}, 3), Edge(right, merge, {}, 4), Edge(merge, split, {}, 5),
                Edge(split, upper, {}, 6), Edge(split, lower, {}, 7),
                Edge(upper, leave, {}, 8), Edge(lower, leave, {}, 9)},
     fanIn |-> {merge}, parallel |-> {split}, gates |-> {merge},
     retry |-> Retry(merge, NoNode, begin), retryAll |-> <<NoNode, NoNode>>]

\* A parallel node that could not dispatch its branches sets no join.
Dispatched(o) == [o EXCEPT !.join = leave]
FanOutcomes ==
    [n \in Node |-> CASE n = merge -> {Success, Broken, Malformed}
                      [] n = split -> {Dispatched(Success), Dispatched(Broken), Broken}
                      [] OTHER -> {Success}]

\* The instances are what the theorems of RunHistoryProofs assume.
ASSUME InstanceExits == ExitsEnd
ASSUME InstanceRetries == Graph # SelfGateGraph => RetriedElsewhere
=============================================================================
