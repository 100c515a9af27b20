----------------------------- MODULE RunHistory -----------------------------
(***************************************************************************)
(* What a run must keep promising across crashes and resumes, stated with  *)
(* the help of a history no code reads: the outcome every node had when it *)
(* was last checkpointed, and how often it was checkpointed as a failure   *)
(* the cycle breaker counts.                                               *)
(***************************************************************************)
EXTENDS RunLoop

VARIABLES
    truth,    \* by logs root and node, the outcome last checkpointed
    failures  \* by signature, announced checkpoints of tracked failures

hvars == <<vars, truth, failures>>

HInit ==
    /\ Init
    /\ truth = [k \in Root |-> NoStatus]
    /\ failures = NoSigs

Saving == pc = "save" /\ pc' = "announce"
Announcing == pc = "announce" /\ pc' \in {"route", "persist"}
Restarting == pc = "route" /\ pc' = "enter" /\ e'.root # e.root

HNext ==
    /\ Next
    /\ truth' = IF Saving THEN [truth EXCEPT ![e.root][e.cur] = e.out]
                ELSE IF Restarting THEN [truth EXCEPT ![e'.root] = NoStatus]
                ELSE truth
    /\ failures' = IF Announcing /\ e.cur \notin Terminal /\ Tracked(e.out)
                   THEN [failures EXCEPT ![restartFailureSignature] = @ + 1]
                   ELSE failures

HSpec == HInit /\ [][HNext]_hvars
HFairSpec == HSpec /\ WF_vars(Engine)

Running == pc \notin Gone

\* Exit nodes have no edges (lintExitNoOutgoing) and their handler succeeds.
ExitsEnd ==
    \A n \in Terminal :
        /\ Outgoing(Graph, n) = {}
        /\ n \notin Graph.parallel
        /\ \A o \in Outcomes[n] : ~Failing(o)

\* The join nodes that the context key can hold.
Joins ==
    LET outcomes == (UNION {Outcomes[n] : n \in Node}) \cup {Canceled}
    IN  {NoNode} \cup {o.join : o \in outcomes}
            \cup {FanOut(Graph, n, o) : n \in Node, o \in outcomes}

Successors(n) == {Decide(Graph, n, o, join).to : o \in Outcomes[n], join \in Joins}
GateTargets == {ResolveRetryTarget(Graph, gate) : gate \in Graph.gates} \ {NoNode}

\* A gate that is attempted again has been left for another node that is no
\* gate: no gate follows itself, is retried at a gate, or ends the run.
GatesRetriedElsewhere ==
    /\ \A gate \in Graph.gates : gate \notin Successors(gate)
    /\ Graph.gates \cap (GateTargets \cup Terminal) = {}

\* So does every node: none follows itself, at once or by way of a terminal node
\* with an unsatisfied gate.
RetriedElsewhere ==
    /\ GatesRetriedElsewhere
    /\ \A n \in Node : n \notin Successors(n)
    /\ \A n \in GateTargets : Successors(n) \cap Terminal = {}

-----------------------------------------------------------------------------
(* Properties *)

\* A run that finishes at a terminal node has every goal gate that it reached
\* in this iteration satisfied by the last attempt that was checkpointed, even
\* when the outcomes were rebuilt from status files after a crash.  It holds when
\* GatesRetriedElsewhere does; claim_gate has a gate that is retried at itself.
GateSoundness ==
    pc = "persist" /\ verdict = "success" /\ e.cur \in Terminal =>
        FailedGates(Graph, truth[e.root]) = {}

\* The cycle breaker never forgets a checkpointed failure: neither a crash and
\* a resume nor a loop restart lowers its count, so no node fails the same way
\* SignatureLimit times.
BreakerNeverForgets ==
    \A s \in Signature :
        /\ Running => failures[s] <= e.loopSigs[s]
        /\ failures[s] < SignatureLimit

\* A checkpoint names the commit of the node it is for, so that a resume never
\* pairs the routing state of one node with the code of another.
CommittedCode ==
    \A k \in Root :
        checkpoint[k] # NoCheckpoint => checkpoint[k].sha \in {NoSha, checkpoint[k].node}

\* The restart count that is checkpointed in a logs root is the root's number:
\* after any crash the next restart gets a number that no earlier checkpoint of
\* the iteration it continues has.
RestartsCounted ==
    \A k \in Root : checkpoint[k] # NoCheckpoint => checkpoint[k].restarts = k

\* While final.json of the base root says success, the checkpoint CXDB points
\* to is of a node after which nothing was left to do.
SuccessIsFinal ==
    final[0] = "success" =>
        LET c == checkpoint[pointer]
        IN  \/ c.node \in Terminal
            \/ Decide(Graph, c.node, truth[pointer][c.node], c.join).kind = "finish"

\* The announced checkpoints of the run are one walk through the graph.
Pointed == checkpoint[pointer]
AnyPointed == Pointed # NoCheckpoint
W == INSTANCE Walk WITH
        last <- IF AnyPointed THEN Pointed.node ELSE NoNode,
        out <- IF AnyPointed THEN truth[pointer][Pointed.node] ELSE NoOutcome,
        seen <- IF AnyPointed THEN truth[pointer] ELSE NoStatus,
        join <- IF AnyPointed THEN Pointed.join ELSE NoNode
WalkSpec == W!Spec

\* A run with a visit limit comes to an end whatever its stages return, however
\* it is crashed, canceled and resumed.
RunTerminates == <>[](pc \in Gone)
=============================================================================
