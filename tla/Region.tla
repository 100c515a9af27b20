------------------------------- MODULE Region -------------------------------
(***************************************************************************)
(* A concurrent region of a run: runConcurrentRegion and its branches      *)
(* (concurrent.go), each branch with the attempts of its stages            *)
(* (executeWithRetry, executeNode, engine.go), the stall watchdog, and     *)
(* what the main loop makes of the region's result.                        *)
(*                                                                         *)
(* A step of a branch is a pass through runBranchUntilJoin or through the  *)
(* loop of executeWithRetry up to the next place where it waits: for the   *)
(* handler of a stage, or for the backoff timer.  A handler gives any      *)
(* result, or none while its context lives.  status.json of a stage holds  *)
(* what executeNode wrote, or what executeWithRetry wrote over it.         *)
(*                                                                         *)
(* Time is abstracted to whether there was a progress event since the      *)
(* watchdog looked last.  Branches are disjoint chains: branches that meet *)
(* before the join would run the shared stage twice at the same time, in   *)
(* one directory and with one map of attributes, which is left out.        *)
(*                                                                         *)
(* The region may be a revisited one: nodeRetries is the map of the main   *)
(* loop, with what earlier visits left in it.                              *)
(***************************************************************************)
EXTENDS StageRetry, Sequences

CONSTANTS
    Chain,          \* the stages of each branch, branches in the order of the split's edges
    Splits,         \* the splits to look at: allow_partial, and the branches
                    \* whose last stage has no edge to the join
    Carried,        \* the counts of retries a region may be called with: nodeRetries
                    \* and the context keys internal.retry_count
    StallTimeout,   \* does a watchdog run (Options.StallTimeout, fresh runs only)
    MayHang         \* the stages whose handler may wait for ever

Branch == DOMAIN Chain

ASSUME RegionAssumption ==
    /\ Chain \in Seq(Seq(Stage)) /\ Len(Chain) >= 2
    /\ \A b, d \in Branch : \A i \in DOMAIN Chain[b], j \in DOMAIN Chain[d] :
         Chain[b][i] = Chain[d][j] => b = d /\ i = j
    /\ Splits \subseteq [partial : BOOLEAN, deadEnds : SUBSET {b \in Branch : Chain[b] # <<>>}]
    /\ Carried \subseteq [count : [Stage -> Nat], key : [Stage -> Nat]]
    /\ \A c \in Carried : \A s \in Stage : c.count[s] \in {0, c.key[s]}
    /\ StallTimeout \in BOOLEAN
    /\ MayHang \subseteq Stage

VARIABLES
    split,      \* the split node and its graph, which do not change
    at,         \* where each branch's goroutine stands
    pos,        \* the place of its current stage in its chain
    try,        \* the variables of its executeWithRetry
    out,        \* the outcome executeWithRetry returned last
    err,        \* results[idx].Err
    status,     \* status.json of each stage
    model,      \* node.Attrs["llm_model"]: how far the node is escalated
    before,     \* the counts the region was called with, which do not change
    retries,    \* nodeRetries
    key,        \* the context keys internal.retry_count, 0 also for one that is not set
    failFast,   \* cancelBranches was called by a branch
    runCtx,     \* the run's context, and why it is done
    recent,     \* there was a progress event since the watchdog looked
    region,     \* runConcurrentRegion
    verdict     \* the terminal status of the run, once it is recorded

counts == <<retries, key>>
stageVars == <<status, model, counts>>
given == <<split, before>>
runVars == <<given, runCtx, region, verdict>>

vars == <<at, pos, try, out, err, stageVars, failFast, recent, runVars>>

Cur(b) == Chain[b][pos[b]]

\* Why the run's context is done: a plain cancellation; one with an error of its
\* own, by a signal (main.go) or over HTTP (handlers.go); the watchdog.
Causes == {"canceled", "stopped", "stalled"}

Running == {"handler", "hung", "backoff"}
Places == Running \cup {"top", "made", "returned", "gone"}

TypeOK ==
    /\ split \in Splits
    /\ at \in [Branch -> Places]
    /\ pos \in [Branch -> Nat \ {0}]
    /\ \A b \in Branch : at[b] \notin {"returned", "gone"} => pos[b] <= Len(Chain[b]) + 1
    /\ try \in [Branch -> Try]
    /\ \A b \in Branch : at[b] \in Running =>
         /\ try[b].attempt \in 1 .. MaxRetries[Cur(b)] + 1
         /\ try[b].idx \in 0 .. Escalations[Cur(b)]
    /\ out \in [Branch -> Outcome \cup {"none"}]
    /\ err \in [Branch -> {"none", "failed", "context"}]
    /\ status \in [Stage -> Result \cup Outcome \cup {"none"}]
    /\ model \in [Stage -> Nat]
    /\ before \in Carried
    /\ retries \in [Stage -> Nat]
    /\ key \in [Stage -> Nat]
    /\ failFast \in BOOLEAN
    /\ runCtx \in {"live"} \cup Causes
    /\ recent \in BOOLEAN
    /\ region \in {"running", "joined", "failed"}
    /\ verdict \in {"none", "fail", "canceled"}

Init ==
    /\ split \in Splits
    /\ at = [b \in Branch |-> "top"]
    /\ pos = [b \in Branch |-> 1]
    /\ try = [b \in Branch |-> FirstTry]
    /\ out = [b \in Branch |-> "none"]
    /\ err = [b \in Branch |-> "none"]
    /\ status = [s \in Stage |-> "none"]
    /\ model = [s \in Stage |-> 0]
    /\ before \in Carried
    /\ retries = before.count
    /\ key = before.key
    /\ failFast = FALSE
    /\ runCtx = "live"
    /\ recent = TRUE
    /\ region = "running"
    /\ verdict = "none"

\* branchCtx is done.
Canceled == failFast \/ runCtx # "live"

\* appendProgress
Progress == recent' = TRUE

-----------------------------------------------------------------------------
(* runBranchUntilJoin                                                      *)

\* The goroutine leaves runBranchUntilJoin with an error or with none.
Return(b, e) ==
    /\ at' = [at EXCEPT ![b] = "returned"]
    /\ err' = [err EXCEPT ![b] = e]

\* executeNode begins: the stage's status.json is removed.
BeginAttempt(b, t) ==
    /\ at' = [at EXCEPT ![b] = "handler"]
    /\ try' = [try EXCEPT ![b] = t]
    /\ status' = [status EXCEPT ![Cur(b)] = "none"]
    /\ Progress

\* The top of the loop: the context is done, the join is reached, or a stage
\* begins.
Top(b) ==
    /\ at[b] = "top"
    /\ IF Canceled THEN Return(b, "context") /\ UNCHANGED <<try, status, recent>>
       ELSE IF pos[b] > Len(Chain[b])
       THEN Return(b, "none") /\ UNCHANGED <<try, status, recent>>
       ELSE BeginAttempt(b, FirstTry) /\ UNCHANGED err
    /\ UNCHANGED <<pos, out, model, counts, failFast, runVars>>

\* The stage has no edge to go on by.
DeadEnd(b) == b \in split.deadEnds /\ pos[b] = Len(Chain[b])

\* What follows executeWithRetry: a failed stage ends the branch, and so does one
\* that leads nowhere.
AfterStage(b) ==
    /\ at[b] = "made"
    /\ IF out[b] \in {"fail", "canceled"} \/ DeadEnd(b)
       THEN Return(b, "failed") /\ UNCHANGED pos
       ELSE /\ pos' = [pos EXCEPT ![b] = @ + 1]
            /\ at' = [at EXCEPT ![b] = "top"]
            /\ UNCHANGED err
    /\ UNCHANGED <<try, out, stageVars, failFast, recent, runVars>>

\* Mutant: allow_partial of the split is not looked at.
LeaveStrict(b) ==
    /\ at[b] = "returned"
    /\ at' = [at EXCEPT ![b] = "gone"]
    /\ failFast' = (failFast \/ err[b] # "none")
    /\ UNCHANGED <<pos, try, out, err, stageVars, recent, runVars>>

\* The goroutine of the branch: a failed branch cancels its siblings.
Leave(b) ==
    /\ at[b] = "returned"
    /\ at' = [at EXCEPT ![b] = "gone"]
    /\ failFast' = (failFast \/ (err[b] # "none" /\ ~split.partial))
    /\ UNCHANGED <<pos, try, out, err, stageVars, recent, runVars>>

-----------------------------------------------------------------------------
(* executeWithRetry                                                        *)

\* Mutant: status.json stays as the last attempt wrote it.
MakeUnwritten(b, o, disk) ==
    /\ at' = [at EXCEPT ![b] = "made"]
    /\ out' = [out EXCEPT ![b] = o]
    /\ status' = [status EXCEPT ![Cur(b)] = IF o = "ok" THEN disk ELSE @]
    /\ model' = [model EXCEPT ![Cur(b)] = 0]

\* It returns o; the deferred function restores the node's model.  disk is what
\* status.json holds in the end.
Make(b, o, disk) ==
    /\ at' = [at EXCEPT ![b] = "made"]
    /\ out' = [out EXCEPT ![b] = o]
    /\ status' = [status EXCEPT ![Cur(b)] = disk]
    /\ model' = [model EXCEPT ![Cur(b)] = 0]

\* An attempt is over with this result, which executeNode wrote to status.json,
\* and there is another one to come or not.
Judge(b, result) ==
    LET s == Cur(b)
        t == NextTry(s, try[b], result)
    IN  IF result = "ok"
        THEN /\ Make(b, "ok", "ok")
             /\ retries' = [retries EXCEPT ![s] = 0]
             /\ UNCHANGED <<try, key>>
        ELSE IF CanRetry(s, try[b], result)
        THEN /\ at' = [at EXCEPT ![b] = "backoff"]
             /\ try' = [try EXCEPT ![b] = t]
             /\ status' = [status EXCEPT ![s] = result]
             /\ model' = [model EXCEPT ![s] = t.idx]
             /\ retries' = [retries EXCEPT ![s] = @ + 1]
             /\ key' = [key EXCEPT ![s] = retries[s] + 1]
             /\ UNCHANGED out
        ELSE /\ Make(b, Exhausted(s), Exhausted(s))
             /\ UNCHANGED <<try, counts>>

\* The handler returns.
Finish(b) ==
    /\ at[b] = "handler"
    /\ \/ Canceled /\ Make(b, "canceled", "canceled") /\ UNCHANGED <<try, counts>>
       \/ ~Canceled /\ \E result \in Result : Judge(b, result)
    /\ Progress
    /\ UNCHANGED <<pos, err, failFast, runVars>>

\* The handler will not return by itself, and does when its context is done.
Hang(b) ==
    /\ at[b] = "handler" /\ Cur(b) \in MayHang /\ ~Canceled
    /\ at' = [at EXCEPT ![b] = "hung"]
    /\ UNCHANGED <<pos, try, out, err, stageVars, failFast, recent, runVars>>

Unhang(b) ==
    /\ at[b] = "hung" /\ Canceled
    /\ Make(b, "canceled", "canceled")
    /\ Progress
    /\ UNCHANGED <<pos, try, err, counts, failFast, runVars>>

\* sleepWithContext: the timer fires, or the context is done.
Wake(b) ==
    /\ at[b] = "backoff"
    /\ \/ BeginAttempt(b, try[b]) /\ UNCHANGED <<out, model>>
       \/ Canceled /\ Make(b, "canceled", "canceled") /\ UNCHANGED <<try, recent>>
    /\ UNCHANGED <<pos, err, counts, failFast, runVars>>

-----------------------------------------------------------------------------
(* The region, and the run around it.                                      *)

\* Mutant: the last branch alone decides.
JoinLast ==
    /\ region = "running"
    /\ \A b \in Branch : at[b] = "gone"
    /\ IF ~split.partial /\ err[Len(Chain)] # "none"
       THEN region' = "failed" /\ verdict' = "fail"
       ELSE region' = "joined" /\ UNCHANGED verdict
    /\ UNCHANGED <<at, pos, try, out, err, stageVars, failFast, recent, runCtx, given>>

\* wg.Wait returns, and the main loop goes on: a failed region is recorded at
\* once.
Join ==
    /\ region = "running"
    /\ \A b \in Branch : at[b] = "gone"
    /\ IF ~split.partial /\ \E b \in Branch : err[b] # "none"
       THEN region' = "failed" /\ verdict' = "fail"
       ELSE region' = "joined" /\ UNCHANGED verdict
    /\ UNCHANGED <<at, pos, try, out, err, stageVars, failFast, recent, runCtx, given>>

\* The top of runLoop after a region that joined: the run's context is done.  A
\* cause that is not context.Canceled makes it a failed run (isCanceledError).
LoopTop ==
    /\ region = "joined" /\ verdict = "none" /\ runCtx # "live"
    /\ verdict' = IF runCtx = "canceled" THEN "canceled" ELSE "fail"
    /\ UNCHANGED <<at, pos, try, out, err, stageVars, failFast, recent, runCtx, region, given>>

\* The context the run was started with is canceled.
Cancel ==
    /\ runCtx = "live" /\ region # "failed"
    /\ runCtx' \in {"canceled", "stopped"}
    /\ UNCHANGED <<at, pos, try, out, err, stageVars, failFast, recent, region, verdict, given>>

\* Mutant: the look counts as progress.
WatchTicking ==
    /\ StallTimeout /\ runCtx = "live" /\ region = "running"
    /\ runCtx' = IF recent THEN "live" ELSE "stalled"
    /\ recent' = TRUE
    /\ UNCHANGED <<at, pos, try, out, err, stageVars, failFast, region, verdict, given>>

\* runStallWatchdog looks: nothing moved for the stall timeout, or something did.
Watch ==
    /\ StallTimeout /\ runCtx = "live" /\ region = "running"
    /\ runCtx' = IF recent THEN "live" ELSE "stalled"
    /\ recent' = ~recent
    /\ UNCHANGED <<at, pos, try, out, err, stageVars, failFast, region, verdict, given>>

Step(b) == Top(b) \/ Finish(b) \/ Unhang(b) \/ Wake(b) \/ AfterStage(b) \/ Leave(b)

Next ==
    \/ \E b \in Branch : Step(b) \/ Hang(b)
    \/ Join \/ LoopTop \/ Cancel \/ Watch

Spec == Init /\ [][Next]_vars

\* Goroutines go on, timers fire, and a handler returns unless it hangs.
FairSpec ==
    /\ Spec
    /\ \A b \in Branch : WF_vars(Step(b))
    /\ WF_vars(Join) /\ WF_vars(LoopTop) /\ WF_vars(Watch)

-----------------------------------------------------------------------------
(* Properties.                                                             *)

\* status.json of a stage that is over holds the outcome the branch goes by,
\* whichever of the five ways it ended (engine.go:1506, 1619, 1644, 1652).
StatusIsOutcome == \A b \in Branch : at[b] = "made" => status[Cur(b)] = out[b]

\* No stage keeps the model it was escalated to (engine.go:1452-1456), and while
\* it runs, each further model took more than RBE capability failures.
EscalationEarned ==
    \A b \in Branch : pos[b] <= Len(Chain[b]) =>
        IF at[b] \in Running
        THEN model[Cur(b)] = try[b].idx /\ try[b].idx * (RBE + 1) <= try[b].caps
        ELSE model[Cur(b)] = 0

\* What is recorded of a stage's retries, over several visits of the region.  The
\* count in nodeRetries goes on from what earlier visits left (engine.go:1598),
\* counts each attempt but the first of this visit once, and begins anew with a
\* success only (engine.go:1532).  The context key follows the count at each retry
\* and at no other time (engine.go:1604): a success leaves it behind
\* (retry_count_context_test.go:136-143), and so, in a branch, does the first
\* attempt of a visit, whereas runLoop sets it there (engine.go:684).
RetriesCounted ==
    \A b \in Branch : \A i \in DOMAIN Chain[b] :
        LET s == Chain[b][i]
            here == i = pos[b] /\ at[b] \in Running
        IN  /\ retries[s] <= before.count[s] + MaxRetries[s]
            /\ retries[s] \in {0, key[s]}
            /\ here => retries[s] = before.count[s] + (try[b].attempt - 1)
            /\ here /\ try[b].attempt = 1 => key[s] = before.key[s]
            /\ i < pos[b] /\ retries[s] # 0 => status[s] = "partial"

\* Nobody is canceled without a cause: a branch that fails on account of its
\* context has a sibling that failed by itself, or the run was canceled; and a
\* split with allow_partial never cancels a branch for another one's failure.
CancelHasCause ==
    \A b \in Branch :
        at[b] \in {"made", "returned", "gone"} /\ (out[b] = "canceled" \/ err[b] = "context") =>
            \/ runCtx # "live"
            \/ ~split.partial /\ \E d \in Branch \ {b} : err[d] = "failed" /\ out[d] # "canceled"

\* A region that joins without allow_partial ran every stage of every branch to
\* an outcome that is not a failure.
JoinedMeansAll ==
    region = "joined" /\ ~split.partial =>
        \A b \in Branch : \A i \in DOMAIN Chain[b] : status[Chain[b][i]] \in {"ok", "partial"}

\* A region returns, also when a stage of it hangs: the watchdog, or the failure
\* of a sibling, ends the wait (engine.go:2206-2222).
RegionReturns == <>(region # "running")

\* "canceled | The run was externally canceled via context cancellation"
\* (docs/runs-layout.md:163, engine.go:2094): a run in which nothing but a
\* cancellation from outside went wrong is not recorded as failed.
CanceledIsRecorded ==
    verdict = "fail" /\ runCtx \in {"canceled", "stopped"} =>
        \E b \in Branch : err[b] = "failed" /\ out[b] # "canceled"
=============================================================================
