---------------------------- MODULE RegionProofs ----------------------------
(***************************************************************************)
(* What holds of a concurrent region for every number of branches, stages, *)
(* retries and models.                                                     *)
(*                                                                         *)
(* The steps of a branch are of seven kinds, the moves below; what is      *)
(* known of a branch (Here) says where it stands, what the tries of its    *)
(* current stage have used up, and what it left behind in the stages it    *)
(* passed.  A branch cannot disturb another one's, since their chains      *)
(* share no stage.  That the failures of branches have a cause is a        *)
(* property of all of them together (Blamed).  Every move brings its       *)
(* branch nearer to its end (Nearer).                                      *)
(***************************************************************************)
EXTENDS Region, SequenceTheorems, TLAPS

-----------------------------------------------------------------------------
(* Chains.                                                                 *)

LEMMA ChainOf ==
    ASSUME NEW b \in Branch
    PROVE  /\ Chain[b] \in Seq(Stage) /\ Len(Chain[b]) \in Nat
           /\ DOMAIN Chain[b] = 1 .. Len(Chain[b])
           /\ \A i \in DOMAIN Chain[b] : Chain[b][i] \in Stage
  <1>1. Chain \in Seq(Seq(Stage)) /\ b \in 1 .. Len(Chain)
    BY RegionAssumption DEF Branch
  <1>2. Chain[b] \in Seq(Stage)
    BY <1>1, ElementOfSeq
  <1>3. Len(Chain[b]) \in Nat /\ DOMAIN Chain[b] = 1 .. Len(Chain[b])
    BY <1>2
  <1>4. \A i \in 1 .. Len(Chain[b]) : Chain[b][i] \in Stage
    BY <1>2, ElementOfSeq
  <1> QED BY <1>2, <1>3, <1>4

LEMMA Apart ==
    ASSUME NEW b \in Branch, NEW d \in Branch, NEW i \in DOMAIN Chain[b],
           NEW j \in DOMAIN Chain[d], b # d \/ i # j
    PROVE  Chain[b][i] # Chain[d][j]
  BY RegionAssumption

-----------------------------------------------------------------------------
(* The moves of a branch.                                                  *)

Types ==
    /\ split \in Splits
    /\ at \in [Branch -> Places]
    /\ pos \in [Branch -> Nat \ {0}]
    /\ try \in [Branch -> Try]
    /\ out \in [Branch -> Outcome \cup {"none"}]
    /\ err \in [Branch -> {"none", "failed", "context"}]
    /\ status \in [Stage -> Result \cup Outcome \cup {"none"}]
    /\ model \in [Stage -> Nat]
    /\ before \in Carried
    /\ retries \in [Stage -> Nat]
    /\ key \in [Stage -> Nat]
    /\ failFast \in BOOLEAN
    /\ runCtx \in {"live"} \cup Causes
    /\ recent \in BOOLEAN
    /\ region \in {"running", "joined", "failed"}
    /\ verdict \in {"none", "fail", "canceled"}

\* An attempt begins, the first one of a stage or one more.
Begins(b) ==
    \E t \in Try :
      /\ \/ at[b] = "top" /\ pos[b] <= Len(Chain[b]) /\ t = FirstTry
         \/ at[b] = "backoff" /\ t = try[b]
      /\ at' = [at EXCEPT ![b] = "handler"]
      /\ try' = [try EXCEPT ![b] = t]
      /\ status' = [status EXCEPT ![Cur(b)] = "none"]
      /\ UNCHANGED <<pos, out, err, model, counts, failFast>>

\* Its handler waits for ever.
Hangs(b) ==
    /\ at[b] = "handler"
    /\ at' = [at EXCEPT ![b] = "hung"]
    /\ UNCHANGED <<pos, try, out, err, status, model, counts, failFast>>

\* It fails and there will be another one.
Fails(b) ==
    \E result \in Result :
      /\ at[b] = "handler" /\ CanRetry(Cur(b), try[b], result)
      /\ at' = [at EXCEPT ![b] = "backoff"]
      /\ try' = [try EXCEPT ![b] = NextTry(Cur(b), try[b], result)]
      /\ status' = [status EXCEPT ![Cur(b)] = result]
      /\ model' = [model EXCEPT ![Cur(b)] = NextTry(Cur(b), try[b], result).idx]
      /\ retries' = [retries EXCEPT ![Cur(b)] = retries[Cur(b)] + 1]
      /\ key' = [key EXCEPT ![Cur(b)] = retries[Cur(b)] + 1]
      /\ UNCHANGED <<pos, out, err, failFast>>

\* The stage has its outcome.
Ends(b) ==
    \E o \in Outcome :
      /\ at[b] \in Running /\ (o = "canceled" => Canceled)
      /\ at' = [at EXCEPT ![b] = "made"]
      /\ out' = [out EXCEPT ![b] = o]
      /\ status' = [status EXCEPT ![Cur(b)] = o]
      /\ model' = [model EXCEPT ![Cur(b)] = 0]
      /\ retries' = IF o = "ok" THEN [retries EXCEPT ![Cur(b)] = 0] ELSE retries
      /\ UNCHANGED <<pos, try, err, key, failFast>>

\* The branch goes on to its next stage.
Advances(b) ==
    /\ at[b] = "made" /\ out[b] \notin {"fail", "canceled"}
    /\ pos' = [pos EXCEPT ![b] = pos[b] + 1]
    /\ at' = [at EXCEPT ![b] = "top"]
    /\ UNCHANGED <<try, out, err, status, model, counts, failFast>>

\* The branch is over, for one of three reasons.
Returns(b) ==
    \E e \in {"none", "failed", "context"} :
      /\ \/ at[b] = "top" /\ e = "context" /\ Canceled
         \/ at[b] = "top" /\ e = "none" /\ ~(pos[b] <= Len(Chain[b]))
         \/ at[b] = "made" /\ e = "failed"
      /\ at' = [at EXCEPT ![b] = "returned"]
      /\ err' = [err EXCEPT ![b] = e]
      /\ UNCHANGED <<pos, try, out, status, model, counts, failFast>>

\* Its goroutine ends.
Goes(b) ==
    /\ at[b] = "returned"
    /\ at' = [at EXCEPT ![b] = "gone"]
    /\ failFast' = (failFast \/ (err[b] # "none" /\ ~split.partial))
    /\ UNCHANGED <<pos, try, out, err, status, model, counts>>

Moves(b) ==
    /\ UNCHANGED before
    /\ \/ Begins(b) \/ Hangs(b) \/ Fails(b) \/ Ends(b) \/ Advances(b) \/ Returns(b)
       \/ Goes(b)

LEMMA BranchMoves ==
    ASSUME Types, NEW b \in Branch, Step(b) \/ Hang(b)
    PROVE  Moves(b) /\ recent' \in BOOLEAN /\ UNCHANGED runVars
  <1>t. /\ recent \in BOOLEAN /\ try[b] \in Try /\ pos[b] \in Nat /\ FirstTry \in Try
        /\ Len(Chain[b]) \in Nat
    BY ChainOf DEF Types, FirstTry, Try
  <1> USE DEF Moves, given, runVars, counts, stageVars
  <1>1. CASE Top(b)
    <2>1. CASE Canceled
      <3>1. Returns(b)
        BY <1>1, <2>1 DEF Top, Return, Returns
      <3> QED BY <1>1, <1>t, <2>1, <3>1 DEF Top
    <2>2. CASE ~Canceled /\ pos[b] > Len(Chain[b])
      <3>1. Returns(b)
        BY <1>1, <1>t, <2>2 DEF Top, Return, Returns
      <3> QED BY <1>1, <1>t, <2>2, <3>1 DEF Top
    <2>3. CASE ~Canceled /\ ~(pos[b] > Len(Chain[b]))
      <3>1. Begins(b)
        BY <1>1, <1>t, <2>3 DEF Top, BeginAttempt, Begins
      <3> QED BY <1>1, <1>t, <2>3, <3>1 DEF Top, BeginAttempt, Progress
    <2> QED BY <2>1, <2>2, <2>3
  <1>2. CASE Finish(b)
    <2>1. recent' \in BOOLEAN /\ UNCHANGED <<runVars, pos, err, failFast>>
      BY <1>2 DEF Finish, Progress
    <2>2. CASE Canceled /\ Make(b, "canceled", "canceled") /\ UNCHANGED <<try, counts>>
      <3>1. Ends(b)
        BY <1>2, <2>1, <2>2 DEF Finish, Make, Ends, Outcome, Running
      <3> QED BY <2>1, <3>1
    <2>3. ASSUME NEW result \in Result, Judge(b, result) PROVE Moves(b)
      <3>0. at[b] = "handler"
        BY <1>2 DEF Finish
      <3>1. CASE result = "ok"
        <4>1. Ends(b)
          BY <2>1, <2>3, <3>0, <3>1 DEF Judge, Make, Ends, Outcome, Running
        <4> QED BY <2>1, <4>1
      <3>2. CASE result # "ok" /\ CanRetry(Cur(b), try[b], result)
        <4>1. Fails(b)
          BY <2>1, <2>3, <3>0, <3>2 DEF Judge, Fails
        <4> QED BY <2>1, <4>1
      <3>3. CASE result # "ok" /\ ~CanRetry(Cur(b), try[b], result)
        <4>1. Exhausted(Cur(b)) \in Outcome \ {"ok", "canceled"}
          BY DEF Exhausted, Outcome
        <4>2. Ends(b)
          BY <2>1, <2>3, <3>0, <3>3, <4>1 DEF Judge, Make, Ends, Running
        <4> QED BY <2>1, <4>2
      <3> QED BY <3>1, <3>2, <3>3
    <2> QED BY <1>2, <2>1, <2>2, <2>3 DEF Finish
  <1>3. CASE Unhang(b)
    <2>1. Ends(b)
      BY <1>3 DEF Unhang, Make, Ends, Outcome, Running
    <2> QED BY <1>3, <2>1 DEF Unhang, Progress
  <1>4. CASE Wake(b)
    <2>1. CASE BeginAttempt(b, try[b]) /\ UNCHANGED <<out, model>>
      <3>1. Begins(b)
        BY <1>4, <1>t, <2>1 DEF Wake, BeginAttempt, Begins
      <3> QED BY <1>4, <2>1, <3>1 DEF Wake, BeginAttempt, Progress
    <2>2. CASE Canceled /\ Make(b, "canceled", "canceled") /\ UNCHANGED <<try, recent>>
      <3>1. Ends(b)
        BY <1>4, <2>2 DEF Wake, Make, Ends, Outcome, Running
      <3> QED BY <1>4, <1>t, <2>2, <3>1 DEF Wake
    <2> QED BY <1>4, <2>1, <2>2 DEF Wake
  <1>5. CASE AfterStage(b)
    <2>1. Returns(b) \/ Advances(b)
      BY <1>5 DEF AfterStage, Return, Returns, Advances
    <2> QED BY <1>5, <1>t, <2>1 DEF AfterStage
  <1>6. CASE Leave(b)
    <2>1. Goes(b)
      BY <1>6 DEF Leave, Goes
    <2> QED BY <1>6, <1>t, <2>1 DEF Leave
  <1>7. CASE Hang(b)
    <2>1. Hangs(b)
      BY <1>7 DEF Hang, Hangs
    <2> QED BY <1>7, <1>t, <2>1 DEF Hang
  <1> QED BY <1>1, <1>2, <1>3, <1>4, <1>5, <1>6, <1>7 DEF Step
-----------------------------------------------------------------------------
(* What is known of one branch.                                            *)

Placed(b) ==
    /\ pos[b] \in 1 .. Len(Chain[b]) + 1
    /\ at[b] \in Running \cup {"made"} => pos[b] <= Len(Chain[b])
    /\ at[b] \notin {"returned", "gone"} => err[b] = "none"
    /\ at[b] \notin {"made", "returned", "gone"} => out[b] # "canceled"
    /\ at[b] \in {"returned", "gone"} /\ err[b] = "none" => pos[b] = Len(Chain[b]) + 1
    /\ at[b] = "made" =>
         /\ out[b] \in Outcome /\ status[Cur(b)] = out[b]
         /\ out[b] = "ok" => retries[Cur(b)] = 0

\* The tries of the stage that runs.
Counted(b) ==
    at[b] \in Running =>
        /\ try[b].attempt \in 1 .. MaxRetries[Cur(b)] + 1
        /\ retries[Cur(b)] = before.count[Cur(b)] + (try[b].attempt - 1)
        /\ try[b].attempt = 1 => key[Cur(b)] = before.key[Cur(b)]
        /\ try[b].idx \in 0 .. Escalations[Cur(b)]
        /\ model[Cur(b)] = try[b].idx
        /\ try[b].idx * (RBE + 1) + try[b].fails <= try[b].caps

\* A count and a key that may be recorded for a stage, those the region was called
\* with among them.
Recorded(s, count, context) ==
    count <= before.count[s] + MaxRetries[s] /\ count \in {0, context}

\* The stages of the chain, whatever has become of them.
Passed(b) ==
    \A i \in DOMAIN Chain[b] :
        LET s == Chain[b][i]
        IN  /\ Recorded(s, retries[s], key[s])
            /\ (i = pos[b] /\ at[b] \in Running) \/ model[s] = 0
            /\ i < pos[b] => status[s] \in {"ok", "partial"}
            /\ i < pos[b] /\ retries[s] # 0 => status[s] = "partial"
            /\ i > pos[b] \/ (i = pos[b] /\ at[b] = "top") =>
                 retries[s] = before.count[s] /\ key[s] = before.key[s]

Here(b) == Placed(b) /\ Counted(b) /\ Passed(b)

LEMMA BeforeIs ==
    ASSUME Types, NEW s \in Stage
    PROVE  /\ before.count[s] \in Nat /\ before.key[s] \in Nat /\ MaxRetries[s] \in Nat
           /\ Recorded(s, before.count[s], before.key[s])
  <1>1. before \in [count : [Stage -> Nat], key : [Stage -> Nat]]
    BY RegionAssumption DEF Types
  <1>2. before.count[s] \in {0, before.key[s]} /\ MaxRetries[s] \in Nat
    BY RegionAssumption, StageAssumption DEF Types
  <1>3. before.count[s] \in Nat /\ before.key[s] \in Nat
    BY <1>1
  <1> QED BY <1>2, <1>3 DEF Recorded

LEMMA CurIn ==
    ASSUME Types, NEW b \in Branch, pos[b] <= Len(Chain[b])
    PROVE  pos[b] \in DOMAIN Chain[b] /\ Cur(b) \in Stage
  <1>1. pos[b] \in 1 .. Len(Chain[b])
    BY ChainOf DEF Types
  <1> QED BY <1>1, ChainOf DEF Cur

\* The arithmetic of a further model.
LEMMA Further ==
    ASSUME NEW idx \in Nat, NEW fails \in Nat, NEW caps \in Nat,
           idx * (RBE + 1) + fails <= caps, fails + 1 > RBE
    PROVE  (idx + 1) * (RBE + 1) + 0 <= caps + 1
  <1>1. RBE \in Nat
    BY StageAssumption
  <1>2. (idx + 1) * (RBE + 1) = idx * (RBE + 1) + (RBE + 1) /\ idx * (RBE + 1) \in Nat
    BY <1>1
  <1> QED BY <1>1, <1>2

LEMMA NextTryIs ==
    ASSUME NEW s \in Stage, NEW t \in Try, NEW result \in Result
    PROVE  LET u == NextTry(s, t, result)
           IN  /\ u \in Try
               /\ u.attempt = t.attempt + 1
               /\ t.idx \in 0 .. Escalations[s] => u.idx \in 0 .. Escalations[s]
               /\ t.idx * (RBE + 1) + t.fails <= t.caps =>
                    u.idx * (RBE + 1) + u.fails <= u.caps
  <1> DEFINE u == NextTry(s, t, result)
  <1>1. /\ t.attempt \in Nat /\ t.fails \in Nat /\ t.idx \in Nat /\ t.caps \in Nat
        /\ RBE \in Nat /\ Escalations[s] \in Nat
    BY StageAssumption DEF Try
  <1>2. /\ u.attempt = t.attempt + 1 /\ u.fails = Failures(s, t, result)
        /\ u.idx = Model(s, t, result)
        /\ u.caps = IF result = "capability" THEN t.caps + 1 ELSE t.caps
    BY DEF NextTry
  <1>3. u \in Try
    <2>1. Failures(s, t, result) \in Nat /\ Model(s, t, result) \in Nat
      BY <1>1 DEF Failures, Model
    <2> QED BY <1>1, <2>1 DEF NextTry, Try
  <1> HIDE DEF u
  <1>4. CASE Switches(s, t, result)
    <2>1. result = "capability" /\ t.fails + 1 > RBE /\ t.idx < Escalations[s]
      BY <1>4 DEF Switches, Escalatable
    <2>2. u.fails = 0 /\ u.idx = t.idx + 1 /\ u.caps = t.caps + 1
      BY <1>2, <1>4, <2>1 DEF Failures, Model
    <2>3. t.idx * (RBE + 1) + t.fails <= t.caps => (t.idx + 1) * (RBE + 1) + 0 <= t.caps + 1
      BY <1>1, <2>1, Further
    <2>4. t.idx \in 0 .. Escalations[s] => u.idx \in 0 .. Escalations[s]
      BY <1>1, <2>1, <2>2
    <2> QED BY <1>2, <1>3, <2>2, <2>3, <2>4 DEF u
  <1>5. CASE ~Switches(s, t, result)
    <2>1. u.idx = t.idx
      BY <1>2, <1>5 DEF Model
    <2>2. /\ u.fails \in {t.fails, t.fails + 1}
          /\ u.fails # t.fails => u.caps = t.caps + 1
          /\ u.caps \in {t.caps, t.caps + 1}
      BY <1>2, <1>5 DEF Failures, Escalatable
    <2>3. t.idx * (RBE + 1) \in Nat
      BY <1>1
    <2>4. t.idx * (RBE + 1) + t.fails <= t.caps => u.idx * (RBE + 1) + u.fails <= u.caps
      <3> DEFINE p == t.idx * (RBE + 1)
      <3>1. u.idx * (RBE + 1) = p /\ p \in Nat
        BY <2>1, <2>3
      <3> HIDE DEF p
      <3>2. p + t.fails <= t.caps => p + u.fails <= u.caps
        BY <1>1, <2>2, <3>1
      <3> QED BY <3>1, <3>2 DEF p
    <2> QED BY <1>2, <1>3, <2>1, <2>4 DEF u
  <1> QED BY <1>4, <1>5

LEMMA TypesStep == Types /\ (\A b \in Branch : Here(b)) /\ [Next]_vars => Types'
  <1> SUFFICES ASSUME Types, \A b \in Branch : Here(b), [Next]_vars PROVE Types'
    OBVIOUS
  <1> USE DEF Types, counts, given, runVars
  <1>1. ASSUME NEW b \in Branch, Moves(b), recent' \in BOOLEAN,
               UNCHANGED runVars
        PROVE  Types'
    <2>0. at[b] \in Running => Cur(b) \in Stage
      BY CurIn DEF Here, Placed
    <2>1. CASE Begins(b)
      <3>1. PICK t \in Try : try' = [try EXCEPT ![b] = t]
        BY <2>1 DEF Begins
      <3> QED BY <1>1, <2>1, <3>1 DEF Begins, Places, Running
    <2>2. CASE Hangs(b)
      BY <1>1, <2>2 DEF Hangs, Places, Running
    <2>3. CASE Fails(b)
      <3>1. PICK result \in Result :
              /\ try' = [try EXCEPT ![b] = NextTry(Cur(b), try[b], result)]
              /\ status' = [status EXCEPT ![Cur(b)] = result]
              /\ model' = [model EXCEPT ![Cur(b)] = NextTry(Cur(b), try[b], result).idx]
              /\ retries' = [retries EXCEPT ![Cur(b)] = retries[Cur(b)] + 1]
              /\ key' = [key EXCEPT ![Cur(b)] = retries[Cur(b)] + 1]
              /\ at[b] = "handler"
        BY <2>3 DEF Fails
      <3>2. /\ NextTry(Cur(b), try[b], result) \in Try
            /\ NextTry(Cur(b), try[b], result).idx \in Nat
        BY <2>0, <3>1, NextTryIs DEF Running, Try
      <3>3. retries[Cur(b)] + 1 \in Nat
        BY <2>0, <3>1 DEF Running
      <3>4. at' \in [Branch -> Places]
        BY <2>3 DEF Fails, Places, Running
      <3>5. /\ try' \in [Branch -> Try] /\ model' \in [Stage -> Nat]
            /\ retries' \in [Stage -> Nat] /\ key' \in [Stage -> Nat]
        BY <3>1, <3>2, <3>3
      <3>6. status' \in [Stage -> Result \cup Outcome \cup {"none"}]
        BY <3>1
      <3> QED BY <1>1, <2>3, <3>4, <3>5, <3>6 DEF Fails
    <2>4. CASE Ends(b)
      <3>1. PICK o \in Outcome :
              /\ out' = [out EXCEPT ![b] = o]
              /\ status' = [status EXCEPT ![Cur(b)] = o]
              /\ model' = [model EXCEPT ![Cur(b)] = 0]
              /\ retries' = IF o = "ok" THEN [retries EXCEPT ![Cur(b)] = 0] ELSE retries
        BY <2>4 DEF Ends
      <3>2. at' \in [Branch -> Places]
        BY <2>4 DEF Ends, Places
      <3>3. model' \in [Stage -> Nat] /\ retries' \in [Stage -> Nat]
        BY <3>1
      <3>4. out' \in [Branch -> Outcome \cup {"none"}]
        BY <3>1
      <3>5. status' \in [Stage -> Result \cup Outcome \cup {"none"}]
        BY <3>1
      <3> QED BY <1>1, <2>4, <3>2, <3>3, <3>4, <3>5 DEF Ends
    <2>5. CASE Advances(b)
      BY <1>1, <2>5 DEF Advances, Places, Running
    <2>6. CASE Returns(b)
      BY <1>1, <2>6 DEF Returns, Places, Running
    <2>7. CASE Goes(b)
      <3>1. failFast' \in BOOLEAN
        BY <2>7 DEF Goes
      <3> QED BY <1>1, <2>7, <3>1 DEF Goes, Places, Running
    <2> QED BY <1>1, <2>1, <2>2, <2>3, <2>4, <2>5, <2>6, <2>7 DEF Moves
  <1>2. CASE Join
    BY <1>2 DEF Join, stageVars
  <1>3. CASE LoopTop
    BY <1>3 DEF LoopTop, stageVars
  <1>4. CASE Cancel
    BY <1>4 DEF Cancel, stageVars, Causes
  <1>5. CASE Watch
    <2>1. recent' \in BOOLEAN
      BY <1>5 DEF Watch
    <2> QED BY <1>5, <2>1 DEF Watch, stageVars, Causes
  <1>6. CASE UNCHANGED vars
    BY <1>6 DEF vars, stageVars
  <1> QED BY <1>1, <1>2, <1>3, <1>4, <1>5, <1>6, BranchMoves DEF Next

\* A move of d changes nothing of another branch, and of its own chain at most
\* the stage it is at.
Same(i, b) ==
    LET s == Chain[b][i]
    IN  /\ status'[s] = status[s] /\ model'[s] = model[s]
        /\ retries'[s] = retries[s] /\ key'[s] = key[s]

LEMMA MovesApart ==
    ASSUME Types, NEW d \in Branch, Here(d), Moves(d)
    PROVE  /\ \A b \in Branch \ {d} :
                /\ at'[b] = at[b] /\ pos'[b] = pos[b] /\ try'[b] = try[b]
                /\ out'[b] = out[b] /\ err'[b] = err[b]
           /\ \A b \in Branch : \A i \in DOMAIN Chain[b] : b # d \/ i # pos[d] => Same(i, b)
           /\ before' = before
  <1> USE DEF Types, counts
  <1>1. ASSUME NEW b \in Branch \ {d}
        PROVE  /\ at'[b] = at[b] /\ pos'[b] = pos[b] /\ try'[b] = try[b]
               /\ out'[b] = out[b] /\ err'[b] = err[b]
    BY DEF Moves, Begins, Hangs, Fails, Ends, Advances, Returns, Goes
  <1>2. ASSUME NEW b \in Branch, NEW i \in DOMAIN Chain[b], b # d \/ i # pos[d]
        PROVE  Same(i, b)
    <2>1. Chain[b][i] \in Stage
      BY ChainOf
    <2>2. ASSUME pos[d] <= Len(Chain[d]) PROVE Chain[b][i] # Cur(d)
      <3>1. pos[d] \in DOMAIN Chain[d]
        BY <2>2, CurIn
      <3> QED BY <1>2, <3>1, Apart DEF Cur
    <2>3. CASE Begins(d)
      <3>1. pos[d] <= Len(Chain[d])
        BY <2>3 DEF Begins, Here, Placed, Running
      <3>2. Chain[b][i] # Cur(d)
        BY <2>2, <3>1
      <3> QED BY <2>1, <2>3, <3>2 DEF Begins, Same
    <2>4. CASE Fails(d)
      <3>1. pos[d] <= Len(Chain[d])
        BY <2>4 DEF Fails, Here, Placed, Running
      <3>2. Chain[b][i] # Cur(d)
        BY <2>2, <3>1
      <3> QED BY <2>1, <2>4, <3>2 DEF Fails, Same
    <2>5. CASE Ends(d)
      <3>1. pos[d] <= Len(Chain[d])
        BY <2>5 DEF Ends, Here, Placed, Running
      <3>2. Chain[b][i] # Cur(d)
        BY <2>2, <3>1
      <3> QED BY <2>1, <2>5, <3>2 DEF Ends, Same
    <2>6. CASE Hangs(d) \/ Advances(d) \/ Returns(d) \/ Goes(d)
      BY <2>6 DEF Hangs, Advances, Returns, Goes, Same
    <2> QED BY <2>3, <2>4, <2>5, <2>6 DEF Moves
  <1>3. before' = before
    BY DEF Moves
  <1> QED BY <1>1, <1>2, <1>3

LEMMA OthersStay ==
    ASSUME Types, NEW d \in Branch, Here(d), Moves(d), NEW b \in Branch \ {d}, Here(b)
    PROVE  Here(b)'
  <1>1. /\ at'[b] = at[b] /\ pos'[b] = pos[b] /\ try'[b] = try[b]
        /\ out'[b] = out[b] /\ err'[b] = err[b] /\ before' = before
    BY MovesApart
  <1>2. \A i \in DOMAIN Chain[b] : Same(i, b)
    BY MovesApart
  <1>3. Cur(b)' = Cur(b)
    BY <1>1 DEF Cur
  <1>4. ASSUME at[b] \in Running \cup {"made"}
        PROVE  /\ status'[Cur(b)] = status[Cur(b)] /\ model'[Cur(b)] = model[Cur(b)]
               /\ retries'[Cur(b)] = retries[Cur(b)] /\ key'[Cur(b)] = key[Cur(b)]
    <2>1. pos[b] \in DOMAIN Chain[b]
      BY <1>4, CurIn DEF Here, Placed
    <2> QED BY <1>2, <2>1 DEF Same, Cur
  <1>5. Placed(b)'
    BY <1>1, <1>3, <1>4 DEF Here, Placed
  <1>6. Counted(b)'
    BY <1>1, <1>3, <1>4 DEF Here, Counted
  <1>7. Passed(b)'
    BY <1>1, <1>2 DEF Here, Passed, Same, Recorded
  <1> QED BY <1>5, <1>6, <1>7 DEF Here

\* What is to be shown of Passed after a move of its own branch: the stages that
\* it is not at stay as they are.
LEMMA PassedStays ==
    ASSUME Types, NEW b \in Branch, Here(b), Moves(b), pos'[b] = pos[b],
           at[b] = "top" \/ at'[b] # "top",
           pos[b] <= Len(Chain[b]) =>
             LET s == Cur(b)
             IN  /\ Recorded(s, retries'[s], key'[s])
                 /\ at'[b] \in Running \/ model'[s] = 0
                 /\ at'[b] # "top"
    PROVE  Passed(b)'
  <1>1. ASSUME NEW i \in DOMAIN Chain[b]
        PROVE  LET s == Chain[b][i]
               IN  /\ Recorded(s, retries'[s], key'[s])
                   /\ (i = pos'[b] /\ at'[b] \in Running) \/ model'[s] = 0
                   /\ i < pos'[b] => status'[s] \in {"ok", "partial"}
                   /\ i < pos'[b] /\ retries'[s] # 0 => status'[s] = "partial"
                   /\ i > pos'[b] \/ (i = pos'[b] /\ at'[b] = "top") =>
                        retries'[s] = before.count[s] /\ key'[s] = before.key[s]
    <2>1. pos[b] \in Nat /\ i \in Nat /\ i <= Len(Chain[b])
      BY ChainOf DEF Types
    <2>2. CASE i = pos[b]
      BY <2>1, <2>2 DEF Cur
    <2>3. CASE i # pos[b]
      <3>1. Same(i, b)
        BY <2>3, MovesApart
      <3> QED BY <2>1, <2>3, <3>1 DEF Here, Passed, Same
    <2> QED BY <2>2, <2>3
  <1>2. before' = before
    BY DEF Moves
  <1> QED BY <1>1, <1>2 DEF Passed, Recorded

LEMMA SelfStays ==
    ASSUME Types, NEW b \in Branch, Here(b), Moves(b)
    PROVE  Here(b)'
  <1> USE DEF Types, counts
  <1>t. /\ pos[b] \in Nat \ {0} /\ Len(Chain[b]) \in Nat /\ try[b] \in Try
        /\ out[b] \in Outcome \cup {"none"} /\ Cur(b)' = Chain[b][pos'[b]]
        /\ before' = before
    BY ChainOf DEF Cur, Moves
  <1>1. CASE Begins(b)
    <2>1. PICK t \in Try :
            /\ \/ at[b] = "top" /\ pos[b] <= Len(Chain[b]) /\ t = FirstTry
               \/ at[b] = "backoff" /\ t = try[b]
            /\ try' = [try EXCEPT ![b] = t]
      BY <1>1 DEF Begins
    <2>2. pos[b] <= Len(Chain[b]) /\ pos' = pos /\ Cur(b)' = Cur(b)
      BY <1>1, <1>t DEF Begins, Here, Placed, Running, Cur
    <2>3. /\ at'[b] = "handler" /\ try'[b] = t /\ out'[b] = out[b] /\ err'[b] = err[b]
          /\ retries' = retries /\ key' = key /\ model' = model
      BY <1>1, <2>1 DEF Begins
    <2>4. Cur(b) \in Stage /\ pos[b] \in DOMAIN Chain[b] /\ MaxRetries[Cur(b)] \in Nat
          /\ Escalations[Cur(b)] \in Nat /\ RBE \in Nat
      BY <2>2, CurIn, StageAssumption
    <2>5. Placed(b)'
      BY <1>1, <1>t, <2>2, <2>3 DEF Begins, Here, Placed, Running
    <2>6. Counted(b)'
      <3>1. CASE at[b] = "backoff" /\ t = try[b]
        BY <1>t, <2>2, <2>3, <3>1 DEF Here, Counted, Running
      <3>2. CASE at[b] = "top" /\ t = FirstTry
        <4>1. /\ retries[Cur(b)] = before.count[Cur(b)] /\ key[Cur(b)] = before.key[Cur(b)]
              /\ model[Cur(b)] = 0 /\ before.count[Cur(b)] \in Nat
          BY BeforeIs, <2>4, <3>2 DEF Here, Passed, Running, Cur
        <4>2. t.attempt = 1 /\ t.fails = 0 /\ t.idx = 0 /\ t.caps = 0
          BY <3>2 DEF FirstTry
        <4>3. 0 * (RBE + 1) + 0 <= 0
          BY <2>4
        <4>4. before.count[Cur(b)] = before.count[Cur(b)] + (t.attempt - 1)
          BY <4>1, <4>2
        <4> QED BY <1>t, <2>2, <2>3, <2>4, <4>1, <4>2, <4>3, <4>4 DEF Counted
      <3> QED BY <2>1, <3>1, <3>2
    <2>7. Passed(b)'
      <3>1. Recorded(Cur(b), retries[Cur(b)], key[Cur(b)])
        BY <2>4 DEF Here, Passed, Cur
      <3> QED BY <2>2, <2>3, <3>1, PassedStays DEF Running
    <2> QED BY <2>5, <2>6, <2>7 DEF Here
  <1>2. CASE Hangs(b)
    <2>1. /\ at[b] = "handler" /\ at'[b] = "hung" /\ pos' = pos /\ Cur(b)' = Cur(b)
          /\ UNCHANGED <<try, out, err, status, model, counts>>
      BY <1>2, <1>t DEF Hangs, Cur
    <2>2. pos[b] <= Len(Chain[b])
      BY <2>1 DEF Here, Placed, Running
    <2>3. Placed(b)' /\ Counted(b)'
      BY <1>t, <2>1, <2>2 DEF Here, Placed, Counted, Running
    <2>4. Recorded(Cur(b), retries[Cur(b)], key[Cur(b)])
      BY <2>2, CurIn DEF Here, Passed, Cur
    <2>5. Passed(b)'
      BY <2>1, <2>4, PassedStays DEF Running
    <2> QED BY <2>3, <2>5 DEF Here
  <1>3. CASE Fails(b)
    <2> DEFINE s == Cur(b)
    <2>1. PICK result \in Result :
            /\ CanRetry(s, try[b], result)
            /\ try' = [try EXCEPT ![b] = NextTry(s, try[b], result)]
            /\ status' = [status EXCEPT ![s] = result]
            /\ model' = [model EXCEPT ![s] = NextTry(s, try[b], result).idx]
            /\ retries' = [retries EXCEPT ![s] = retries[s] + 1]
            /\ key' = [key EXCEPT ![s] = retries[s] + 1]
      BY <1>3 DEF Fails
    <2> DEFINE u == NextTry(s, try[b], result)
    <2>2. /\ at[b] = "handler" /\ at'[b] = "backoff" /\ pos' = pos /\ Cur(b)' = s
          /\ out'[b] = out[b] /\ err'[b] = err[b] /\ at[b] \in Running
      BY <1>3, <1>t DEF Fails, Cur, Running
    <2>3. pos[b] <= Len(Chain[b])
      BY <2>2 DEF Here, Placed
    <2>4. s \in Stage /\ pos[b] \in DOMAIN Chain[b] /\ MaxRetries[s] \in Nat
      BY <2>3, CurIn, StageAssumption
    <2>5. /\ try[b].attempt \in 1 .. MaxRetries[s] + 1
          /\ retries[s] = before.count[s] + (try[b].attempt - 1)
          /\ try[b].idx \in 0 .. Escalations[s]
          /\ try[b].idx * (RBE + 1) + try[b].fails <= try[b].caps
      BY <2>2 DEF Here, Counted
    <2>6. /\ u.attempt = try[b].attempt + 1 /\ u.idx \in 0 .. Escalations[s]
          /\ u.idx * (RBE + 1) + u.fails <= u.caps
      BY <1>t, <2>4, <2>5, NextTryIs
    <2>7. try[b].attempt < MaxRetries[s] + 1
      BY <2>1 DEF CanRetry
    <2>8. /\ try'[b] = u /\ model'[s] = u.idx /\ retries'[s] = retries[s] + 1
          /\ key'[s] = retries[s] + 1 /\ before.count[s] \in Nat
      BY <2>1, <2>4, BeforeIs
    <2> HIDE DEF u, s
    <2>9. Placed(b)'
      BY <1>t, <2>2, <2>3 DEF Here, Placed, Running
    <2>10. /\ u.attempt \in 1 .. MaxRetries[s] + 1 /\ u.attempt # 1
           /\ retries'[s] = before.count[s] + (u.attempt - 1)
      BY <2>4, <2>5, <2>6, <2>7, <2>8
    <2>11. Counted(b)'
      BY <1>t, <2>2, <2>6, <2>8, <2>10 DEF Counted
    <2>12. Recorded(s, retries'[s], key'[s])
      BY <2>4, <2>8, <2>10 DEF Recorded
    <2>13. Passed(b)'
      BY <2>2, <2>12, PassedStays DEF Running, s
    <2> QED BY <2>9, <2>11, <2>13 DEF Here
  <1>4. CASE Ends(b)
    <2> DEFINE s == Cur(b)
    <2>1. PICK o \in Outcome :
            /\ out' = [out EXCEPT ![b] = o]
            /\ status' = [status EXCEPT ![s] = o]
            /\ model' = [model EXCEPT ![s] = 0]
            /\ retries' = IF o = "ok" THEN [retries EXCEPT ![s] = 0] ELSE retries
      BY <1>4 DEF Ends
    <2>2. /\ at[b] \in Running /\ at'[b] = "made" /\ pos' = pos /\ Cur(b)' = s
          /\ err'[b] = err[b]
      BY <1>4, <1>t DEF Ends, Cur
    <2>3. pos[b] <= Len(Chain[b])
      BY <2>2 DEF Here, Placed
    <2>4. s \in Stage /\ pos[b] \in DOMAIN Chain[b] /\ MaxRetries[s] \in Nat
      BY <2>3, CurIn, StageAssumption
    <2>5. /\ out'[b] = o /\ status'[s] = o /\ model'[s] = 0
          /\ retries'[s] \in {0, retries[s]} /\ (o = "ok" => retries'[s] = 0)
          /\ key'[s] = key[s] /\ before.count[s] \in Nat
      BY <1>4, <2>1, <2>4, BeforeIs DEF Ends
    <2>6. Recorded(s, retries[s], key[s])
      BY <2>4 DEF Here, Passed, Cur
    <2> HIDE DEF s
    <2>7. Placed(b)'
      BY <1>t, <2>1, <2>2, <2>3, <2>5 DEF Here, Placed, Running
    <2>8. Counted(b)'
      BY <2>2 DEF Counted, Running
    <2>9. Passed(b)'
      <3>1. Recorded(s, retries'[s], key'[s])
        BY <2>4, <2>5, <2>6 DEF Recorded
      <3>2. at'[b] # "top" /\ pos'[b] = pos[b]
        BY <2>2
      <3> QED BY <2>5, <3>1, <3>2, PassedStays DEF s
    <2> QED BY <2>7, <2>8, <2>9 DEF Here
  <1>5. CASE Advances(b)
    <2>1. /\ at[b] = "made" /\ out[b] \notin {"fail", "canceled"} /\ at'[b] = "top"
          /\ pos'[b] = pos[b] + 1
          /\ UNCHANGED <<try, out, err, status, model, retries, key>>
      BY <1>5 DEF Advances
    <2>2. /\ pos[b] <= Len(Chain[b]) /\ out[b] \in {"ok", "partial"} /\ status[Cur(b)] = out[b]
          /\ (out[b] = "ok" => retries[Cur(b)] = 0) /\ err[b] = "none"
      BY <2>1 DEF Here, Placed, Outcome, Running
    <2>3. Placed(b)'
      BY <1>t, <2>1, <2>2 DEF Placed, Running
    <2>4. Counted(b)'
      BY <2>1 DEF Counted, Running
    <2>5. ASSUME NEW i \in DOMAIN Chain[b]
          PROVE  LET s == Chain[b][i]
                 IN  /\ Recorded(s, retries'[s], key'[s])
                     /\ (i = pos'[b] /\ at'[b] \in Running) \/ model'[s] = 0
                     /\ i < pos'[b] => status'[s] \in {"ok", "partial"}
                     /\ i < pos'[b] /\ retries'[s] # 0 => status'[s] = "partial"
                     /\ i > pos'[b] \/ (i = pos'[b] /\ at'[b] = "top") =>
                          retries'[s] = before.count[s] /\ key'[s] = before.key[s]
      <3>1. i \in Nat
        BY ChainOf
      <3>2. CASE i = pos[b]
        BY <1>t, <2>1, <2>2, <3>2 DEF Here, Passed, Cur, Running
      <3>3. CASE i # pos[b]
        <4> DEFINE s == Chain[b][i]
        <4>1. /\ Recorded(s, retries[s], key[s])
              /\ model[s] = 0
              /\ i < pos[b] => status[s] \in {"ok", "partial"}
              /\ i < pos[b] /\ retries[s] # 0 => status[s] = "partial"
              /\ i > pos[b] => retries[s] = before.count[s] /\ key[s] = before.key[s]
          BY <2>1, <3>3 DEF Here, Passed, Running
        <4>2. i < pos'[b] => i < pos[b]
          BY <1>t, <2>1, <3>1, <3>3
        <4>3. i > pos'[b] \/ i = pos'[b] => i > pos[b]
          BY <1>t, <2>1, <3>1
        <4> QED BY <2>1, <4>1, <4>2, <4>3
      <3> QED BY <3>2, <3>3
    <2>6. Passed(b)'
      BY <1>t, <2>5 DEF Passed, Recorded
    <2> QED BY <2>3, <2>4, <2>6 DEF Here
  <1>6. CASE Returns(b) \/ Goes(b)
    <2>1. /\ at'[b] \in {"returned", "gone"} /\ pos' = pos /\ Cur(b)' = Cur(b)
          /\ at[b] \in {"top", "made", "returned"}
          /\ UNCHANGED <<try, out, status, model, counts>>
      BY <1>6, <1>t DEF Returns, Goes, Cur
    <2>2. at[b] \in {"returned", "gone"} => err'[b] = err[b]
      BY <1>6 DEF Returns, Goes
    <2>3. err'[b] = "none" => pos[b] = Len(Chain[b]) + 1
      <3>1. CASE Goes(b)
        BY <3>1 DEF Goes, Here, Placed
      <3>2. CASE Returns(b)
        BY <1>t, <3>2 DEF Returns, Here, Placed
      <3> QED BY <1>6, <3>1, <3>2
    <2>4. Placed(b)'
      BY <1>t, <2>1, <2>3 DEF Here, Placed, Running
    <2>5. Counted(b)'
      BY <2>1 DEF Counted, Running
    <2>6. pos[b] <= Len(Chain[b]) =>
            Recorded(Cur(b), retries[Cur(b)], key[Cur(b)]) /\ model[Cur(b)] = 0
      BY <2>1, CurIn DEF Here, Passed, Cur, Running
    <2>7. Passed(b)'
      <3>1. at'[b] # "top" /\ pos'[b] = pos[b] /\ retries' = retries /\ key' = key /\ model' = model
        BY <2>1
      <3> QED BY <2>6, <3>1, PassedStays
    <2> QED BY <2>4, <2>5, <2>7 DEF Here
  <1> QED BY <1>1, <1>2, <1>3, <1>4, <1>5, <1>6 DEF Moves

-----------------------------------------------------------------------------
(* Causes.                                                                 *)

\* A branch failed by itself, and the split does not take that.
Blame == ~split.partial /\ \E d \in Branch : err[d] = "failed" /\ out[d] # "canceled"

Blamed ==
    /\ failFast => runCtx # "live" \/ Blame
    /\ \A b \in Branch : out[b] = "canceled" \/ err[b] = "context" => runCtx # "live" \/ Blame

LEMMA BlameStays ==
    ASSUME Types, NEW b \in Branch, Here(b), Moves(b), UNCHANGED split, Blame
    PROVE  Blame'
  <1>1. PICK d \in Branch : err[d] = "failed" /\ out[d] # "canceled"
    BY DEF Blame
  <1>2. CASE d # b
    BY <1>1, <1>2, MovesApart DEF Blame
  <1>3. CASE d = b
    <2>1. at[b] \in {"returned", "gone"}
      BY <1>1, <1>3 DEF Here, Placed
    <2>2. Goes(b)
      BY <2>1 DEF Moves, Begins, Hangs, Fails, Ends, Advances, Returns, Running
    <2> QED BY <1>1, <1>3, <2>2 DEF Goes, Blame
  <1> QED BY <1>2, <1>3

LEMMA BlamedStep ==
    ASSUME Types, NEW b \in Branch, Here(b), Moves(b), UNCHANGED <<split, runCtx>>, Blamed
    PROVE  Blamed'
  <1>1. runCtx # "live" \/ Blame => runCtx' # "live" \/ Blame'
    BY BlameStays
  <1>2. Canceled => runCtx # "live" \/ Blame
    BY DEF Blamed, Canceled
  <1>3. CASE Begins(b) \/ Hangs(b) \/ Fails(b) \/ Advances(b)
    BY <1>1, <1>3 DEF Blamed, Begins, Hangs, Fails, Advances
  <1>4. CASE Ends(b)
    <2>1. \A d \in Branch : out'[d] = "canceled" => out[d] = "canceled" \/ Canceled
      BY <1>4 DEF Types, Ends
    <2> QED BY <1>1, <1>2, <1>4, <2>1 DEF Blamed, Ends
  <1>5. CASE Returns(b)
    <2>1. \A d \in Branch : err'[d] = "context" => err[d] = "context" \/ Canceled
      BY <1>5 DEF Types, Returns
    <2> QED BY <1>1, <1>2, <1>5, <2>1 DEF Blamed, Returns
  <1>6. CASE Goes(b)
    <2>1. ASSUME err[b] # "none", ~split.partial PROVE runCtx # "live" \/ Blame
      <3>1. CASE err[b] = "context" \/ out[b] = "canceled"
        BY <3>1 DEF Blamed
      <3>2. CASE err[b] = "failed" /\ out[b] # "canceled"
        BY <2>1, <3>2 DEF Blame
      <3> QED BY <2>1, <3>1, <3>2 DEF Types
    <2>2. failFast' => failFast \/ (err[b] # "none" /\ ~split.partial)
      BY <1>6 DEF Goes
    <2>3. UNCHANGED <<out, err>>
      BY <1>6 DEF Goes
    <2> QED BY <1>1, <2>1, <2>2, <2>3 DEF Blamed
  <1> QED BY <1>3, <1>4, <1>5, <1>6 DEF Moves

-----------------------------------------------------------------------------
(* The invariant.                                                          *)

Joined ==
    /\ region # "running" => \A b \in Branch : at[b] = "gone"
    /\ region = "joined" /\ ~split.partial => \A b \in Branch : err[b] = "none"

RegionInv == Types /\ (\A b \in Branch : Here(b)) /\ Blamed /\ Joined

LEMMA RegionInit == Init => RegionInv
  <1> SUFFICES ASSUME Init PROVE RegionInv
    OBVIOUS
  <1> USE DEF Init
  <1>1. Types
    <2>1. FirstTry \in Try
      BY DEF FirstTry, Try
    <2>2. try \in [Branch -> Try]
      BY <2>1
    <2>3. at \in [Branch -> Places] /\ pos \in [Branch -> Nat \ {0}]
      BY DEF Places
    <2>4. /\ out \in [Branch -> Outcome \cup {"none"}]
          /\ err \in [Branch -> {"none", "failed", "context"}]
          /\ status \in [Stage -> Result \cup Outcome \cup {"none"}]
      OBVIOUS
    <2>5. model \in [Stage -> Nat] /\ retries \in [Stage -> Nat] /\ key \in [Stage -> Nat]
      BY RegionAssumption
    <2> QED BY <2>2, <2>3, <2>4, <2>5 DEF Types
  <1>2. ASSUME NEW b \in Branch PROVE Here(b)
    <2>1. \A i \in DOMAIN Chain[b] : Chain[b][i] \in Stage /\ i \in 1 .. Len(Chain[b])
      BY ChainOf
    <2>2. Placed(b) /\ Counted(b)
      BY ChainOf DEF Placed, Counted, Running
    <2>3. Passed(b)
      BY <1>1, <2>1, BeforeIs DEF Passed, Running
    <2> QED BY <2>2, <2>3 DEF Here
  <1>3. Blamed /\ Joined
    BY DEF Blamed, Joined
  <1> QED BY <1>1, <1>2, <1>3 DEF RegionInv

LEMMA HereStays ==
    ASSUME \A b \in Branch : Here(b),
           UNCHANGED <<at, pos, try, out, err, status, model, counts, before>>
    PROVE  (\A b \in Branch : Here(b))'
  BY DEF Here, Placed, Counted, Passed, Recorded, Cur, counts

LEMMA RegionStep == RegionInv /\ [Next]_vars => RegionInv'
  <1> SUFFICES ASSUME RegionInv, [Next]_vars PROVE RegionInv'
    OBVIOUS
  <1>t. Types /\ (\A b \in Branch : Here(b)) /\ Blamed /\ Joined
    BY DEF RegionInv
  <1>0. Types'
    BY <1>t, TypesStep
  <1>1. ASSUME NEW b \in Branch, Step(b) \/ Hang(b) PROVE RegionInv'
    <2>1. Moves(b) /\ UNCHANGED <<split, runCtx, region, verdict>>
      BY <1>1, <1>t, BranchMoves DEF runVars, given
    <2>2. (\A d \in Branch : Here(d))'
      BY <1>t, <2>1, OthersStay, SelfStays
    <2>3. Blamed'
      BY <1>t, <2>1, BlamedStep
    <2>4. at[b] # "gone"
      BY <2>1 DEF Moves, Begins, Hangs, Fails, Ends, Advances, Returns, Goes, Running
    <2>5. Joined'
      BY <1>t, <2>1, <2>4 DEF Joined
    <2> QED BY <1>0, <2>2, <2>3, <2>5 DEF RegionInv
  <1>2. CASE Join
    <2>1. UNCHANGED <<at, pos, try, out, err, status, model, counts, failFast, runCtx,
                    split, before>>
      BY <1>2 DEF Join, stageVars, given
    <2>2. (\A b \in Branch : Here(b))'
      BY <1>t, <2>1, HereStays
    <2>3. Joined' /\ Blamed'
      BY <1>2, <1>t, <2>1 DEF Join, Joined, Blamed, Blame
    <2> QED BY <1>0, <2>2, <2>3 DEF RegionInv
  <1>3. CASE LoopTop \/ Cancel \/ Watch \/ UNCHANGED vars
    <2>1. UNCHANGED <<at, pos, try, out, err, status, model, counts, failFast, region,
                    split, before>>
      BY <1>3 DEF LoopTop, Cancel, Watch, stageVars, given, runVars, vars
    <2>2. (\A b \in Branch : Here(b))'
      BY <1>t, <2>1, HereStays
    <2>3. runCtx # "live" => runCtx' # "live"
      BY <1>3 DEF LoopTop, Cancel, Watch, vars, runVars, Causes
    <2>4. Joined' /\ Blamed'
      BY <1>t, <2>1, <2>3 DEF Joined, Blamed, Blame
    <2> QED BY <1>0, <2>2, <2>4 DEF RegionInv
  <1> QED BY <1>1, <1>2, <1>3 DEF Next

LEMMA RegionHolds == Spec => []RegionInv
  BY RegionInit, RegionStep, PTL DEF Spec

-----------------------------------------------------------------------------
(* What follows.                                                           *)

\* TypeOK: no attempt beyond max_retries + 1, no model beyond the last one.
THEOREM RegionTypeCorrect == Spec => []TypeOK
  <1>1. RegionInv => TypeOK
    <2> SUFFICES ASSUME RegionInv PROVE TypeOK
      OBVIOUS
    <2>1. Types
      BY DEF RegionInv
    <2>2. ASSUME NEW b \in Branch
          PROVE  /\ at[b] \notin {"returned", "gone"} => pos[b] <= Len(Chain[b]) + 1
                 /\ at[b] \in Running =>
                      /\ try[b].attempt \in 1 .. MaxRetries[Cur(b)] + 1
                      /\ try[b].idx \in 0 .. Escalations[Cur(b)]
      BY ChainOf DEF RegionInv, Here, Placed, Counted
    <2> QED BY <2>1, <2>2 DEF Types, TypeOK
  <1> QED BY <1>1, RegionHolds, PTL

\* StatusIsOutcome: status.json holds the outcome that the branch goes by.
THEOREM OutcomeIsWritten == Spec => []StatusIsOutcome
  <1>1. RegionInv => StatusIsOutcome
    BY DEF RegionInv, Here, Placed, StatusIsOutcome
  <1> QED BY <1>1, RegionHolds, PTL

\* EscalationEarned: each further model took more than RBE capability failures,
\* and no stage keeps it.
THEOREM ModelsAreEarned == Spec => []EscalationEarned
  <1>1. RegionInv => EscalationEarned
    <2> SUFFICES ASSUME RegionInv, NEW b \in Branch, pos[b] <= Len(Chain[b])
                 PROVE  IF at[b] \in Running
                        THEN model[Cur(b)] = try[b].idx /\ try[b].idx * (RBE + 1) <= try[b].caps
                        ELSE model[Cur(b)] = 0
      BY DEF EscalationEarned
    <2>1. Types /\ Here(b)
      BY DEF RegionInv
    <2>2. pos[b] \in DOMAIN Chain[b]
      BY <2>1, CurIn
    <2>3. CASE at[b] \in Running
      <3>1. model[Cur(b)] = try[b].idx /\ try[b].idx * (RBE + 1) + try[b].fails <= try[b].caps
        BY <2>1, <2>3 DEF Here, Counted
      <3>2. try[b].idx * (RBE + 1) \in Nat /\ try[b].fails \in Nat /\ try[b].caps \in Nat
        <4>1. try[b].idx \in Nat /\ try[b].fails \in Nat /\ try[b].caps \in Nat /\ RBE \in Nat
          BY <2>1, StageAssumption DEF Types, Try
        <4> QED BY <2>1, <4>1
      <3>3. \A m, n, k \in Nat : m + n <= k => m <= k
        OBVIOUS
      <3> QED BY <2>3, <3>1, <3>2, <3>3, Zenon
    <2>4. CASE at[b] \notin Running
      BY <2>1, <2>2, <2>4 DEF Here, Passed, Cur
    <2> QED BY <2>3, <2>4
  <1> QED BY <1>1, RegionHolds, PTL

\* RetriesCounted: over several visits, the count of a stage's retries goes on from
\* what the region was called with, and the context key follows it at each retry.
THEOREM RetriesAreCounted == Spec => []RetriesCounted
  <1>1. RegionInv => RetriesCounted
    <2> SUFFICES ASSUME RegionInv, NEW b \in Branch, NEW i \in DOMAIN Chain[b]
                 PROVE  LET s == Chain[b][i]
                            here == i = pos[b] /\ at[b] \in Running
                        IN  /\ retries[s] <= before.count[s] + MaxRetries[s]
                            /\ retries[s] \in {0, key[s]}
                            /\ here => retries[s] = before.count[s] + (try[b].attempt - 1)
                            /\ here /\ try[b].attempt = 1 => key[s] = before.key[s]
                            /\ i < pos[b] /\ retries[s] # 0 => status[s] = "partial"
      BY DEF RetriesCounted
    <2>1. Here(b)
      BY DEF RegionInv
    <2> QED BY <2>1 DEF Here, Passed, Recorded, Counted, Cur
  <1> QED BY <1>1, RegionHolds, PTL

\* CancelHasCause: a branch that was canceled has a sibling that failed by itself,
\* or the run was canceled.
THEOREM CancellationsAreCaused == Spec => []CancelHasCause
  <1>1. RegionInv => CancelHasCause
    <2> SUFFICES ASSUME RegionInv, NEW b \in Branch, out[b] = "canceled" \/ err[b] = "context"
                 PROVE  \/ runCtx # "live"
                        \/ ~split.partial /\ \E d \in Branch \ {b} :
                              err[d] = "failed" /\ out[d] # "canceled"
      BY DEF CancelHasCause
    <2>1. runCtx # "live" \/ Blame
      BY DEF RegionInv, Blamed
    <2> QED BY <2>1 DEF Blame
  <1> QED BY <1>1, RegionHolds, PTL

\* JoinedMeansAll: a region that joins without allow_partial ran every stage of
\* every branch, and none failed.
THEOREM JoinIsComplete == Spec => []JoinedMeansAll
  <1>1. RegionInv => JoinedMeansAll
    <2> SUFFICES ASSUME RegionInv, region = "joined", ~split.partial, NEW b \in Branch,
                        NEW i \in DOMAIN Chain[b]
                 PROVE  status[Chain[b][i]] \in {"ok", "partial"}
      BY DEF JoinedMeansAll
    <2>1. at[b] = "gone" /\ err[b] = "none" /\ Here(b)
      BY DEF RegionInv, Joined
    <2>2. pos[b] = Len(Chain[b]) + 1 /\ i <= Len(Chain[b]) /\ i \in Nat /\ Len(Chain[b]) \in Nat
      BY <2>1, ChainOf DEF Here, Placed
    <2> QED BY <2>1, <2>2 DEF Here, Passed
  <1> QED BY <1>1, RegionHolds, PTL

-----------------------------------------------------------------------------
(* How far a branch is from its end: stages, then tries of the stage it is *)
(* at, then places of the try.                                             *)

StagesAhead(b) == Len(Chain[b]) + 1 - pos[b]
TriesAhead(b) ==
    CASE at[b] = "top" /\ pos[b] <= Len(Chain[b]) -> MaxRetries[Cur(b)] + 1
      [] at[b] \in Running -> MaxRetries[Cur(b)] + 1 - try[b].attempt
      [] OTHER -> 0
PlacesAhead(b) ==
    CASE at[b] = "top" -> 6 [] at[b] = "backoff" -> 5 [] at[b] = "handler" -> 4
      [] at[b] = "hung" -> 3 [] at[b] = "made" -> 2 [] at[b] = "returned" -> 1
      [] OTHER -> 0

Distances(b) == StagesAhead(b) \in Nat /\ TriesAhead(b) \in Nat /\ PlacesAhead(b) \in Nat

\* It has fewer stages ahead, or as many and fewer tries, or as many and fewer
\* places.
Nearer(b) ==
    \/ StagesAhead(b)' < StagesAhead(b)
    \/ /\ StagesAhead(b)' = StagesAhead(b)
       /\ TriesAhead(b)' < TriesAhead(b)
    \/ /\ StagesAhead(b)' = StagesAhead(b)
       /\ TriesAhead(b)' = TriesAhead(b)
       /\ PlacesAhead(b)' < PlacesAhead(b)

\* A branch comes nearer with every step of its own, and nothing else moves it.
Nears ==
    \A b \in Branch :
        /\ Step(b) \/ Hang(b) => Nearer(b)
        /\ ~(Step(b) \/ Hang(b)) =>
              /\ StagesAhead(b)' = StagesAhead(b)
              /\ TriesAhead(b)' = TriesAhead(b)
              /\ PlacesAhead(b)' = PlacesAhead(b)

LEMMA DistancesKnown ==
    ASSUME Types, NEW b \in Branch, Here(b)
    PROVE  Distances(b)
  <1>1. Len(Chain[b]) \in Nat /\ pos[b] \in 1 .. Len(Chain[b]) + 1
    BY ChainOf DEF Here, Placed
  <1>2. StagesAhead(b) \in Nat /\ PlacesAhead(b) \in Nat
    BY <1>1 DEF StagesAhead, PlacesAhead
  <1>3. ASSUME pos[b] <= Len(Chain[b]) PROVE MaxRetries[Cur(b)] \in Nat
    BY <1>3, CurIn, StageAssumption
  <1>4. CASE at[b] = "top" /\ pos[b] <= Len(Chain[b])
    <2>1. TriesAhead(b) = MaxRetries[Cur(b)] + 1
      BY <1>4 DEF TriesAhead, Running
    <2> QED BY <1>2, <1>3, <1>4, <2>1 DEF Distances
  <1>5. CASE at[b] \in Running
    <2>1. TriesAhead(b) = MaxRetries[Cur(b)] + 1 - try[b].attempt
      BY <1>5 DEF TriesAhead, Running
    <2>2. pos[b] <= Len(Chain[b]) /\ try[b].attempt \in 1 .. MaxRetries[Cur(b)] + 1
      BY <1>5 DEF Here, Placed, Counted
    <2> QED BY <1>2, <1>3, <2>1, <2>2 DEF Distances
  <1>6. CASE ~(at[b] = "top" /\ pos[b] <= Len(Chain[b])) /\ at[b] \notin Running
    <2>1. TriesAhead(b) = 0
      BY <1>6 DEF TriesAhead
    <2> QED BY <1>2, <2>1 DEF Distances
  <1> QED BY <1>4, <1>5, <1>6

LEMMA MoveNears ==
    ASSUME Types, Types', NEW b \in Branch, Here(b), Here(b)', Distances(b), Distances(b)', Moves(b)
    PROVE  Nearer(b)
  <1> USE DEF Types
  <1>1. CASE Advances(b)
    <2>1. pos'[b] = pos[b] + 1 /\ pos[b] \in Nat /\ Len(Chain[b]) \in Nat
      BY <1>1, ChainOf DEF Advances
    <2> QED BY <2>1 DEF Nearer, StagesAhead
  <1>2. ASSUME pos'[b] = pos[b]
        PROVE  StagesAhead(b)' = StagesAhead(b) /\ Cur(b)' = Cur(b)
    BY <1>2 DEF StagesAhead, Cur
  <1>3. ASSUME pos'[b] = pos[b], TriesAhead(b)' = 0, PlacesAhead(b)' < PlacesAhead(b)
        PROVE  Nearer(b)
    <2>1. TriesAhead(b) \in Nat
      BY DEF Distances
    <2>2. TriesAhead(b)' < TriesAhead(b) \/ TriesAhead(b)' = TriesAhead(b)
      BY <1>3, <2>1
    <2> QED BY <1>2, <1>3, <2>2 DEF Nearer
  <1>4. CASE Begins(b)
    <2>1. /\ pos'[b] = pos[b] /\ at'[b] = "handler"
          /\ \/ at[b] = "top" /\ pos[b] <= Len(Chain[b]) /\ try'[b] = FirstTry
             \/ at[b] = "backoff" /\ try'[b] = try[b]
      BY <1>4 DEF Begins
    <2>2. TriesAhead(b)' = MaxRetries[Cur(b)] + 1 - try'[b].attempt
      BY <1>2, <2>1 DEF TriesAhead, Running
    <2>3. CASE at[b] = "backoff" /\ try'[b] = try[b]
      <3>1. TriesAhead(b) = MaxRetries[Cur(b)] + 1 - try[b].attempt
        BY <2>3 DEF TriesAhead, Running
      <3>2. PlacesAhead(b)' < PlacesAhead(b)
        BY <2>1, <2>3 DEF PlacesAhead
      <3> QED BY <1>2, <2>1, <2>2, <2>3, <3>1, <3>2 DEF Nearer
    <2>4. CASE at[b] = "top" /\ pos[b] <= Len(Chain[b]) /\ try'[b] = FirstTry
      <3>1. TriesAhead(b) = MaxRetries[Cur(b)] + 1 /\ MaxRetries[Cur(b)] \in Nat
        BY <2>4, CurIn, StageAssumption DEF TriesAhead, Running
      <3>2. try'[b].attempt = 1
        BY <2>4 DEF FirstTry
      <3> QED BY <1>2, <2>1, <2>2, <3>1, <3>2 DEF Nearer
    <2> QED BY <2>1, <2>3, <2>4
  <1>5. CASE Hangs(b)
    <2>1. pos'[b] = pos[b] /\ at[b] = "handler" /\ at'[b] = "hung" /\ try'[b] = try[b]
      BY <1>5 DEF Hangs
    <2>2. TriesAhead(b)' = TriesAhead(b)
      BY <1>2, <2>1 DEF TriesAhead, Running
    <2>3. PlacesAhead(b)' < PlacesAhead(b)
      BY <2>1 DEF PlacesAhead
    <2> QED BY <1>2, <2>1, <2>2, <2>3 DEF Nearer
  <1>6. CASE Fails(b)
    <2>1. PICK result \in Result :
             /\ pos'[b] = pos[b] /\ at[b] = "handler" /\ at'[b] = "backoff"
             /\ try'[b] = NextTry(Cur(b), try[b], result)
      BY <1>6 DEF Fails
    <2>2. pos[b] <= Len(Chain[b]) /\ Cur(b) \in Stage
      BY <2>1, CurIn DEF Here, Placed, Running
    <2>3. try'[b].attempt = try[b].attempt + 1 /\ try[b].attempt \in Nat
      BY <2>1, <2>2, NextTryIs DEF Try
    <2>4. /\ TriesAhead(b) = MaxRetries[Cur(b)] + 1 - try[b].attempt
          /\ TriesAhead(b)' = MaxRetries[Cur(b)] + 1 - try'[b].attempt
          /\ MaxRetries[Cur(b)] \in Nat
      BY <1>2, <2>1, <2>2, StageAssumption DEF TriesAhead, Running
    <2> QED BY <1>2, <2>1, <2>3, <2>4 DEF Nearer
  <1>7. CASE Ends(b)
    <2>1. pos'[b] = pos[b] /\ at[b] \in Running /\ at'[b] = "made"
      BY <1>7 DEF Ends
    <2>2. TriesAhead(b)' = 0 /\ PlacesAhead(b)' < PlacesAhead(b)
      BY <2>1 DEF TriesAhead, PlacesAhead, Running
    <2> QED BY <1>3, <2>1, <2>2
  <1>8. CASE Returns(b) \/ Goes(b)
    <2>1. /\ pos'[b] = pos[b]
          /\ \/ at[b] \in {"top", "made"} /\ at'[b] = "returned"
             \/ at[b] = "returned" /\ at'[b] = "gone"
      BY <1>8 DEF Returns, Goes
    <2>2. TriesAhead(b)' = 0 /\ PlacesAhead(b)' < PlacesAhead(b)
      BY <2>1 DEF TriesAhead, PlacesAhead, Running
    <2> QED BY <1>3, <2>1, <2>2
  <1> QED BY <1>1, <1>4, <1>5, <1>6, <1>7, <1>8 DEF Moves

\* With any number of branches, stages, retries and models, and whatever the
\* handlers return, fail or wait for: each step of a branch brings it nearer to
\* its end, by a stage, a try or a place, and no other step moves it back.
THEOREM BranchesComeToAnEnd ==
    Spec => [](\A b \in Branch : Distances(b)) /\ [][Nears]_vars
  <1>1. RegionInv => \A b \in Branch : Distances(b)
    BY DistancesKnown DEF RegionInv
  <1>2. ASSUME RegionInv, RegionInv', \A b \in Branch : Distances(b),
               (\A b \in Branch : Distances(b))', [Next]_vars
        PROVE  [Nears]_vars
    <2>t. Types /\ Types' /\ \A b \in Branch : Here(b) /\ Here(b)'
      BY <1>2 DEF RegionInv
    <2>1. ASSUME NEW b \in Branch, Step(b) \/ Hang(b) PROVE Nearer(b)
      <3>1. Moves(b)
        BY <2>1, <2>t, BranchMoves
      <3> QED BY <1>2, <2>t, <3>1, MoveNears
    <2>2. ASSUME NEW b \in Branch, at'[b] = at[b], pos'[b] = pos[b], try'[b] = try[b]
          PROVE  /\ StagesAhead(b)' = StagesAhead(b)
                 /\ TriesAhead(b)' = TriesAhead(b)
                 /\ PlacesAhead(b)' = PlacesAhead(b)
      BY <2>2 DEF StagesAhead, TriesAhead, PlacesAhead, Cur
    <2>3. ASSUME NEW b \in Branch, ~(Step(b) \/ Hang(b)), ~UNCHANGED vars
          PROVE  at'[b] = at[b] /\ pos'[b] = pos[b] /\ try'[b] = try[b]
      <3>1. CASE \E d \in Branch : Step(d) \/ Hang(d)
        <4>1. PICK d \in Branch : Step(d) \/ Hang(d)
          BY <3>1
        <4>2. Moves(d) /\ d # b
          BY <2>3, <2>t, <4>1, BranchMoves
        <4> QED BY <2>t, <4>2, MovesApart
      <3>2. CASE Join \/ LoopTop \/ Cancel \/ Watch
        BY <3>2 DEF Join, LoopTop, Cancel, Watch
      <3> QED BY <1>2, <2>3, <3>1, <3>2 DEF Next
    <2> QED BY <2>1, <2>2, <2>3 DEF Nears
  <1> QED BY <1>1, <1>2, RegionHolds, PTL DEF Spec
=============================================================================
