-------------------------- MODULE DeployStepsProofs --------------------------
(***************************************************************************)
(* Theorems about the rows of a deployment's steps and about the capacity  *)
(* of a worker, for any number of workers and request threads: the steps   *)
(* are carried out in order, a success is one of every step, and a worker  *)
(* never has more under way than MAX_CONCURRENCY.                          *)
(***************************************************************************)
EXTENDS DeployQueueProofs, WellFoundedInduction

-----------------------------------------------------------------------------
(* The rows.  Most steps only take a coroutine to a point where less is said *)
(* of its rows, or close rows that nobody is at (QuietRows); the others are  *)
(* proved one by one.                                                        *)

\* A row of a step is left alone, taken out of the queue, or recovered.
RowMove(old, new) ==
  \/ new = old
  \/ old = "pending" /\ new = "cancelled"
  \/ old = "running" /\ new = "failed"

\* Out of the loop, with nothing promised of the outcome.
Beyond == {"cancelling", "failing", "aborting", "ended", "raised"}

\* Where run() goes without the rows.
Pass == {<<"none", "ready">>, <<"check", "marking">>, <<"exec", "recording">>,
         <<"wrapup", "finish">>}

QuietRun(d) ==
  \/ pc'[d] = pc[d] /\ UNCHANGED <<pos[d], verdict[d]>>
  \/ pc'[d] \in Beyond
  \/ /\ <<pc[d], pc'[d]>> \in Pass
     /\ pos'[d] = pos[d]
     /\ verdict'[d] \in {verdict[d], "cancelled"}
  \/ pc'[d] = "wrapup" /\ verdict'[d] = "cancelled"

QuietRows(d) ==
  /\ linked'[d] => linked[d]
  /\ DOMAIN steps'[d] = DOMAIN steps[d]
  /\ \A i \in DOMAIN steps[d] : RowMove(steps[d][i], steps'[d][i])

QuietStatus(d) ==
  status'[d] = "success" => status[d] = "success" /\ exitCode'[d] = exitCode[d]

\* The conjuncts of RowsInv for one deployment.
RunAccount(d) ==
  /\ pc[d] \in {"none", "ready"} => pos[d] = 1
  /\ status[d] = "success" => exitCode[d] = 0
  /\ linked[d] => RowsOrdered(d) /\ RowsAround(d) /\ RowsWon(d)

\* Quiet steps keep the account of a run.
LEMMA QuietKeeps ==
  ASSUME NEW d \in Deployments, RunAccount(d),
         QuietRun(d), QuietRows(d), QuietStatus(d)
  PROVE  RunAccount(d)'
<1>1. pc'[d] \in {"none", "ready"} => pos'[d] = 1
  <2>1. ASSUME pc'[d] \in {"none", "ready"} 
        PROVE  pos'[d] = pos[d] /\ pc[d] \in {"none", "ready"}
    BY <2>1 DEF QuietRun, Beyond, Pass
  <2> QED BY <2>1 DEF RunAccount
<1>2. status'[d] = "success" => exitCode'[d] = 0
  BY DEF QuietStatus, RunAccount
<1>3. ASSUME linked'[d] PROVE RowsOrdered(d)' /\ RowsAround(d)' /\ RowsWon(d)'
  <2>0. linked[d] /\ RowsOrdered(d) /\ RowsAround(d) /\ RowsWon(d)
    BY <1>3 DEF QuietRows, RunAccount
  <2>1. \A i \in DOMAIN steps[d] :
          /\ steps[d][i] \in Carried => steps'[d][i] = steps[d][i]
          /\ steps[d][i] \in Untouched => steps'[d][i] \in Untouched
          /\ steps'[d][i] \notin Untouched => steps[d][i] \notin Untouched
          /\ steps[d][i] = "success" => steps'[d][i] = "success"
    BY DEF QuietRows, RowMove, Carried, Untouched
  <2>2. RowsOrdered(d)'
    BY <2>0, <2>1 DEF RowsOrdered, QuietRows
  <2>3. RowsAround(d)'
    <3> SUFFICES ASSUME pc'[d] \in InLoop, NEW i \in DOMAIN steps[d]
                 PROVE  /\ i < pos'[d] => steps'[d][i] \in Carried
                        /\ i > pos'[d] \/ (i = pos'[d] /\ pc'[d] \in Before)
                             => steps'[d][i] \in Untouched
      BY DEF RowsAround, QuietRows
    <3>1. pos'[d] = pos[d] /\ pc[d] \in InLoop /\ (pc'[d] \in Before => pc[d] \in Before)
      BY DEF QuietRun, Beyond, Pass, InLoop, Before
    <3> QED BY <2>0, <2>1, <3>1 DEF RowsAround
  <2>4. RowsWon(d)'
    <3>1. ASSUME verdict'[d] = "success", pc'[d] \in InLoop, NEW i \in DOMAIN steps[d],
                 i < pos'[d]
          PROVE  steps'[d][i] = "success"
      <4>1. pos'[d] = pos[d] /\ pc[d] \in InLoop /\ verdict[d] = "success"
        BY <3>1 DEF QuietRun, Beyond, Pass, InLoop, Before
      <4> QED BY <2>0, <2>1, <3>1, <4>1 DEF RowsWon
    <3>2. ASSUME (verdict'[d] = "success" /\ pc'[d] \in {"wrapup", "finish"})
                 \/ status'[d] = "success",
                 NEW i \in DOMAIN steps[d]
          PROVE  steps'[d][i] = "success"
      <4>1. \/ verdict[d] = "success" /\ pc[d] \in {"wrapup", "finish"}
            \/ status[d] = "success"
        BY <3>2 DEF QuietRun, QuietStatus, Beyond, Pass
      <4> QED BY <2>0, <2>1, <4>1 DEF RowsWon
    <3> QED BY <3>1, <3>2 DEF RowsWon, QuietRows
  <2> QED BY <2>2, <2>3, <2>4
<1> QED BY <1>1, <1>2, <1>3 DEF RunAccount

\* A step is quiet for d when it neither inserts its rows nor takes run(d) round
\* the loop nor ends it with an outcome.
Quiet(d) == QuietRun(d) /\ QuietRows(d) /\ QuietStatus(d)

\* The run of d is left alone.
SameRun(d) == UNCHANGED <<pc[d], pos[d], verdict[d]>>

\* Move leaves a row alone or does to it what RowMove allows.
LEMMA MoveRows ==
  ASSUME NEW rows, NEW from, NEW to, NEW i \in DOMAIN rows,
         <<from, to>> \in {<<"pending", "cancelled">>, <<"running", "failed">>}
  PROVE  /\ DOMAIN Move(rows, from, to) = DOMAIN rows
         /\ RowMove(rows[i], Move(rows, from, to)[i])
BY DEF Move, RowMove

\* The API: a new row, or a quiet step.
LEMMA ApiRows ==
  ASSUME TypeOK, RowsBehind, ApiNext, UNCHANGED workerVars
  PROVE  \/ \A d \in Deployments : Quiet(d)
         \/ \E d \in Deployments, p \in Projects \cup {NoProject}, n \in Nat :
              NextId(d) /\ InsertDeployment(d, p, n)
<1> USE DEF TypeOK, DBTypeOK, ApiTypeOK, WorkerTypeOK, tables
<1>0. \A d \in Deployments : SameRun(d) /\ QuietRun(d)
  BY DEF SameRun, QuietRun, workerVars, process
<1>1. ASSUME NEW p \in Projects, Deploy(p)
      PROVE  \E d \in Deployments, q \in Projects \cup {NoProject}, n \in Nat :
               NextId(d) /\ InsertDeployment(d, q, n)
  BY <1>1, StepCountsAssumption DEF Deploy
<1>2. ASSUME NEW d \in Deployments, Retry(d)
      PROVE  \E e \in Deployments, q \in Projects \cup {NoProject}, n \in Nat :
               NextId(e) /\ InsertDeployment(e, q, n)
  <2>1. Len(steps[d]) \in Nat
    OBVIOUS
  <2> QED BY <1>2, <2>1 DEF Retry
<1>3. ASSUME \/ \E c \in Clients, d \in Deployments : CancelRead(c, d)
             \/ \E p \in Projects : EditProject(p)
             \/ ApiRestart
      PROVE  \A d \in Deployments : Quiet(d)
  <2>1. UNCHANGED <<status, exitCode, steps>> /\ \A d \in Deployments : linked'[d] => linked[d]
    BY <1>3 DEF CancelRead, EditProject, ReplaceProjectChildren, ApiRestart
  <2> QED BY <1>0, <2>1 DEF Quiet, QuietRows, QuietStatus, RowMove
<1>4. ASSUME NEW c \in Clients, CancelCommit(c)
      PROVE  \A d \in Deployments : Quiet(d)
  <2> DEFINE x == req[c].dep
  <2>1. x \in Deployments
    BY <1>4 DEF CancelCommit, Request, RowsBehind
  <2>2. /\ linked' = linked
        /\ steps' = [steps EXCEPT ![x] = Move(@, "pending", "cancelled")] \/ steps' = steps
        /\ \/ UNCHANGED <<status, exitCode>>
           \/ /\ status' = [status EXCEPT ![x] = "cancelled"]
              /\ exitCode' = [exitCode EXCEPT ![x] = 130]
    BY <1>4 DEF CancelCommit
  <2> HIDE DEF x
  <2>3. ASSUME NEW d \in Deployments PROVE QuietRows(d)
    <3>1. steps'[d] = steps[d] \/ steps'[d] = Move(steps[d], "pending", "cancelled")
      BY <2>1, <2>2
    <3>2. CASE steps'[d] = steps[d]
      BY <2>2, <3>2 DEF QuietRows, RowMove
    <3>3. CASE steps'[d] = Move(steps[d], "pending", "cancelled")
      <4>1. DOMAIN steps'[d] = DOMAIN steps[d]
        BY <3>3 DEF Move
      <4> QED BY <2>2, <3>3, <4>1, MoveRows DEF QuietRows
    <3> QED BY <3>1, <3>2, <3>3
  <2>4. \A d \in Deployments : QuietStatus(d)
    BY <2>1, <2>2 DEF QuietStatus
  <2> QED BY <1>0, <2>3, <2>4 DEF Quiet
<1> QED BY <1>1, <1>2, <1>3, <1>4 DEF ApiNext

\* The rows of a new deployment.
LEMMA InsertAccount ==
  ASSUME TypeOK, RowsBehind, RowsInv, UNCHANGED workerVars,
         NEW d \in Deployments, NEW p, NEW n \in Nat,
         NextId(d), InsertDeployment(d, p, n), NEW e \in Deployments
  PROVE  RunAccount(e)'
<1> USE DEF TypeOK, DBTypeOK, WorkerTypeOK
<1>0. RunAccount(e) /\ RunAccount(d)
  BY DEF RowsInv, RunAccount
<1>1. CASE e # d
  <2>1. UNCHANGED <<status[e], exitCode[e], steps[e], linked[e], pc[e], pos[e], verdict[e]>>
    BY <1>1 DEF InsertDeployment, workerVars, process
  <2>2. Quiet(e)
    BY <2>1 DEF Quiet, QuietRun, QuietRows, QuietStatus, RowMove
  <2> QED BY <1>0, <2>2, QuietKeeps DEF Quiet
<1>2. CASE e = d
  <2>1. /\ pc'[d] = "none" /\ pos'[d] = 1 /\ status'[d] = "pending"
        /\ steps'[d] = [i \in 1..n |-> "pending"]
    BY <1>0 DEF NextId, Exists, RowsBehind, InsertDeployment, workerVars, process, RunAccount
  <2>2. RowsOrdered(d)'
    BY <2>1 DEF RowsOrdered, Untouched
  <2>3. RowsAround(d)'
    BY <2>1 DEF RowsAround, Untouched
  <2>4. RowsWon(d)'
    BY <2>1 DEF RowsWon
  <2> QED BY <1>2, <2>1, <2>2, <2>3, <2>4 DEF RunAccount
<1> QED BY <1>1, <1>2

\* The process and its claims: a running row that is recovered leaves no step
\* running, and a coroutine is only begun or cut short.
LEMMA ProcessRows ==
  ASSUME TypeOK, ClaimInv, NEW w \in Workers,
         \/ Start(w) \/ Restart(w) \/ Stop(w) \/ ProcessStep(w)
         \/ Crash(w) \/ RecoverFails(w) \/ ClaimFails(w),
         NEW d \in Deployments
  PROVE  Quiet(d)
<1> USE DEF TypeOK, DBTypeOK, WorkerTypeOK
<1>t. ASSUME UNCHANGED <<status, exitCode, steps, linked>>
      PROVE  QuietRows(d) /\ QuietStatus(d)
  BY <1>t DEF QuietRows, QuietStatus, RowMove
<1>c. ASSUME UNCHANGED coroutines PROVE QuietRun(d)
  BY <1>c DEF coroutines, QuietRun
<1>u. ASSUME NEW D, NEW x \in Beyond, Unwind(D, x) PROVE QuietRun(d)
  BY <1>u DEF Unwind, QuietRun
<1>1. CASE Recover(w)
  <2>1. RecoverStale(found[w]) /\ UNCHANGED coroutines
    BY <1>1 DEF Recover, Recovered
  <2>2. QuietStatus(d)
    BY <2>1 DEF RecoverStale, QuietStatus
  <2>3. QuietRows(d)
    <3>1. CASE steps'[d] = steps[d]
      BY <2>1, <3>1 DEF RecoverStale, QuietRows, RowMove
    <3>2. CASE steps'[d] = Move(steps[d], "running", "failed")
      <4>1. DOMAIN steps'[d] = DOMAIN steps[d]
        BY <3>2 DEF Move
      <4> QED BY <2>1, <3>2, <4>1, MoveRows DEF QuietRows, RecoverStale
    <3> QED BY <2>1, <3>1, <3>2 DEF RecoverStale
  <2> QED BY <2>1, <2>2, <2>3, <1>c DEF Quiet
<1>2. CASE \/ Start(w) \/ Restart(w) \/ Stop(w) \/ RecoverFails(w)
           \/ Exit(w) \/ ClaimRead(w)
  <2>1. UNCHANGED <<tables, coroutines>>
    BY <1>2 DEF Start, Restart, Boot, Stop, RecoverFails, Recovered, Exit, ClaimRead
  <2> QED BY <2>1, <1>t, <1>c DEF tables, Quiet
<1>3. CASE DrainTimeout(w) \/ ClaimFails(w)
  BY <1>3, <1>t, <1>u DEF DrainTimeout, ClaimFails, CancelTasks, tables, Quiet, Beyond
<1>4. CASE Crash(w)
  BY <1>4, <1>t, <1>u DEF Crash, EndRuns, tables, Quiet, Beyond
<1>5. CASE ClaimCommit(w)
  <2>1. PICK won \in SUBSET claim[w] : ClaimShape(w, won)
    BY <1>5, ClaimWon
  <2>2. UNCHANGED <<exitCode, steps, linked, pos, verdict>>
    BY <1>5 DEF ClaimCommit, ClaimRows
  <2>3. QuietRun(d)
    BY <2>1, <2>2 DEF ClaimShape, QuietRun, Pass
  <2>4. QuietStatus(d)
    BY <2>1, <2>2 DEF ClaimShape, QuietStatus
  <2> QED BY <2>2, <2>3, <2>4 DEF Quiet, QuietRows, RowMove
<1> QED BY <1>1, <1>2, <1>3, <1>4, <1>5 DEF ProcessStep

-----------------------------------------------------------------------------
(* The steps of run(d).                                                      *)

RunAction(d) == RunStep(d) \/ EnvFails(d) \/ RunFails(d) \/ TaskRaises(d)

\* run(d) writes no rows but its own.
LEMMA RunLeavesOthers ==
  ASSUME TypeOK, NEW d \in Deployments, RunAction(d), NEW e \in Deployments, e # d
  PROVE  Quiet(e)
<1> USE DEF TypeOK, DBTypeOK, WorkerTypeOK, tables
<1>0. UNCHANGED linked
  BY DEF RunAction, RunStep, RunStart, CheckCancel, CancelRest, MarkRunning, StepReturns,
         RecordStep, RecordRaises, WrapUp, Finish, FailDeployment, Abort, EnvFails,
         RunFails, TaskRaises, CancelPendingSteps, MarkStep, FinishDeployment
<1>1. UNCHANGED <<status[e], exitCode[e]>>
  BY DEF RunAction, RunStep, RunStart, CheckCancel, CancelRest, MarkRunning, StepReturns,
         RecordStep, RecordRaises, WrapUp, Finish, FailDeployment, Abort, EnvFails,
         RunFails, TaskRaises, CancelPendingSteps, MarkStep, FinishDeployment
<1>2. UNCHANGED steps[e]
  BY DEF RunAction, RunStep, RunStart, CheckCancel, CancelRest, MarkRunning, StepReturns,
         RecordStep, RecordRaises, WrapUp, Finish, FailDeployment, Abort, EnvFails,
         RunFails, TaskRaises, CancelPendingSteps, MarkStep, FinishDeployment
<1>3. SameRun(e)
  <2>1. ASSUME NEW x, Unwind({d}, x) PROVE SameRun(e)
    BY <2>1 DEF Unwind, SameRun
  <2>2. ASSUME NEW x, EndRuns({d}, x) PROVE SameRun(e)
    BY <2>1, <2>2 DEF EndRuns
  <2>3. CASE RunStart(d) \/ EnvFails(d) \/ TaskRaises(d)
    BY <2>2, <2>3 DEF RunStart, EnvFails, TaskRaises, Goto, SameRun
  <2>4. CASE CheckCancel(d) \/ CancelRest(d) \/ MarkRunning(d) \/ StepReturns(d) \/ WrapUp(d)
    BY <2>4 DEF CheckCancel, CancelRest, MarkRunning, StepReturns, WrapUp, Goto, SameRun
  <2>5. CASE RecordStep(d)
    BY <2>5 DEF RecordStep, Goto, SameRun
  <2>6. CASE RecordRaises(d) \/ RunFails(d)
    BY <2>1, <2>6 DEF RecordRaises, RunFails
  <2>7. CASE Finish(d) \/ FailDeployment(d) \/ Abort(d)
    BY <2>2, <2>7 DEF Finish, FailDeployment, Abort
  <2> QED BY <2>3, <2>4, <2>5, <2>6, <2>7 DEF RunAction, RunStep
<1> QED BY <1>0, <1>1, <1>2, <1>3 DEF SameRun, Quiet, QuietRun, QuietRows, QuietStatus, RowMove

\* Those of its steps that are quiet for its own rows too.
LEMMA RunQuiet ==
  ASSUME TypeOK, NEW d \in Deployments,
         \/ CheckCancel(d) \/ CancelRest(d) \/ StepReturns(d) \/ WrapUp(d)
         \/ RecordRaises(d) \/ RunFails(d) \/ FailDeployment(d) \/ Abort(d)
         \/ EnvFails(d) \/ TaskRaises(d) \/ (RunStart(d) /\ status[d] # "running")
  PROVE  Quiet(d)
<1> USE DEF TypeOK, DBTypeOK, WorkerTypeOK
<1>t. ASSUME UNCHANGED <<status, exitCode, steps, linked>>
      PROVE  QuietRows(d) /\ QuietStatus(d)
  BY <1>t DEF QuietRows, QuietStatus, RowMove
<1>u. ASSUME NEW x \in Beyond, Unwind({d}, x) PROVE QuietRun(d)
  BY <1>u DEF Unwind, QuietRun
<1>1. CASE CheckCancel(d) \/ StepReturns(d) \/ WrapUp(d)
  BY <1>1, <1>t DEF CheckCancel, StepReturns, WrapUp, Goto, tables, Quiet, QuietRun, Pass,
                    Beyond
<1>2. CASE CancelRest(d)
  <2>1. steps'[d] = Move(steps[d], "pending", "cancelled") /\ UNCHANGED <<status, linked>>
    BY <1>2 DEF CancelRest, CancelPendingSteps
  <2>2. DOMAIN steps'[d] = DOMAIN steps[d]
    BY <2>1 DEF Move
  <2>3. QuietRows(d)
    BY <2>1, <2>2, MoveRows DEF QuietRows
  <2>4. QuietStatus(d)
    BY <1>2 DEF CancelRest, CancelPendingSteps, QuietStatus
  <2>5. QuietRun(d)
    BY <1>2 DEF CancelRest, Goto, QuietRun
  <2> QED BY <2>3, <2>4, <2>5 DEF Quiet
<1>3. CASE RecordRaises(d) \/ RunFails(d)
  BY <1>3, <1>t, <1>u DEF RecordRaises, RunFails, tables, Quiet, Beyond
<1>4. CASE FailDeployment(d) \/ Abort(d)
  <2>1. QuietRun(d)
    BY <1>4, <1>u DEF FailDeployment, Abort, EndRuns, Beyond
  <2>2. status'[d] = "failed" /\ UNCHANGED <<steps, linked>>
    BY <1>4 DEF FailDeployment, Abort, FinishDeployment
  <2> QED BY <2>1, <2>2 DEF Quiet, QuietRows, QuietStatus, RowMove
<1>5. CASE EnvFails(d) \/ TaskRaises(d) \/ (RunStart(d) /\ status[d] # "running")
  BY <1>5, <1>t, <1>u DEF EnvFails, TaskRaises, RunStart, EndRuns, tables, Quiet, Beyond
<1> QED BY <1>1, <1>2, <1>3, <1>4, <1>5

\* The first statement of run(): the loop is entered, or there is no step at all.
LEMMA RunStartAccount ==
  ASSUME TypeOK, NEW d \in Deployments, RunAccount(d), RunStart(d), status[d] = "running"
  PROVE  RunAccount(d)'
<1> USE DEF TypeOK, DBTypeOK, WorkerTypeOK
<1>1. /\ pc[d] = "ready" /\ pos[d] = 1
      /\ pc'[d] = LoopHead(d, 1)
      /\ UNCHANGED <<pos, verdict, status, exitCode, steps, linked>>
  BY DEF RunStart, Goto, tables, RunAccount
<1>2. pc'[d] \in {"check", "wrapup"} /\ (pc'[d] = "wrapup" => Len(steps[d]) < 1)
  BY <1>1 DEF LoopHead
<1>3. DOMAIN steps[d] = 1..Len(steps[d]) /\ Len(steps[d]) \in Nat
  OBVIOUS
<1>4. ASSUME linked[d] PROVE RowsOrdered(d)' /\ RowsAround(d)' /\ RowsWon(d)'
  <2>1. RowsOrdered(d) /\ RowsAround(d) /\ RowsWon(d)
    BY <1>4 DEF RunAccount
  <2>2. RowsOrdered(d)' /\ RowsAround(d)'
    BY <1>1, <1>2, <2>1 DEF RowsOrdered, RowsAround, InLoop, Before
  <2>3. RowsWon(d)'
    BY <1>1, <1>2, <1>3 DEF RowsWon
  <2> QED BY <2>2, <2>3
<1> QED BY <1>1, <1>2, <1>4 DEF RunAccount

\* Writing the row at k, when the rows before it have been carried out and those
\* after it have not been begun.
LEMMA WriteRow ==
  ASSUME NEW rows \in Seq(StepStatus), NEW k \in Nat, NEW s,
         \A i \in DOMAIN rows : i < k => rows[i] \in Carried,
         \A i \in DOMAIN rows : i > k => rows[i] \in Untouched
  PROVE  /\ DOMAIN [rows EXCEPT ![k] = s] = DOMAIN rows
         /\ DOMAIN rows = 1..Len(rows)
         /\ \A i \in DOMAIN rows :
              [rows EXCEPT ![k] = s][i] = IF i = k THEN s ELSE rows[i]
         /\ \A i, j \in DOMAIN rows :
              i < j /\ [rows EXCEPT ![k] = s][j] \notin Untouched =>
                i < k /\ [rows EXCEPT ![k] = s][i] \in Carried
<1> DEFINE new == [rows EXCEPT ![k] = s]
<1>1. DOMAIN rows = 1..Len(rows) /\ Len(rows) \in Nat
  OBVIOUS
<1>2. /\ DOMAIN new = DOMAIN rows
      /\ \A i \in DOMAIN rows : new[i] = IF i = k THEN s ELSE rows[i]
  BY <1>1
<1> HIDE DEF new
<1>3. ASSUME NEW i \in DOMAIN rows, NEW j \in DOMAIN rows, i < j, new[j] \notin Untouched
      PROVE  i < k /\ new[i] \in Carried
  <2>1. i \in Nat /\ j \in Nat
    BY <1>1
  <2>2. ~ (j > k)
    <3> SUFFICES ASSUME j > k PROVE FALSE
      OBVIOUS
    <3>1. new[j] = rows[j]
      BY <1>2, <2>1
    <3> QED BY <1>3, <3>1
  <2>3. i < k
    BY <1>3, <2>1, <2>2
  <2>4. new[i] = rows[i]
    BY <1>2, <2>1, <2>3
  <2> QED BY <2>3, <2>4
<1> QED BY <1>1, <1>2, <1>3 DEF new

\* mark_step_running: the row at pos leaves the queue, those before it have been
\* carried out.
LEMMA MarkAccount ==
  ASSUME TypeOK, NEW d \in Deployments, RunAccount(d), MarkRunning(d), status[d] # "success"
  PROVE  RunAccount(d)'
<1> USE DEF TypeOK, DBTypeOK, WorkerTypeOK
<1>1. /\ pc[d] = "marking" /\ pc'[d] = "exec"
      /\ UNCHANGED <<pos, verdict, status, exitCode, linked>>
      /\ steps' = IF linked[d] THEN [steps EXCEPT ![d][pos[d]] = "running"] ELSE steps
  BY DEF MarkRunning, MarkStep, Goto
<1>2. ASSUME linked[d] PROVE RowsOrdered(d)' /\ RowsAround(d)' /\ RowsWon(d)'
  <2>0. RowsOrdered(d) /\ RowsAround(d) /\ RowsWon(d)
    BY <1>2 DEF RunAccount
  <2>1. steps'[d] = [steps[d] EXCEPT ![pos[d]] = "running"]
    BY <1>1, <1>2
  <2>2. \A i \in DOMAIN steps[d] :
          /\ i < pos[d] => steps[d][i] \in Carried
          /\ i > pos[d] => steps[d][i] \in Untouched
    BY <1>1, <2>0 DEF RowsAround, InLoop, Before
  <2>3. /\ DOMAIN steps'[d] = DOMAIN steps[d]
        /\ \A i \in DOMAIN steps[d] :
             steps'[d][i] = IF i = pos[d] THEN "running" ELSE steps[d][i]
        /\ \A i, j \in DOMAIN steps[d] :
             i < j /\ steps'[d][j] \notin Untouched => steps'[d][i] \in Carried
        /\ DOMAIN steps[d] \subseteq Nat
    BY <2>1, <2>2, WriteRow
  <2>4. RowsOrdered(d)'
    BY <2>3 DEF RowsOrdered
  <2>5. RowsAround(d)'
    BY <1>1, <2>2, <2>3 DEF RowsAround, Before
  <2>6. RowsWon(d)'
    BY <1>1, <2>0, <2>3 DEF RowsWon, InLoop, Before
  <2> QED BY <2>4, <2>5, <2>6
<1> QED BY <1>1, <1>2 DEF RunAccount

\* mark_step_finished and the end of the loop's body.
LEMMA RecordAccount ==
  ASSUME TypeOK, NEW d \in Deployments, RunAccount(d), RecordStep(d), status[d] # "success"
  PROVE  RunAccount(d)'
<1> USE DEF TypeOK, DBTypeOK, WorkerTypeOK
<1>1. /\ pc[d] = "recording"
      /\ UNCHANGED <<status, exitCode, linked>>
      /\ steps' = IF linked[d] THEN [steps EXCEPT ![d][pos[d]] = RowStatus(result[d])]
                               ELSE steps
  BY DEF RecordStep, MarkStep
<1>2. \/ /\ result[d] \in {"ok", "fail"} /\ pos'[d] = pos[d] + 1
         /\ pc'[d] = LoopHead(d, pos'[d])
         /\ verdict'[d] = IF result[d] = "ok" THEN verdict[d] ELSE "failed"
      \/ pos'[d] = pos[d] /\ pc'[d] = "wrapup" /\ verdict'[d] \in {"failed", "cancelled"}
  BY DEF RecordStep, Goto
<1>3. pc'[d] \in {"check", "wrapup"}
  BY <1>2 DEF LoopHead
<1>4. ASSUME linked[d] PROVE RowsOrdered(d)' /\ RowsAround(d)' /\ RowsWon(d)'
  <2>0. RowsOrdered(d) /\ RowsAround(d) /\ RowsWon(d)
    BY <1>4 DEF RunAccount
  <2>1. steps'[d] = [steps[d] EXCEPT ![pos[d]] = RowStatus(result[d])]
    BY <1>1, <1>4
  <2>2. \A i \in DOMAIN steps[d] :
          /\ i < pos[d] => steps[d][i] \in Carried
          /\ i > pos[d] => steps[d][i] \in Untouched
    BY <1>1, <2>0 DEF RowsAround, InLoop, Before
  <2>3. /\ DOMAIN steps'[d] = DOMAIN steps[d]
        /\ \A i \in DOMAIN steps[d] :
             steps'[d][i] = IF i = pos[d] THEN RowStatus(result[d]) ELSE steps[d][i]
        /\ \A i, j \in DOMAIN steps[d] :
             i < j /\ steps'[d][j] \notin Untouched => steps'[d][i] \in Carried
        /\ DOMAIN steps[d] = 1..Len(steps[d]) /\ Len(steps[d]) \in Nat /\ pos[d] \in Nat
    BY <2>1, <2>2, WriteRow
  <2>4. RowsOrdered(d)'
    BY <2>3 DEF RowsOrdered
  <2>5. RowsAround(d)'
    <3>1. ASSUME pc'[d] = "check", NEW i \in DOMAIN steps[d]
          PROVE  /\ i < pos'[d] => steps'[d][i] \in Carried
                 /\ ~ (i < pos'[d]) => steps'[d][i] \in Untouched
      <4>1. i \in Nat /\ result[d] \in {"ok", "fail"} /\ pos'[d] = pos[d] + 1
        BY <1>2, <2>3, <3>1
      <4>2. RowStatus(result[d]) \in Carried
        BY <4>1 DEF RowStatus, Carried
      <4>3. /\ i < pos'[d] => i < pos[d] \/ i = pos[d]
            /\ ~ (i < pos'[d]) => i > pos[d] /\ i # pos[d]
        BY <2>3, <4>1
      <4>4. CASE i = pos[d]
        BY <2>3, <4>2, <4>3, <4>4
      <4>5. CASE i # pos[d]
        <5>1. steps'[d][i] = steps[d][i]
          BY <2>3, <4>5
        <5> QED BY <2>2, <4>3, <4>5, <5>1
      <4> QED BY <4>4, <4>5
    <3>2. \A i \in DOMAIN steps[d] : i > pos'[d] \/ i = pos'[d] => ~ (i < pos'[d])
      BY <1>2, <2>3
    <3>3. pc'[d] \in InLoop => pc'[d] = "check"
      BY <1>3 DEF InLoop, Before
    <3> QED BY <2>3, <3>1, <3>2, <3>3 DEF RowsAround
  <2>6. ASSUME verdict'[d] = "success", NEW i \in DOMAIN steps[d], i < pos'[d]
        PROVE  steps'[d][i] = "success"
    <3>1. result[d] = "ok" /\ pos'[d] = pos[d] + 1 /\ verdict[d] = "success"
      BY <1>2, <2>6
    <3>2. RowStatus(result[d]) = "success"
      BY <3>1 DEF RowStatus
    <3>3. \A k \in DOMAIN steps[d] : k < pos[d] => steps[d][k] = "success"
      BY <1>1, <2>0, <3>1 DEF RowsWon, InLoop, Before
    <3>4. i \in Nat /\ i <= pos[d]
      BY <2>3, <2>6, <3>1
    <3>5. CASE i = pos[d]
      BY <2>3, <3>2, <3>5
    <3>6. CASE i < pos[d]
      <4>1. i # pos[d]
        BY <2>3, <3>4, <3>6
      <4>2. steps'[d][i] = steps[d][i]
        BY <2>3, <4>1
      <4> QED BY <3>3, <3>6, <4>2
    <3> QED BY <2>3, <3>4, <3>5, <3>6
  <2>7. ASSUME verdict'[d] = "success", pc'[d] = "wrapup", NEW i \in DOMAIN steps[d]
        PROVE  i < pos'[d]
    <3>1. pos'[d] > Len(steps[d])
      BY <1>2, <2>7 DEF LoopHead
    <3>2. pos'[d] \in Nat /\ i <= Len(steps[d]) /\ i \in Nat
      BY <1>2, <2>3
    <3> QED BY <2>3, <3>1, <3>2
  <2>8. RowsWon(d)'
    BY <1>1, <1>3, <2>3, <2>6, <2>7 DEF RowsWon
  <2> QED BY <2>4, <2>5, <2>8
<1> QED BY <1>1, <1>3, <1>4 DEF RunAccount

\* broker.finish: a success was one of every step.
LEMMA FinishAccount ==
  ASSUME TypeOK, NEW d \in Deployments, RunAccount(d), Finish(d)
  PROVE  RunAccount(d)'
<1> USE DEF TypeOK, DBTypeOK, WorkerTypeOK
<1>1. /\ pc[d] = "finish" /\ pc'[d] = "ended"
      /\ status'[d] = verdict[d] /\ exitCode'[d] = ExitCodeOf(verdict[d])
      /\ UNCHANGED <<steps, linked>>
  BY DEF Finish, FinishDeployment, EndRuns, Unwind
<1>2. verdict[d] = "success" => exitCode'[d] = 0
  BY <1>1 DEF ExitCodeOf
<1>3. ASSUME linked[d] PROVE RowsOrdered(d)' /\ RowsAround(d)' /\ RowsWon(d)'
  <2>1. RowsOrdered(d) /\ RowsAround(d) /\ RowsWon(d)
    BY <1>3 DEF RunAccount
  <2>2. RowsOrdered(d)' /\ RowsAround(d)'
    BY <1>1, <2>1 DEF RowsOrdered, RowsAround, InLoop, Before
  <2>3. RowsWon(d)'
    BY <1>1, <2>1 DEF RowsWon, InLoop, Before
  <2> QED BY <2>2, <2>3
<1> QED BY <1>1, <1>2, <1>3 DEF RunAccount

\* A step of a run keeps the account of every run.
LEMMA RunAccountStep ==
  ASSUME TypeOK, ClaimInv, WarnedInv, RowsInv, NEW d \in Deployments, RunAction(d),
         NEW e \in Deployments
  PROVE  RunAccount(e)'
<1>0. RunAccount(e) /\ RunAccount(d)
  BY DEF RowsInv, RunAccount
<1>1. CASE e # d
  BY <1>0, <1>1, RunLeavesOthers, QuietKeeps DEF Quiet
<1>2. CASE e = d
  <2>1. status[d] # "success"
    <3>1. RunShape(d)
      BY RunShapes DEF RunAction
    <3> QED BY <3>1, Points DEF RunShape, Live, WarnedInv
  <2>2. CASE MarkRunning(d)
    BY <1>0, <1>2, <2>1, <2>2, MarkAccount
  <2>3. CASE RecordStep(d)
    BY <1>0, <1>2, <2>1, <2>3, RecordAccount
  <2>4. CASE Finish(d)
    BY <1>0, <1>2, <2>4, FinishAccount
  <2>5. CASE RunStart(d) /\ status[d] = "running"
    BY <1>0, <1>2, <2>5, RunStartAccount
  <2>6. ASSUME \/ CheckCancel(d) \/ CancelRest(d) \/ StepReturns(d) \/ WrapUp(d)
               \/ RecordRaises(d) \/ RunFails(d) \/ FailDeployment(d) \/ Abort(d)
               \/ EnvFails(d) \/ TaskRaises(d) \/ (RunStart(d) /\ status[d] # "running")
        PROVE  RunAccount(d)'
    BY <1>0, <2>6, RunQuiet, QuietKeeps DEF Quiet
  <2> QED BY <1>2, <2>2, <2>3, <2>4, <2>5, <2>6 DEF RunAction, RunStep
<1> QED BY <1>1, <1>2

\* RowsInv is inductive, given the types, ClaimInv and WarnedInv.
LEMMA RowsInvStep ==
  ASSUME TypeOK, ClaimInv, WarnedInv, RowsInv, [Next]_vars
  PROVE  RowsInv'
<1>0. \A e \in Deployments : RunAccount(e)
  BY DEF RowsInv, RunAccount
<1> SUFFICES ASSUME NEW e \in Deployments PROVE RunAccount(e)'
  BY DEF RowsInv, RunAccount
<1>1. CASE ApiNext /\ UNCHANGED workerVars
  BY <1>0, <1>1, ApiRows, QuietKeeps, InsertAccount DEF ClaimInv, Quiet
<1>2. ASSUME NEW w \in Workers,
             \/ Start(w) \/ Restart(w) \/ Stop(w) \/ ProcessStep(w)
             \/ Crash(w) \/ RecoverFails(w) \/ ClaimFails(w)
      PROVE  RunAccount(e)'
  BY <1>0, <1>2, ProcessRows, QuietKeeps DEF Quiet
<1>3. ASSUME NEW d \in Deployments, RunAction(d)
      PROVE  RunAccount(e)'
  BY <1>3, RunAccountStep
<1>4. CASE UNCHANGED vars
  <2>1. Quiet(e)
    BY <1>4 DEF vars, tables, workerVars, process, Quiet, QuietRun, QuietRows, QuietStatus, RowMove
  <2> QED BY <1>0, <2>1, QuietKeeps DEF Quiet
<1> QED BY <1>1, <1>2, <1>3, <1>4 DEF Next, WorkerNext, Failure, RunAction

\* Where nothing has run, there is nothing to account for.
LEMMA RowsInvInit ==
  ASSUME Init
  PROVE  RowsInv
BY DEF Init, DBInit, WorkerInit, RowsInv, RowsOrdered, RowsAround, RowsWon

\* The account of the rows holds in every state any number of workers and request
\* threads can reach.
THEOREM RowsAccounted == Spec => []RowsInv
<1>1. Init => RowsInv
  BY RowsInvInit
<1>2. TypeOK /\ ClaimInv /\ WarnedInv /\ RowsInv /\ [Next]_vars => RowsInv'
  BY RowsInvStep
<1> QED BY <1>1, <1>2, Invariance, PTL DEF Spec

\* run() carries out the steps in the order of their positions: no row leaves the
\* queue before every earlier step has been carried out, although workers that
\* recover each other's deployments write the same rows.
THEOREM StepsOrdered == Spec => []StepsInOrder
<1>1. RowsInv => StepsInOrder
  BY DEF RowsInv, RowsOrdered, StepsInOrder, Untouched, Carried
<1> QED BY <1>1, RowsAccounted, PTL

\* A deployment says success only with exit code 0 and with the row of every step
\* a success: no failed, skipped or cancelled step hides behind it.
THEOREM SuccessIsHonest == Spec => []SuccessHonest
<1>1. RowsInv => SuccessHonest
  BY DEF RowsInv, RowsWon, SuccessHonest
<1> QED BY <1>1, RowsAccounted, PTL

-----------------------------------------------------------------------------
(* Capacity.  First is a recursion in disguise: how many rows it takes is    *)
(* settled by looking at the last of them.                                   *)

\* A bounded set of numbers has a last element.
LEMMA LastElement ==
  ASSUME NEW S \in SUBSET Nat, S # {}, NEW m \in Nat, \A x \in S : x <= m
  PROVE  \E u \in S : \A x \in S : x <= u
<1> DEFINE T == {b \in Nat : \A x \in S : x <= b}
           R == OpToRel(<, Nat)
<1>1. T \subseteq Nat /\ T # {}
  OBVIOUS
<1>2. \E u \in T : \A y \in T : ~ (<<y, u>> \in R)
  <2> HIDE DEF T, R
  <2>1. IsWellFoundedOn(R, Nat)
    BY NatLessThanWellFounded DEF R
  <2> QED BY <1>1, <2>1, WFMin
<1>3. PICK u \in T : \A y \in T : ~ (<<y, u>> \in R)
  BY <1>2
<1>4. \A y \in T : ~ (y < u)
  BY <1>3 DEF OpToRel
<1>5. u \in S
  <2> SUFFICES ASSUME u \notin S PROVE FALSE
    OBVIOUS
  <2>1. \A x \in S : x < u /\ x \in Nat
    OBVIOUS
  <2>2. u \in Nat /\ u # 0
    <3>1. PICK x \in S : TRUE
      OBVIOUS
    <3>2. x < u /\ x \in Nat /\ u \in Nat
      BY <2>1
    <3> QED BY <3>2
  <2>3. u - 1 \in T
    BY <2>1, <2>2
  <2> QED BY <1>4, <2>2, <2>3
<1> QED BY <1>5

\* Of a set of rows the claim takes no more than it was asked for.
LEMMA FirstBounded ==
  ASSUME NEW D \in SUBSET Deployments, NEW m \in Nat, \A d \in D : d <= m, NEW n \in Int
  PROVE  /\ IsFiniteSet(First(n, D))
         /\ Cardinality(First(n, D)) <= IF n > 0 THEN n ELSE 0
<1> DEFINE below(x) == {e \in D : e < x}
           F == First(n, D)
<1>1. D \subseteq Nat /\ F \in SUBSET D
  BY DeploymentsAssumption, FirstSubset
<1>2. IsFiniteSet(D)
  BY <1>1, FS_BoundedSetOfNaturals
<1>3. IsFiniteSet(F)
  BY <1>1, <1>2, FS_Subset
<1>4. CASE F = {}
  BY <1>3, <1>4, FS_EmptySet
<1>5. CASE F # {}
  <2>1. PICK u \in F : \A x \in F : x <= u
    <3>1. F \in SUBSET Nat /\ \A x \in F : x <= m
      BY <1>1
    <3> HIDE DEF F
    <3> QED BY <1>5, <3>1, LastElement
  <2>2. Cardinality(below(u)) < n /\ IsFiniteSet(below(u)) /\ Cardinality(below(u)) \in Nat
    <3>1. Cardinality(below(u)) < n
      BY <2>1 DEF First
    <3>2. below(u) \in SUBSET D
      OBVIOUS
    <3>3. IsFiniteSet(below(u))
      BY <1>2, <3>2, FS_Subset
    <3> QED BY <3>1, <3>3, FS_CardinalityType
  <2>3. F \in SUBSET (below(u) \cup {u})
    <3> SUFFICES ASSUME NEW x \in F, x # u PROVE x \in D /\ x < u
      OBVIOUS
    <3>1. x \in D /\ x \in Nat /\ u \in Nat /\ x <= u
      BY <1>1, <2>1
    <3> QED BY <3>1
  <2> DEFINE B == below(u)
  <2> HIDE DEF F, B
  <2>b. IsFiniteSet(B) /\ Cardinality(B) \in Nat /\ Cardinality(B) < n
    BY <2>2 DEF B
  <2>f. F \in SUBSET (B \cup {u})
    BY <2>3 DEF B
  <2>4. IsFiniteSet(B \cup {u}) /\ Cardinality(B \cup {u}) <= Cardinality(B) + 1
    <3>1. /\ IsFiniteSet(B \cup {u})
          /\ Cardinality(B \cup {u}) = IF u \in B THEN Cardinality(B) ELSE Cardinality(B) + 1
      BY <2>b, FS_AddElement
    <3>2. CASE u \in B
      BY <2>b, <3>1, <3>2
    <3>3. CASE u \notin B
      BY <2>b, <3>1, <3>3
    <3> QED BY <3>2, <3>3
  <2>5. Cardinality(F) <= Cardinality(B \cup {u})
    BY <2>f, <2>4, FS_Subset
  <2>6. Cardinality(F) \in Nat /\ Cardinality(B \cup {u}) \in Nat
    BY <1>3, <2>4, FS_CardinalityType
  <2>7. Cardinality(F) <= n /\ n > 0
    BY <2>b, <2>4, <2>5, <2>6
  <2> QED BY <1>3, <2>7 DEF F
<1> QED BY <1>4, <1>5

\* Every step keeps the table of rows bounded.
LEMMA TableBoundedStep ==
  ASSUME TypeOK, ClaimInv, TableBounded, [Next]_vars
  PROVE  TableBounded'
<1> USE DEF TypeOK, DBTypeOK
<1>1. PICK n \in Deployments \cup {NoDeployment} : \A d \in Deployments : Exists(d) => d <= n
  BY DEF TableBounded
<1>n. Deployments \subseteq Nat /\ n \in Nat
  BY DeploymentsAssumption DEF NoDeployment
<1>2. ASSUME NEW x \in Deployments, InsertShape(x) PROVE TableBounded'
  <2>1. \A d \in Deployments : Exists(d)' => Exists(d) \/ d = x
    BY <1>2 DEF InsertShape, Exists
  <2>2. CASE x <= n
    BY <1>1, <2>1, <2>2 DEF TableBounded
  <2>3. CASE ~ (x <= n)
    <3>1. \A d \in Deployments : Exists(d)' => d <= x
      BY <1>1, <1>n, <2>1, <2>3
    <3> QED BY <3>1 DEF TableBounded
  <2> QED BY <2>2, <2>3
<1>3. ASSUME Onwards \/ UNCHANGED vars PROVE TableBounded'
  <2>1. \A d \in Deployments : Exists(d)' => Exists(d)
    BY <1>3 DEF Onwards, Exists, vars, tables
  <2> QED BY <1>1, <2>1 DEF TableBounded
<1> QED BY <1>2, <1>3, StepRows

\* The projects of a worker that claims: those it had, and one for each row won.
LEMMA ClaimFits ==
  ASSUME TypeOK, ClaimInv, CapacityInv, NEW w \in Workers, ClaimCommit(w)
  PROVE  Cardinality(Held(w)') <= MaxConcurrency
<1> USE DEF TypeOK, DBTypeOK, WorkerTypeOK
<1> DEFINE held == Held(w)
           room == MaxConcurrency - Cardinality(held)
           won  == Claimed(claim[w], room)
           served == {p \in Projects : \E d \in won : project[d] = p}
<1>1. IsFiniteSet(held) /\ Cardinality(held) \in Nat /\ Cardinality(held) <= MaxConcurrency
  <2>1. held \in SUBSET Projects
    BY DEF Held
  <2>2. IsFiniteSet(held)
    BY <2>1, FiniteProjectsAssumption, FS_Subset
  <2> QED BY <2>2, FS_CardinalityType DEF CapacityInv
<1>2. room \in Nat
  BY <1>1, MaxConcurrencyAssumption
<1>3. IsFiniteSet(won) /\ Cardinality(won) <= room /\ Cardinality(won) \in Nat
  <2> DEFINE hit   == StillPending(claim[w])
             heads == {d \in hit : \A e \in hit : project[e] = project[d] => d <= e}
  <2>1. heads \in SUBSET Deployments /\ \A d \in heads : Exists(d)
    BY DEF StillPending, ClaimInv, RowsBehind
  <2>2. PICK m \in Deployments \cup {NoDeployment} : \A d \in Deployments : Exists(d) => d <= m
    BY DEF CapacityInv, TableBounded
  <2>n. m \in Nat
    BY DeploymentsAssumption DEF NoDeployment
  <2>3. won = First(room, heads)
    BY DEF Claimed
  <2>h. \A d \in heads : d <= m
    BY <2>1, <2>2
  <2> HIDE DEF heads, hit, room, won
  <2>i. room \in Int
    BY <1>2
  <2>4. IsFiniteSet(won) /\ Cardinality(won) <= IF room > 0 THEN room ELSE 0
    BY <2>1, <2>h, <2>i, <2>n, <2>3, FirstBounded
  <2> QED BY <1>2, <2>4, FS_CardinalityType
<1>4. Held(w)' \in SUBSET (held \cup served)
  <2>1. task'[w] = [p \in Projects |-> IF \E d \in won : project[d] = p
                                       THEN CHOOSE d \in won : project[d] = p
                                       ELSE task[w][p]]
    BY DEF ClaimCommit
  <2> HIDE DEF won
  <2> QED BY <2>1 DEF Held
<1>5. won \subseteq Deployments /\ \A d \in won : project[d] \in Projects
  BY ClaimedFacts DEF ClaimInv, RowsBehind
<1> HIDE DEF held, room, won
<1>6. IsFiniteSet(served) /\ Cardinality(served) <= Cardinality(won)
  <2> DEFINE f == [d \in won |-> project[d]]
  <2>1. f \in Surjection(won, served)
    BY <1>5 DEF Surjection
  <2> HIDE DEF f, served
  <2> QED BY <1>3, <2>1, FS_Surjection
<1> HIDE DEF served
<1>7. /\ IsFiniteSet(held \cup served)
      /\ Cardinality(held \cup served) <= Cardinality(held) + Cardinality(served)
  <2>1. IsFiniteSet(held \cap served) /\ Cardinality(held \cap served) \in Nat
    BY <1>1, FS_Intersection, FS_CardinalityType
  <2>2. Cardinality(served) \in Nat
    BY <1>6, FS_CardinalityType
  <2>3. /\ IsFiniteSet(held \cup served)
        /\ Cardinality(held \cup served) =
             Cardinality(held) + Cardinality(served) - Cardinality(held \cap served)
    BY <1>1, <1>6, FS_Union
  <2> QED BY <1>1, <2>1, <2>2, <2>3
<1>8. Cardinality(Held(w)') <= Cardinality(held \cup served)
  BY <1>4, <1>7, FS_Subset
<1>9. /\ Cardinality(Held(w)') \in Nat /\ Cardinality(held \cup served) \in Nat
      /\ Cardinality(served) \in Nat
  BY <1>4, <1>6, <1>7, FS_Subset, FS_CardinalityType
<1> QED BY <1>1, <1>3, <1>6, <1>7, <1>8, <1>9, MaxConcurrencyAssumption DEF room

\* No other step gives a worker a project.
LEMMA HeldShrinks ==
  ASSUME TypeOK, Next, NEW w \in Workers
  PROVE  Held(w)' \subseteq Held(w) \/ ClaimCommit(w)
<1> USE DEF TypeOK, WorkerTypeOK
<1>1. ASSUME task'[w] = task[w] \/ task'[w] = NoTasks PROVE Held(w)' \subseteq Held(w)
  BY <1>1 DEF Held, NoTasks
<1>2. CASE ApiNext /\ UNCHANGED workerVars
  BY <1>1, <1>2 DEF workerVars, process
<1>3. ASSUME NEW d \in Deployments, RunAction(d)
      PROVE  Held(w)' \subseteq Held(w)
  BY <1>1, <1>3, RunShapes DEF RunShape, RunAction
<1>4. ASSUME NEW v \in Workers,
             \/ Start(v) \/ Restart(v) \/ Stop(v) \/ Recover(v) \/ DrainTimeout(v)
             \/ Exit(v) \/ Crash(v) \/ RecoverFails(v) \/ ClaimFails(v)
      PROVE  Held(w)' \subseteq Held(w)
  BY <1>1, <1>4 DEF Start, Restart, Boot, Stop, Recover, RecoverFails, Recovered,
                    DrainTimeout, Exit, Crash, ClaimFails
<1>5. ASSUME NEW v \in Workers, ClaimRead(v)
      PROVE  Held(w)' \subseteq Held(w)
  <2>1. CASE v # w
    BY <1>1, <1>5, <2>1 DEF ClaimRead
  <2>2. CASE v = w
    <3>1. task'[w] = Reaped(w)
      BY <1>5, <2>2 DEF ClaimRead
    <3> QED BY <3>1 DEF Held, Reaped
  <2> QED BY <2>1, <2>2
<1>6. ASSUME NEW v \in Workers, ClaimCommit(v), v # w
      PROVE  Held(w)' \subseteq Held(w)
  BY <1>1, <1>6 DEF ClaimCommit
<1> QED BY <1>2, <1>3, <1>4, <1>5, <1>6
        DEF Next, WorkerNext, ProcessStep, Failure, RunAction

\* CapacityInv is inductive, given the types and ClaimInv.
LEMMA CapacityInvStep ==
  ASSUME TypeOK, ClaimInv, CapacityInv, [Next]_vars
  PROVE  CapacityInv'
<1>1. TableBounded'
  BY TableBoundedStep DEF CapacityInv
<1>2. ASSUME NEW w \in Workers PROVE Cardinality(Held(w)') <= MaxConcurrency
  <2>1. IsFiniteSet(Held(w)) /\ Cardinality(Held(w)) \in Nat
    BY FiniteProjectsAssumption, FS_Subset, FS_CardinalityType DEF Held
  <2>2. Cardinality(Held(w)) <= MaxConcurrency
    BY DEF CapacityInv
  <2>3. CASE Held(w)' \subseteq Held(w)
    <3>1. Cardinality(Held(w)') <= Cardinality(Held(w)) /\ Cardinality(Held(w)') \in Nat
      BY <2>1, <2>3, FS_Subset, FS_CardinalityType
    <3> QED BY <2>1, <2>2, <3>1, MaxConcurrencyAssumption
  <2>4. CASE ClaimCommit(w)
    BY <2>4, ClaimFits
  <2>5. CASE UNCHANGED vars
    BY <2>3, <2>5 DEF vars, workerVars, process, Held
  <2> QED BY <2>3, <2>4, <2>5, HeldShrinks
<1> QED BY <1>1, <1>2 DEF CapacityInv

\* Workers that have not started serve no project.
LEMMA CapacityInvInit ==
  ASSUME Init
  PROVE  CapacityInv
<1>1. TableBounded
  BY DEF Init, DBInit, TableBounded, Exists
<1>2. ASSUME NEW w \in Workers PROVE Cardinality(Held(w)) <= MaxConcurrency
  <2>1. Held(w) = {}
    BY DEF Init, WorkerInit, Held, NoTasks
  <2> QED BY <2>1, FS_EmptySet, MaxConcurrencyAssumption
<1> QED BY <1>1, <1>2 DEF CapacityInv

\* The projects a worker serves are never more than MAX_CONCURRENCY.
THEOREM CapacityAccounted == Spec => []CapacityInv
<1>1. Init => CapacityInv
  BY CapacityInvInit
<1>2. TypeOK /\ ClaimInv /\ CapacityInv /\ [Next]_vars => CapacityInv'
  BY CapacityInvStep
<1> QED BY <1>1, <1>2, Invariance, PTL DEF Spec

\* A worker never has more deployments under way than MAX_CONCURRENCY, whatever
\* the other workers do to the rows between its SELECT and its commit.
THEOREM CapacityKept == Spec => []BoundedConcurrency
<1>1. TypeOK /\ ClaimInv /\ CapacityInv => BoundedConcurrency
  <2> SUFFICES ASSUME TypeOK, ClaimInv, CapacityInv, NEW w \in Workers
               PROVE  Cardinality(loop[w]) <= MaxConcurrency
    BY DEF BoundedConcurrency
  <2>1. loop[w] \subseteq Deployments
    BY DEF TypeOK, WorkerTypeOK
  <2>2. IsFiniteSet(Held(w)) /\ Cardinality(Held(w)) \in Nat
    BY FiniteProjectsAssumption, FS_Subset, FS_CardinalityType DEF Held
  <2> DEFINE f == [d \in loop[w] |-> project[d]]
  <2>3. \A d \in loop[w] : project[d] \in Projects /\ task[w][project[d]] = d
    BY <2>1 DEF ClaimInv, RowsBehind, TasksCover
  <2>4. \A d \in loop[w] : project[d] \in Held(w)
    BY <2>1, <2>3, DeploymentsAssumption DEF Held, NoDeployment
  <2>5. f \in Injection(loop[w], Held(w))
    BY <2>3, <2>4 DEF Injection, IsInjective
  <2>6. IsFiniteSet(loop[w]) /\ Cardinality(loop[w]) <= Cardinality(Held(w))
    BY <2>2, <2>5, FS_Injection
  <2>7. Cardinality(loop[w]) \in Nat
    BY <2>6, FS_CardinalityType
  <2> QED BY <2>2, <2>6, <2>7, MaxConcurrencyAssumption DEF CapacityInv
<1> QED BY <1>1, Invariance, CapacityAccounted, PTL
=============================================================================
