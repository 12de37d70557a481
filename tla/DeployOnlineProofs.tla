------------------------- MODULE DeployOnlineProofs -------------------------
(***************************************************************************)
(* Theorems about DeployOnline, for any set of deployments, projects,      *)
(* request threads and workers, any failures the environment may cause and *)
(* timestamps with or without zone.                                        *)
(***************************************************************************)
EXTENDS DeployOnline, TLAPS

-----------------------------------------------------------------------------
(* Sequences of step rows.                                                   *)

\* Moving rows from one state to another keeps a sequence of rows one.
LEMMA MoveType ==
  ASSUME NEW rows \in Seq(StepStatus), NEW from, NEW to \in StepStatus
  PROVE  /\ Move(rows, from, to) \in Seq(StepStatus)
         /\ Len(Move(rows, from, to)) = Len(rows)
         /\ DOMAIN Move(rows, from, to) = DOMAIN rows
<1>1. DOMAIN rows = 1..Len(rows) /\ Len(rows) \in Nat
  OBVIOUS
<1>2. \A i \in DOMAIN rows : rows[i] \in StepStatus
  OBVIOUS
<1> QED BY <1>1, <1>2 DEF Move

\* Writing one row keeps a sequence of rows one.
LEMMA ExceptType ==
  ASSUME NEW rows \in Seq(StepStatus), NEW i, NEW s \in StepStatus
  PROVE  /\ [rows EXCEPT ![i] = s] \in Seq(StepStatus)
         /\ Len([rows EXCEPT ![i] = s]) = Len(rows)
<1>1. DOMAIN rows = 1..Len(rows) /\ Len(rows) \in Nat
  OBVIOUS
<1>2. \A j \in DOMAIN rows : rows[j] \in StepStatus
  OBVIOUS
<1> DEFINE new == [j \in 1..Len(rows) |-> IF j = i THEN s ELSE rows[j]]
<1>3. [rows EXCEPT ![i] = s] = new
  BY <1>1
<1>4. new \in Seq(StepStatus) /\ Len(new) = Len(rows)
  BY <1>1, <1>2
<1> QED BY <1>3, <1>4

\* The rows of a new deployment.
LEMMA FreshRowsType ==
  ASSUME NEW n \in Nat
  PROVE  [i \in 1..n |-> "pending"] \in Seq(StepStatus)
BY DEF StepStatus, Terminal

-----------------------------------------------------------------------------
(* Type correctness: first the transactions, then the actions.               *)

\* A new deployment's row and steps keep the types of the tables.
LEMMA InsertType ==
  ASSUME DBTypeOK, NEW d \in Deployments, NEW p \in Projects \cup {NoProject},
         NEW n \in Nat, InsertDeployment(d, p, n)
  PROVE  DBTypeOK'
BY FreshRowsType DEF DBTypeOK, InsertDeployment, Status, Terminal

\* So does the replacement of a project's steps ...
LEMMA ReplaceType ==
  ASSUME DBTypeOK, NEW p \in Projects, NEW e \in BOOLEAN, ReplaceProjectChildren(p, e)
  PROVE  DBTypeOK'
BY DEF DBTypeOK, ReplaceProjectChildren

\* ... the cancellation of the steps that wait ...
LEMMA CancelPendingType ==
  ASSUME DBTypeOK, NEW d \in Deployments, CancelPendingSteps(d)
  PROVE  DBTypeOK'
<1>1. Move(steps[d], "pending", "cancelled") \in Seq(StepStatus)
  BY MoveType DEF DBTypeOK, StepStatus, Terminal
<1> QED BY <1>1 DEF DBTypeOK, CancelPendingSteps

\* ... the status of one step ...
LEMMA MarkType ==
  ASSUME DBTypeOK, NEW d \in Deployments, NEW i \in Nat, NEW s \in StepStatus,
         MarkStep(d, i, s)
  PROVE  DBTypeOK'
<1>1. steps[d] \in Seq(StepStatus)
  BY DEF DBTypeOK
<1>2. [steps[d] EXCEPT ![i] = s] \in Seq(StepStatus)
  BY <1>1, ExceptType
<1> QED BY <1>2 DEF DBTypeOK, MarkStep

\* ... the outcome of a deployment ...
LEMMA FinishType ==
  ASSUME DBTypeOK, NEW d \in Deployments, NEW s \in Terminal, NEW code \in Codes,
         FinishDeployment(d, s, code)
  PROVE  DBTypeOK'
BY DEF DBTypeOK, FinishDeployment, Status

\* ... the claim ...
LEMMA ClaimType ==
  ASSUME DBTypeOK, NEW D, ClaimRows(D)
  PROVE  DBTypeOK'
BY DEF DBTypeOK, ClaimRows, Status

\* ... and the recovery.
LEMMA RecoverType ==
  ASSUME DBTypeOK, NEW D, RecoverStale(D)
  PROVE  DBTypeOK'
<1>1. \A d \in Deployments : Move(steps[d], "running", "failed") \in Seq(StepStatus)
  BY MoveType DEF DBTypeOK, StepStatus, Terminal
<1>2. steps' \in [Deployments -> Seq(StepStatus)]
  BY <1>1 DEF DBTypeOK, RecoverStale
<1>3. status' \in [Deployments -> Status] /\ exitCode' \in [Deployments -> Codes]
  BY DEF DBTypeOK, RecoverStale, Status, Terminal, Codes, NoCode
<1> QED BY <1>2, <1>3 DEF DBTypeOK, RecoverStale

\* What a coroutine that leaves the body of run() is left with.
LEMMA UnwindType ==
  ASSUME WorkerTypeOK, NEW D, NEW point \in Point, Unwind(D, point)
  PROVE  /\ pc' \in [Deployments -> Point]
         /\ pos' \in [Deployments -> Nat]
         /\ result' \in [Deployments -> {"ok", "fail", "cancel"}]
         /\ verdict' \in [Deployments -> Terminal]
BY DEF WorkerTypeOK, Unwind, Terminal

\* Coroutines that end keep the types of the worker's variables.
LEMMA EndRunsType ==
  ASSUME WorkerTypeOK, NEW D, NEW point \in Point, EndRuns(D, point)
  PROVE  /\ pc' \in [Deployments -> Point]
         /\ pos' \in [Deployments -> Nat]
         /\ result' \in [Deployments -> {"ok", "fail", "cancel"}]
         /\ verdict' \in [Deployments -> Terminal]
         /\ loop' \in [Workers -> SUBSET Deployments]
<1>1. loop' \in [Workers -> SUBSET Deployments]
  BY DEF WorkerTypeOK, EndRuns
<1> QED BY <1>1, UnwindType DEF EndRuns

\* The points of run() at which it holds the loop, waits, or is over.
LEMMA Points ==
  /\ Busy \subseteq Point /\ Waiting \subseteq Point /\ Ended \subseteq Point
  /\ Busy \cap Waiting = {} /\ Busy \cap Ended = {} /\ Waiting \cap Ended = {}
  /\ "none" \notin Busy \cup Waiting \cup Ended
BY DEF Busy, Waiting, Ended, Point

\* The claim never goes beyond the rows it was given.
LEMMA FirstSubset ==
  ASSUME NEW n, NEW D
  PROVE  First(n, D) \subseteq D
BY DEF First

\* One deployment per project and turn: of the rows still pending, the claim
\* takes the one with the lowest id.
LEMMA ClaimedFacts ==
  ASSUME NEW D \in SUBSET Deployments, NEW n
  PROVE  /\ Claimed(D, n) \subseteq D
         /\ \A d \in Claimed(D, n) : status[d] = "pending"
         /\ \A d \in Claimed(D, n) : \A e \in D :
              status[e] = "pending" /\ project[e] = project[d] => d <= e
         /\ \A d, e \in Claimed(D, n) : project[d] = project[e] => d = e
<1> DEFINE hit == StillPending(D)
           heads == {d \in hit : \A e \in hit : project[e] = project[d] => d <= e}
<1>1. Claimed(D, n) \subseteq heads
  BY FirstSubset DEF Claimed
<1>2. hit = {d \in D : status[d] = "pending"}
  BY DEF StillPending
<1>3. \A d, e \in heads : project[d] = project[e] => d = e
  <2> SUFFICES ASSUME NEW d \in heads, NEW e \in heads, project[d] = project[e]
               PROVE  d = e
    OBVIOUS
  <2>1. d <= e /\ e <= d
    OBVIOUS
  <2>2. d \in Nat /\ e \in Nat
    BY <1>2, DeploymentsAssumption
  <2> QED BY <2>1, <2>2
<1> QED BY <1>1, <1>2, <1>3

\* What the SELECT finds: rows that wait, of projects the worker does not serve.
LEMMA CandidatesFacts ==
  ASSUME NEW active, NEW n
  PROVE  /\ Candidates(active, n) \subseteq Deployments
         /\ \A d \in Candidates(active, n) :
              /\ status[d] = "pending"
              /\ project[d] \notin active
BY FirstSubset DEF Candidates

\* The requests, action by action.
LEMMA ApiType ==
  ASSUME TypeOK, ApiNext, UNCHANGED workerVars
  PROVE  DBTypeOK' /\ ApiTypeOK' /\ WorkerTypeOK'
<1> USE DEF TypeOK
<1>w. WorkerTypeOK'
  BY DEF WorkerTypeOK, workerVars, process
<1>1. ASSUME NEW p \in Projects, Deploy(p)
      PROVE  DBTypeOK' /\ ApiTypeOK'
  BY <1>1, InsertType, StepCountsAssumption DEF Deploy, ApiTypeOK
<1>2. ASSUME NEW d \in Deployments, Retry(d)
      PROVE  DBTypeOK' /\ ApiTypeOK'
  <2>1. project[d] \in Projects \cup {NoProject} /\ Len(steps[d]) \in Nat
    BY DEF DBTypeOK
  <2> QED BY <1>2, <2>1, InsertType DEF Retry, ApiTypeOK
<1>3. ASSUME NEW c \in Clients, NEW d \in Deployments, CancelRead(c, d)
      PROVE  DBTypeOK' /\ ApiTypeOK'
  <2>1. DBTypeOK'
    BY <1>3 DEF CancelRead, DBTypeOK, tables
  <2>2. \A s \in {"pending", "running"} : [dep |-> d, seen |-> s] \in Request
    BY DEF Request
  <2>3. [dep |-> d, seen |-> status[d]] \in Request
    BY <1>3, <2>2 DEF CancelRead
  <2> QED BY <1>3, <2>1, <2>3 DEF CancelRead, ApiTypeOK
<1>4. ASSUME NEW c \in Clients, CancelCommit(c)
      PROVE  DBTypeOK' /\ ApiTypeOK'
  <2> DEFINE d == req[c].dep
  <2>1. d \in Deployments
    BY <1>4 DEF CancelCommit, ApiTypeOK, Request
  <2>2. Move(steps[d], "pending", "cancelled") \in Seq(StepStatus)
    BY <2>1, MoveType DEF DBTypeOK, StepStatus, Terminal
  <2>3. steps' \in [Deployments -> Seq(StepStatus)]
    BY <1>4, <2>1, <2>2 DEF CancelCommit, DBTypeOK
  <2>4. status' \in [Deployments -> Status] /\ exitCode' \in [Deployments -> Codes]
    BY <1>4, <2>1 DEF CancelCommit, DBTypeOK, Status, Terminal, Codes
  <2>5. cancelReq' \in [Deployments -> BOOLEAN]
    BY <1>4, <2>1 DEF CancelCommit, DBTypeOK
  <2> QED BY <1>4, <2>3, <2>4, <2>5 DEF CancelCommit, DBTypeOK, ApiTypeOK, Request, Idle
<1>5. ASSUME NEW p \in Projects, EditProject(p)
      PROVE  DBTypeOK' /\ ApiTypeOK'
  BY <1>5, ReplaceType, EnabledToAssumption DEF EditProject, ApiTypeOK
<1>6. ASSUME ApiRestart
      PROVE  DBTypeOK' /\ ApiTypeOK'
  BY <1>6 DEF ApiRestart, DBTypeOK, tables, ApiTypeOK
<1> QED BY <1>w, <1>1, <1>2, <1>3, <1>4, <1>5, <1>6 DEF ApiNext

\* The actions of a worker process.
LEMMA ProcessType ==
  ASSUME TypeOK, NEW w \in Workers,
         \/ Start(w) \/ Restart(w) \/ Stop(w) \/ ProcessStep(w)
         \/ Crash(w) \/ RecoverFails(w) \/ ClaimFails(w)
  PROVE  DBTypeOK' /\ WorkerTypeOK'
<1> USE DEF TypeOK, process
<1>0. DBTypeOK' \/ ~ UNCHANGED tables
  BY DEF DBTypeOK, tables
<1>1. ASSUME Start(w) \/ Restart(w) PROVE DBTypeOK' /\ WorkerTypeOK'
  BY <1>0, <1>1 DEF Start, Restart, Boot, Stale, WorkerTypeOK, WorkerState, coroutines
<1>r. ASSUME NEW to \in WorkerState, Recovered(w, to) PROVE WorkerTypeOK'
  BY <1>r DEF Recovered, WorkerTypeOK, coroutines
<1>2. CASE Stop(w) \/ RecoverFails(w)
  <2>1. CASE UNCHANGED tables /\ \E to \in {"off", "failed"} : Recovered(w, to)
    BY <1>0, <1>r, <2>1 DEF WorkerState, Down
  <2>2. CASE UNCHANGED <<tables, found, claim, task, coroutines, loop>>
             /\ wstate' = [wstate EXCEPT ![w] = "draining"]
    BY <1>0, <2>2 DEF WorkerTypeOK, WorkerState, coroutines
  <2> QED BY <1>2, <2>1, <2>2 DEF Stop, RecoverFails
<1>9. CASE Recover(w)
  BY <1>9, <1>r, RecoverType DEF Recover, WorkerState
<1>3. CASE DrainTimeout(w)
  <2>1. Unwind({d \in loop[w] : pc[d] = "exec"}, "aborting")
    BY <1>3 DEF DrainTimeout, CancelTasks
  <2> QED BY <1>0, <1>3, <2>1, UnwindType DEF DrainTimeout, WorkerTypeOK, Point, Waiting
<1>4. CASE Exit(w)
  BY <1>0, <1>4 DEF Exit, WorkerTypeOK, WorkerState, Down, coroutines, NoTasks
<1>5. CASE ClaimRead(w)
  <2>1. Reaped(w) \in [Projects -> Deployments \cup {NoDeployment}]
    BY DEF Reaped, WorkerTypeOK
  <2>2. claim' \in [Workers -> SUBSET Deployments]
    BY <1>5, CandidatesFacts DEF ClaimRead, WorkerTypeOK
  <2> QED BY <1>0, <1>5, <2>1, <2>2 DEF ClaimRead, WorkerTypeOK, coroutines
<1>6. CASE ClaimCommit(w)
  <2> DEFINE won == Claimed(claim[w], MaxConcurrency - Cardinality(Held(w)))
  <2>1. won \subseteq Deployments
    BY ClaimedFacts DEF WorkerTypeOK
  <2>2. DBTypeOK'
    BY <1>6, ClaimType DEF ClaimCommit
  <2> HIDE DEF won
  <2>3. \A p \in Projects :
          (\E d \in won : project[d] = p) => (CHOOSE d \in won : project[d] = p) \in Deployments
    BY <2>1
  <2>4. task' \in [Workers -> [Projects -> Deployments \cup {NoDeployment}]]
    BY <1>6, <2>3 DEF ClaimCommit, WorkerTypeOK, won
  <2>5. /\ pc' \in [Deployments -> Point]
        /\ loop' \in [Workers -> SUBSET Deployments]
        /\ claim' \in [Workers -> SUBSET Deployments]
    BY <1>6, <2>1 DEF ClaimCommit, WorkerTypeOK, Point, Waiting, won
  <2> QED BY <1>6, <2>2, <2>4, <2>5 DEF ClaimCommit, WorkerTypeOK
<1>7. CASE Crash(w)
  <2>1. EndRuns(loop[w], "ended") /\ "ended" \in Point
    BY <1>7 DEF Crash, Point, Ended
  <2> QED BY <1>0, <1>7, <2>1, EndRunsType
          DEF Crash, WorkerTypeOK, WorkerState, Down, NoTasks
<1>8. CASE ClaimFails(w)
  <2>1. Unwind({d \in loop[w] : pc[d] = "exec"}, "aborting")
    BY <1>8 DEF ClaimFails, CancelTasks
  <2> QED BY <1>0, <1>8, <2>1, UnwindType
          DEF ClaimFails, WorkerTypeOK, WorkerState, Point, Waiting
<1> QED BY <1>1, <1>2, <1>3, <1>4, <1>5, <1>6, <1>7, <1>8, <1>9 DEF ProcessStep

\* The actions of a coroutine.
LEMMA RunType ==
  ASSUME TypeOK, NEW d \in Deployments,
         RunStep(d) \/ EnvFails(d) \/ RunFails(d) \/ TaskRaises(d)
  PROVE  DBTypeOK' /\ WorkerTypeOK'
<1> USE DEF TypeOK, process
<1>0. DBTypeOK' \/ ~ UNCHANGED tables
  BY DEF DBTypeOK, tables
<1>p. /\ {"ended", "raised", "failing", "check", "wrapup", "cancelling", "marking",
          "exec", "recording", "finish"} \subseteq Point
      /\ \A i : LoopHead(d, i) \in Point
  BY DEF Point, Ended, Busy, Waiting, LoopHead
<1>t. {"success", "failed", "cancelled"} = Terminal
  BY DEF Terminal
<1>1. CASE RunStart(d)
  <2>1. CASE EndRuns({d}, "ended")
    BY <1>0, <1>1, <1>p, <2>1, EndRunsType DEF RunStart, WorkerTypeOK
  <2>2. CASE Goto(d, LoopHead(d, 1)) /\ UNCHANGED <<pos, result, verdict, loop>>
    BY <1>0, <1>1, <1>p, <2>2 DEF RunStart, WorkerTypeOK, Goto
  <2> QED BY <1>1, <2>1, <2>2 DEF RunStart
<1>2. CASE CheckCancel(d)
  BY <1>0, <1>2, <1>p DEF CheckCancel, WorkerTypeOK, Goto, UnchangedWorker
<1>3. CASE CancelRest(d)
  BY <1>3, <1>p, <1>t, CancelPendingType DEF CancelRest, WorkerTypeOK, Goto, UnchangedWorker
<1>4. CASE MarkRunning(d)
  <2>1. pos[d] \in Nat /\ "running" \in StepStatus
    BY DEF WorkerTypeOK, StepStatus
  <2> QED BY <1>4, <1>p, <2>1, MarkType DEF MarkRunning, WorkerTypeOK, Goto, UnchangedWorker
<1>5. CASE StepReturns(d)
  BY <1>0, <1>5, <1>p DEF StepReturns, WorkerTypeOK, Goto, UnchangedWorker
<1>6. CASE RecordStep(d)
  <2>1. pos[d] \in Nat /\ RowStatus(result[d]) \in StepStatus
    BY DEF WorkerTypeOK, StepStatus, Terminal, RowStatus
  <2>2. DBTypeOK'
    BY <1>6, <2>1, MarkType DEF RecordStep
  <2>3. pos' \in [Deployments -> Nat] /\ verdict' \in [Deployments -> Terminal]
    BY <1>6, <1>t, <2>1 DEF RecordStep, WorkerTypeOK
  <2>4. pc' \in [Deployments -> Point]
    BY <1>6, <1>p DEF RecordStep, WorkerTypeOK, Goto
  <2> QED BY <1>6, <2>2, <2>3, <2>4 DEF RecordStep, WorkerTypeOK, UnchangedWorker
<1>7. CASE RecordRaises(d)
  BY <1>0, <1>7, <1>p, UnwindType DEF RecordRaises, WorkerTypeOK, UnchangedWorker
<1>8. CASE WrapUp(d)
  BY <1>0, <1>8, <1>p, <1>t DEF WrapUp, WorkerTypeOK, Goto, UnchangedWorker
<1>9. CASE Finish(d)
  <2>1. verdict[d] \in Terminal /\ ExitCodeOf(verdict[d]) \in Codes
    BY DEF WorkerTypeOK, ExitCodeOf, Codes, Terminal
  <2>2. DBTypeOK'
    BY <1>9, <2>1, FinishType DEF Finish
  <2> QED BY <1>9, <1>p, <2>2, EndRunsType DEF Finish, WorkerTypeOK
<1>10. CASE FailDeployment(d)
  <2>1. DBTypeOK'
    BY <1>10, <1>t, FinishType DEF FailDeployment, Codes
  <2> QED BY <1>10, <1>p, <2>1, EndRunsType DEF FailDeployment, WorkerTypeOK
<1>11. CASE Abort(d)
  <2>1. DBTypeOK'
    BY <1>11, <1>t, FinishType DEF Abort, Codes
  <2> QED BY <1>11, <1>p, <2>1, EndRunsType DEF Abort, WorkerTypeOK
<1>12. CASE EnvFails(d)
  BY <1>0, <1>12, <1>p, EndRunsType DEF EnvFails, WorkerTypeOK
<1>13. CASE RunFails(d)
  BY <1>0, <1>13, <1>p, UnwindType DEF RunFails, WorkerTypeOK, UnchangedWorker
<1>14. CASE TaskRaises(d)
  BY <1>0, <1>14, <1>p, EndRunsType DEF TaskRaises, WorkerTypeOK
<1> QED BY <1>1, <1>2, <1>3, <1>4, <1>5, <1>6, <1>7, <1>8, <1>9, <1>10, <1>11, <1>12,
           <1>13, <1>14 DEF RunStep

\* The history variables.
LEMMA HistoryType ==
  ASSUME TypeOK, HistoryNext, pc' \in [Deployments -> Point],
         cancelReq' \in [Deployments -> BOOLEAN]
  PROVE  /\ warned' \in [Deployments -> BOOLEAN]
         /\ late' \in [Deployments -> Nat]
BY DEF TypeOK, HistoryNext, PastLastCheck

\* The empty database and the idle processes are of their types.
LEMMA InitType == Init => TypeOK
<1> SUFFICES ASSUME Init PROVE TypeOK
  OBVIOUS
<1>1. DBTypeOK
  BY DEF Init, DBInit, DBTypeOK, Status, Codes
<1>2. ApiTypeOK
  BY DEF Init, ApiInit, ApiTypeOK
<1>3. WorkerTypeOK
  BY DEF Init, WorkerInit, WorkerTypeOK, WorkerState, Down, Point, NoTasks, Terminal
<1> QED BY <1>1, <1>2, <1>3 DEF Init, HistoryInit, TypeOK

\* Every step keeps the types.
LEMMA StepType ==
  ASSUME TypeOK, [Next]_vars
  PROVE  TypeOK'
<1>1. CASE ApiNext /\ UNCHANGED workerVars /\ HistoryNext
  <2>1. DBTypeOK' /\ ApiTypeOK' /\ WorkerTypeOK'
    BY <1>1, ApiType
  <2> QED BY <1>1, <2>1, HistoryType DEF TypeOK, DBTypeOK, WorkerTypeOK
<1>2. CASE WorkerNext /\ UNCHANGED req /\ HistoryNext
  <2>1. DBTypeOK' /\ WorkerTypeOK'
    BY <1>2, ProcessType, RunType DEF WorkerNext, Failure
  <2>2. ApiTypeOK'
    BY <1>2 DEF TypeOK, ApiTypeOK
  <2> QED BY <1>2, <2>1, <2>2, HistoryType DEF TypeOK, DBTypeOK, WorkerTypeOK
<1>3. CASE UNCHANGED vars
  BY <1>3 DEF vars, tables, workerVars, process, TypeOK, DBTypeOK, ApiTypeOK, WorkerTypeOK
<1> QED BY <1>1, <1>2, <1>3 DEF Next

\* Every variable stays within its type: among others the rows of a deployment
\* only ever hold the statuses that the program knows, and its exit code one of
\* those the program writes.
THEOREM TypeCorrect == Spec => []TypeOK
BY InitType, StepType, PTL DEF Spec
=============================================================================
