------------------------- MODULE DeploySafetyProofs -------------------------
(***************************************************************************)
(* Safety theorems about DeployOnline: the invariants of DeployInvariants  *)
(* are inductive, and the properties of DeployOnline follow from them.     *)
(*                                                                         *)
(* The many actions of a coroutine, and those of the API, do only a few    *)
(* things the invariants see.  Those are named first (RunShape and so on)  *)
(* and each invariant is then shown to survive each shape of step.         *)
(***************************************************************************)
EXTENDS DeployOnlineProofs, DeployInvariants

-----------------------------------------------------------------------------
(* The shapes of a step.                                                     *)

\* run(d) goes on or ends, and writes at most an outcome, and that only when it
\* ends.
RunShape(d) ==
  /\ Live(d)
  /\ pc'[d] \in (Busy \cup Waiting \cup Ended) \ {"ready"}
  /\ \A e \in Deployments \ {d} :
       pc'[e] = pc[e] /\ verdict'[e] = verdict[e] /\ status'[e] = status[e]
  /\ \A w \in Workers : loop'[w] = IF pc'[d] \in Ended THEN loop[w] \ {d} ELSE loop[w]
  /\ UNCHANGED <<project, cancelReq, wstate, found, claim, task>>
  /\ pc'[d] = "marking" => ~ cancelReq[d]
  /\ pc'[d] = "finish" /\ cancelReq[d] => verdict'[d] # "success"
  /\ \/ status'[d] = status[d] /\ (pc'[d] = "ended" => status[d] # "running")
     \/ /\ pc'[d] = "ended" /\ status'[d] \in Terminal
        /\ status'[d] = "success" => pc[d] = "finish" /\ verdict[d] = "success"

\* A new row for d.
InsertShape(d) ==
  /\ NextId(d)
  /\ \E p \in Projects : project' = [project EXCEPT ![d] = p]
  /\ status' = [status EXCEPT ![d] = "pending"]
  /\ UNCHANGED <<cancelReq, req>>

\* A request that read the status of d.
ReadShape(c, d) ==
  /\ status[d] \in {"pending", "running"}
  /\ req' = [req EXCEPT ![c] = [dep |-> d, seen |-> status[d]]]
  /\ UNCHANGED <<project, status, cancelReq>>

\* A cancel request is committed.
CancelShape(d) ==
  /\ Exists(d)
  /\ cancelReq' = [cancelReq EXCEPT ![d] = TRUE]
  /\ status' = [status EXCEPT ![d] = "cancelled"] \/ status' = status
  /\ \A c \in Clients : req'[c] = req[c] \/ req'[c] = Idle
  /\ UNCHANGED project

\* Nothing the invariants speak of.
OtherShape ==
  /\ \A c \in Clients : req'[c] = req[c] \/ req'[c] = Idle
  /\ UNCHANGED <<project, status, cancelReq>>

\* The claim: the rows of won waited, and are now under way in w, one for each
\* of their projects.
ClaimShape(w, won) ==
  /\ \A d \in won : status[d] = "pending" /\ pc[d] = "none"
  /\ \A d \in won : \A e \in claim[w] :
       status[e] = "pending" /\ project[e] = project[d] => d <= e
  /\ \A d, e \in won : project[d] = project[e] => d = e
  /\ status' = [d \in Deployments |-> IF d \in won THEN "running" ELSE status[d]]
  /\ pc' = [d \in Deployments |-> IF d \in won THEN "ready" ELSE pc[d]]
  /\ loop' = [loop EXCEPT ![w] = @ \cup won]
  /\ claim' = [claim EXCEPT ![w] = {}]
  /\ \A d \in won : task'[w][project[d]] = d
  /\ \A p \in Projects :
       (\A d \in won : project[d] # p) => task'[w][p] = task[w][p]
  /\ \A v \in Workers \ {w} : task'[v] = task[v]
  /\ UNCHANGED <<project, cancelReq, wstate, found, verdict>>

\* Each step of run(), failures included, is of the shape RunShape.
LEMMA RunShapes ==
  ASSUME TypeOK, NEW d \in Deployments,
         RunStep(d) \/ EnvFails(d) \/ RunFails(d) \/ TaskRaises(d)
  PROVE  RunShape(d)
<1> USE DEF TypeOK, DBTypeOK, WorkerTypeOK, tables, process
<1>p. /\ {"ended", "raised"} = Ended
      /\ \A x \in {"failing", "check", "wrapup", "cancelling", "marking", "exec",
                   "recording", "finish"} :
           x \in Busy \cup Waiting /\ x \notin Ended
      /\ \A i : LoopHead(d, i) \in {"check", "wrapup"}
      /\ \A e \in Deployments :
           pc[e] \in {"ready", "check", "cancelling", "marking", "exec", "recording",
                      "wrapup", "finish", "failing", "aborting"} => Live(e)
  BY DEF Ended, Busy, Waiting, LoopHead, Live
\* A step that keeps its coroutine on the loop and writes no outcome.
<1>g. ASSUME NEW x \in {"failing", "check", "wrapup", "cancelling", "marking", "exec",
                        "recording", "finish"},
             Live(d), pc' = [pc EXCEPT ![d] = x],
             \A e \in Deployments \ {d} : verdict'[e] = verdict[e],
             UNCHANGED <<project, status, cancelReq, process, claim, task, loop>>,
             x = "marking" => ~ cancelReq[d],
             x = "finish" /\ cancelReq[d] => verdict'[d] # "success"
      PROVE  RunShape(d)
  BY <1>g, <1>p DEF RunShape
\* A step with which its coroutine is over.
<1>e. ASSUME NEW x \in Ended, Live(d), EndRuns({d}, x),
             UNCHANGED <<project, cancelReq, process, claim, task>>,
             \/ UNCHANGED status /\ (x = "ended" => status[d] # "running")
             \/ /\ x = "ended"
                /\ \E s \in Terminal :
                     /\ status' = [status EXCEPT ![d] = s]
                     /\ s = "success" => pc[d] = "finish" /\ verdict[d] = "success"
      PROVE  RunShape(d)
  <2>1. pc'[d] = x /\ x \notin {"ready", "marking", "finish"}
    BY <1>e, <1>p DEF EndRuns, Unwind
  <2>2. \A w \in Workers : loop'[w] = loop[w] \ {d}
    BY <1>e DEF EndRuns
  <2>3. \A e \in Deployments \ {d} : pc'[e] = pc[e] /\ verdict'[e] = verdict[e]
    BY <1>e DEF EndRuns, Unwind
  <2>4. /\ \A e \in Deployments \ {d} : status'[e] = status[e]
        /\ \/ status'[d] = status[d] /\ (x = "ended" => status[d] # "running")
           \/ /\ x = "ended" /\ status'[d] \in Terminal
              /\ status'[d] = "success" => pc[d] = "finish" /\ verdict[d] = "success"
    BY <1>e
  <2> QED BY <1>e, <2>1, <2>2, <2>3, <2>4 DEF RunShape
<1>1. CASE RunStart(d)
  <2>1. CASE status[d] = "running"
    BY <1>1, <1>p, <1>g, <2>1 DEF RunStart, Goto
  <2>2. CASE status[d] # "running"
    BY <1>1, <1>p, <1>e, <2>2 DEF RunStart
  <2> QED BY <2>1, <2>2
<1>2. CASE CheckCancel(d)
  BY <1>2, <1>p, <1>g DEF CheckCancel, Goto, UnchangedWorker
<1>3. CASE CancelRest(d)
  BY <1>3, <1>p, <1>g DEF CancelRest, CancelPendingSteps, Goto, UnchangedWorker
<1>4. CASE MarkRunning(d)
  BY <1>4, <1>p, <1>g DEF MarkRunning, MarkStep, Goto, UnchangedWorker
<1>5. CASE StepReturns(d)
  BY <1>5, <1>p, <1>g DEF StepReturns, Goto, UnchangedWorker
<1>6. CASE RecordStep(d)
  <2>1. UNCHANGED <<project, status, cancelReq, process, claim, task, loop>> /\ Live(d)
    BY <1>6, <1>p DEF RecordStep, MarkStep, UnchangedWorker
  <2>2. \A e \in Deployments \ {d} : verdict'[e] = verdict[e]
    BY <1>6 DEF RecordStep
  <2>3. \E x \in {"check", "wrapup"} : pc' = [pc EXCEPT ![d] = x]
    BY <1>6, <1>p DEF RecordStep, Goto
  <2> QED BY <2>1, <2>2, <2>3, <1>g
<1>7. CASE RecordRaises(d) \/ RunFails(d)
  <2>1. Unwind({d}, "failing") /\ UNCHANGED tables /\ UnchangedWorker
    BY <1>7 DEF RecordRaises, RunFails
  <2>2. Live(d)
    BY <1>7 DEF RecordRaises, RunFails, Live, Busy, Waiting
  <2>3. pc' = [pc EXCEPT ![d] = "failing"]
    BY <2>1 DEF Unwind
  <2>4. \A e \in Deployments \ {d} : verdict'[e] = verdict[e]
    BY <2>1 DEF Unwind
  <2> QED BY <2>1, <2>2, <2>3, <2>4, <1>g DEF UnchangedWorker
<1>8. CASE WrapUp(d)
  <2>1. cancelReq[d] => verdict'[d] # "success"
    BY <1>8 DEF WrapUp
  <2> QED BY <1>8, <1>p, <1>g, <2>1 DEF WrapUp, Goto, UnchangedWorker
<1>9. CASE Finish(d)
  <2>1. verdict[d] \in Terminal
    OBVIOUS
  <2> QED BY <1>9, <1>p, <1>e, <2>1 DEF Finish, FinishDeployment
<1>10. CASE FailDeployment(d) \/ Abort(d)
  <2>1. "failed" \in Terminal
    BY DEF Terminal
  <2>2. CASE FailDeployment(d)
    BY <1>p, <1>e, <2>1, <2>2 DEF FailDeployment, FinishDeployment
  <2>3. CASE Abort(d)
    BY <1>p, <1>e, <2>1, <2>3 DEF Abort, FinishDeployment
  <2> QED BY <1>10, <2>2, <2>3
<1>11. CASE EnvFails(d) \/ TaskRaises(d)
  <2>1. Live(d)
    BY <1>11, <1>p DEF EnvFails, TaskRaises
  <2> QED BY <1>11, <1>p, <1>e, <2>1 DEF EnvFails, TaskRaises
<1> QED BY <1>1, <1>2, <1>3, <1>4, <1>5, <1>6, <1>7, <1>8, <1>9, <1>10, <1>11 DEF RunStep

\* Each step of a request is an insert, a cancel, a read or leaves the rows alone.
LEMMA ApiShapes ==
  ASSUME TypeOK, RowsBehind, ApiNext
  PROVE  \/ \E d \in Deployments : InsertShape(d) \/ CancelShape(d)
         \/ \E c \in Clients, d \in Deployments : ReadShape(c, d)
         \/ OtherShape
<1> USE DEF TypeOK, DBTypeOK, ApiTypeOK, tables
<1>1. ASSUME NEW p \in Projects, Deploy(p)
      PROVE  \E d \in Deployments : InsertShape(d)
  BY <1>1 DEF Deploy, InsertDeployment, InsertShape
<1>2. ASSUME NEW d \in Deployments, Retry(d)
      PROVE  \E e \in Deployments : InsertShape(e)
  <2>1. project[d] \in Projects
    BY <1>2 DEF Retry, RowsBehind, Exists
  <2> QED BY <1>2, <2>1 DEF Retry, InsertDeployment, InsertShape
<1>3. ASSUME NEW c \in Clients, NEW d \in Deployments, CancelRead(c, d)
      PROVE  ReadShape(c, d)
  BY <1>3 DEF CancelRead, ReadShape
<1>4. ASSUME NEW c \in Clients, CancelCommit(c)
      PROVE  \E d \in Deployments : CancelShape(d)
  <2> DEFINE d == req[c].dep
  <2>1. d \in Deployments /\ Exists(d)
    BY <1>4 DEF CancelCommit, Request, RowsBehind
  <2> QED BY <1>4, <2>1 DEF CancelCommit, CancelShape
<1>5. ASSUME (\E p \in Projects : EditProject(p)) \/ ApiRestart
      PROVE  OtherShape
  BY <1>5 DEF EditProject, ReplaceProjectChildren, ApiRestart, OtherShape
<1> QED BY <1>1, <1>2, <1>3, <1>4, <1>5 DEF ApiNext

-----------------------------------------------------------------------------
(* ClaimInv.                                                                 *)

\* A step that claims nothing and gives the worker no new coroutine; a recovery
\* may find what is running.
Shrinks ==
  /\ \A w \in Workers : found'[w] \in {found[w], {}, Stale}
  /\ \A w \in Workers : loop'[w] = {d \in loop[w] : Live(d)'}
  /\ \A w \in Workers : claim'[w] \in {claim[w], {}}
  /\ \A w \in Workers : loop[w] # {} /\ loop'[w] # {} => task'[w] = task[w]
  /\ \A d \in Deployments : pc'[d] # pc[d] => Live(d) /\ pc'[d] \notin {"none", "ready"}

\* A step of run() takes at most itself off the loop.
LEMMA RunShrinks ==
  ASSUME TypeOK, ClaimInv, NEW d \in Deployments, RunShape(d)
  PROVE  Shrinks /\ UNCHANGED project
<1>1. \A w \in Workers : \A e \in loop[w] : Live(e)
  BY DEF ClaimInv, LoopHasLive
<1>2. \A e \in Deployments : Live(e)' <=> pc'[e] \in Busy \cup Waiting
  BY DEF Live
<1>3. \A e \in Deployments \ {d} : Live(e)' <=> Live(e)
  BY DEF RunShape, Live
<1>4. Live(d)' <=> pc'[d] \notin Ended
  BY <1>2, Points DEF RunShape
<1>5. \A w \in Workers : loop'[w] = {e \in loop[w] : Live(e)'}
  <2> SUFFICES ASSUME NEW w \in Workers PROVE loop'[w] = {e \in loop[w] : Live(e)'}
    OBVIOUS
  <2>1. loop[w] \subseteq Deployments
    BY DEF TypeOK, WorkerTypeOK
  <2> QED BY <1>1, <1>3, <1>4, <2>1 DEF RunShape
<1>6. pc'[d] \notin {"none", "ready"}
  BY Points DEF RunShape
<1> QED BY <1>5, <1>6 DEF RunShape, Shrinks

\* What the invariant needs of a status: it never goes back to the queue.
Onwards ==
  \A d \in Deployments :
    status'[d] # status[d] => Exists(d) /\ status'[d] \notin {"absent", "pending"}

\* Coroutines that end or go on, and rows that move on, keep ClaimInv.
LEMMA ShrinksKeeps ==
  ASSUME TypeOK, ClaimInv, Shrinks, Onwards, UNCHANGED project,
         \A c \in Clients : req'[c] = req[c] \/ req'[c] = Idle
                            \/ \E d \in Deployments : Exists(d) /\ req'[c].dep = d
  PROVE  ClaimInv'
<1> USE DEF TypeOK, DBTypeOK, WorkerTypeOK, ApiTypeOK
<1>1. \A d \in Deployments : Exists(d) <=> Exists(d)'
  BY DEF Onwards, Exists
<1>2. \A d \in Deployments : Exists(d)' => project'[d] \in Projects
  BY <1>1 DEF ClaimInv, RowsBehind
<1>3. ASSUME NEW d \in Deployments, status'[d] \in {"absent", "pending"}
      PROVE  pc'[d] = "none"
  <2>1. status'[d] = status[d]
    BY <1>3 DEF Onwards
  <2>2. pc[d] = "none" /\ ~ Live(d)
    BY <1>3, <2>1, Points DEF ClaimInv, RowsBehind, Live
  <2> QED BY <2>2 DEF Shrinks
<1>4. \A w \in Workers : \A d \in loop'[w] \cup claim'[w] : Exists(d)'
  <2> SUFFICES ASSUME NEW w \in Workers, NEW d \in loop'[w] \cup claim'[w]
               PROVE  Exists(d)'
    OBVIOUS
  <2>1. d \in loop[w] \cup claim[w] /\ d \in Deployments
    BY DEF Shrinks
  <2> QED BY <1>1, <2>1 DEF ClaimInv, RowsBehind
<1>5. \A c \in Clients : req'[c] # Idle => status'[req'[c].dep] # "absent"
  <2> SUFFICES ASSUME NEW c \in Clients, req'[c] # Idle
               PROVE  status'[req'[c].dep] # "absent"
    OBVIOUS
  <2>1. CASE req'[c] = req[c]
    <3>1. req[c].dep \in Deployments /\ Exists(req[c].dep)
      BY <2>1 DEF Request, ClaimInv, RowsBehind
    <3> QED BY <1>1, <2>1, <3>1 DEF Exists
  <2> QED BY <1>1, <2>1 DEF Exists
<1>f. ASSUME NEW w \in Workers, NEW d \in found'[w]
      PROVE  status'[d] \notin {"absent", "pending"}
  <2>1. d \in found[w] \cup Stale /\ d \in Deployments
    BY DEF Shrinks, Stale
  <2> QED BY <2>1 DEF ClaimInv, RowsBehind, Stale, Onwards
<1>6. RowsBehind'
  <2>1. (\A c \in Clients : req[c] # Idle => Exists(req[c].dep))'
    BY <1>5 DEF Exists
  <2> QED BY <1>2, <1>3, <1>4, <1>f, <2>1 DEF RowsBehind
<1>7. ASSUME NEW w \in Workers, NEW d \in loop'[w]
      PROVE  task'[w][project'[d]] = d
  <2>1. d \in loop[w]
    BY DEF Shrinks
  <2>2. task'[w] = task[w]
    BY <2>1 DEF Shrinks
  <2> QED BY <2>1, <2>2 DEF ClaimInv, TasksCover
<1>8. ASSUME NEW w \in Workers, NEW d \in claim'[w], NEW e \in loop'[w]
      PROVE  project'[d] # project'[e]
  <2>1. d \in claim[w] /\ e \in loop[w]
    BY DEF Shrinks
  <2> QED BY <2>1 DEF ClaimInv, TasksCover
<1>9. LoopHasLive'
  <2>1. \A w \in Workers : \A d \in loop'[w] : Live(d)'
    BY DEF Shrinks
  <2>2. ASSUME NEW d \in Deployments, Live(d)' PROVE \E w \in Workers : d \in loop'[w]
    <3>1. Live(d)
      BY <2>2 DEF Shrinks, Live
    <3> QED BY <2>2, <3>1 DEF Shrinks, ClaimInv, LoopHasLive
  <2> QED BY <2>1, <2>2 DEF LoopHasLive
<1> QED BY <1>6, <1>7, <1>8, <1>9 DEF ClaimInv, TasksCover

\* A new deployment keeps ClaimInv: nobody has heard of its row.
LEMMA InsertKeeps ==
  ASSUME TypeOK, ClaimInv, NEW d \in Deployments, InsertShape(d), UNCHANGED workerVars
  PROVE  ClaimInv'
<1> USE DEF TypeOK, DBTypeOK, WorkerTypeOK, ApiTypeOK, workerVars, process, InsertShape
<1>1. ~ Exists(d) /\ status[d] = "absent"
  BY DEF NextId, Exists
<1>2. \A e \in Deployments \ {d} : project'[e] = project[e] /\ status'[e] = status[e]
  OBVIOUS
<1>3. \A e \in Deployments : Exists(e)' <=> Exists(e) \/ e = d
  BY DEF Exists
<1>4. project'[d] \in Projects /\ status'[d] = "pending" /\ pc[d] = "none"
  BY <1>1 DEF ClaimInv, RowsBehind
<1>5. \A w \in Workers : d \notin loop[w] \cup claim[w]
  BY <1>1 DEF ClaimInv, RowsBehind
<1>6. RowsBehind'
  <2>1. \A c \in Clients : req[c] # Idle => Exists(req[c].dep)'
    <3> SUFFICES ASSUME NEW c \in Clients, req[c] # Idle
                 PROVE  status'[req[c].dep] # "absent"
      BY DEF Exists
    <3>1. req[c].dep \in Deployments /\ Exists(req[c].dep)
      BY DEF Request, ClaimInv, RowsBehind
    <3> QED BY <1>3, <3>1 DEF Exists
  <2>2. \A w \in Workers : \A e \in loop'[w] \cup claim'[w] : Exists(e)'
    BY <1>3 DEF ClaimInv, RowsBehind
  <2>3. \A w \in Workers : \A e \in found'[w] : status'[e] \notin {"absent", "pending"}
    BY <1>1, <1>2 DEF ClaimInv, RowsBehind
  <2> QED BY <1>2, <1>3, <1>4, <2>1, <2>2, <2>3 DEF ClaimInv, RowsBehind
<1>7. \A w \in Workers : \A e \in loop[w] \cup claim[w] : project'[e] = project[e]
  BY <1>2, <1>5
<1>8. TasksCover'
  BY <1>7 DEF ClaimInv, TasksCover
<1>9. LoopHasLive'
  BY DEF ClaimInv, LoopHasLive, Live
<1> QED BY <1>6, <1>8, <1>9 DEF ClaimInv

\* The API's other steps leave the coroutines alone.
LEMMA ApiKeeps ==
  ASSUME TypeOK, ClaimInv, ApiNext, UNCHANGED workerVars
  PROVE  ClaimInv'
<1> USE DEF TypeOK, DBTypeOK, WorkerTypeOK, ApiTypeOK
<1>1. Shrinks
  <2>1. \A w \in Workers : \A d \in loop[w] : Live(d)'
    BY DEF ClaimInv, LoopHasLive, Live, workerVars, process
  <2> QED BY <2>1 DEF Shrinks, workerVars, process
<1>2. ASSUME NEW d \in Deployments, InsertShape(d) PROVE ClaimInv'
  BY <1>2, InsertKeeps
<1>3. ASSUME NEW d \in Deployments, CancelShape(d) PROVE ClaimInv'
  BY <1>1, <1>3, ShrinksKeeps DEF CancelShape, Onwards
<1>4. ASSUME NEW c \in Clients, NEW d \in Deployments, ReadShape(c, d) PROVE ClaimInv'
  <2>1. Exists(d) /\ UNCHANGED <<project, status>>
    BY <1>4 DEF ReadShape, Exists
  <2>2. \A b \in Clients : req'[b] = req[b] \/ req'[b].dep = d
    BY <1>4 DEF ReadShape
  <2> QED BY <1>1, <2>1, <2>2, ShrinksKeeps DEF Onwards
<1>5. CASE OtherShape
  BY <1>1, <1>5, ShrinksKeeps DEF OtherShape, Onwards
<1> QED BY <1>2, <1>3, <1>4, <1>5, ApiShapes DEF ClaimInv

\* A process that starts, leaves or is killed.
LEMMA ProcessShrinks ==
  ASSUME TypeOK, ClaimInv, NEW w \in Workers,
         \/ Start(w) \/ Restart(w) \/ Stop(w) \/ Recover(w) \/ DrainTimeout(w)
         \/ Exit(w) \/ Crash(w) \/ RecoverFails(w) \/ ClaimFails(w)
  PROVE  Shrinks /\ Onwards /\ UNCHANGED <<project, cancelReq>>
<1> USE DEF TypeOK, DBTypeOK, WorkerTypeOK
<1>l. \A v \in Workers : \A d \in loop[v] : Live(d)
  BY DEF ClaimInv, LoopHasLive
<1>u. UNCHANGED status => Onwards
  BY DEF Onwards
\* Those that leave the coroutines alone.
<1>g. ASSUME UNCHANGED <<pc, loop>>,
             \A v \in Workers : found'[v] \in {found[v], {}, Stale},
             \A v \in Workers : claim'[v] \in {claim[v], {}},
             \A v \in Workers : loop[v] # {} => task'[v] = task[v]
      PROVE  Shrinks
  <2>1. \A v \in Workers : \A d \in loop[v] : Live(d)'
    BY <1>g, <1>l DEF Live
  <2> QED BY <1>g, <2>1 DEF Shrinks
\* Those that cancel the tasks.
<1>c. ASSUME CancelTasks(w), UNCHANGED <<found, task, loop>>,
             \A v \in Workers : claim'[v] \in {claim[v], {}}
      PROVE  Shrinks
  <2>1. /\ \A d \in Deployments : pc'[d] # pc[d] => pc[d] = "exec" /\ pc'[d] = "aborting"
        /\ "exec" \in Waiting /\ "aborting" \in Waiting
    BY <1>c DEF CancelTasks, Unwind, Waiting
  <2>2. \A v \in Workers : \A d \in loop[v] : Live(d)'
    BY <1>l, <2>1 DEF Live
  <2> QED BY <1>c, <2>1, <2>2 DEF Shrinks, Live
<1>1. CASE Start(w) \/ Restart(w)
  BY <1>1, <1>g, <1>u DEF Start, Restart, Boot, coroutines, tables
<1>2. CASE Stop(w) \/ RecoverFails(w)
  BY <1>2, <1>g, <1>u DEF Stop, RecoverFails, Recovered, coroutines, tables
<1>7. CASE Recover(w)
  <2>1. Onwards
    BY <1>7 DEF Recover, RecoverStale, Onwards, Exists, ClaimInv, RowsBehind
  <2>2. Shrinks
    BY <1>7, <1>g DEF Recover, Recovered, coroutines
  <2> QED BY <1>7, <2>1, <2>2 DEF Recover, RecoverStale
<1>3. CASE DrainTimeout(w)
  BY <1>3, <1>c, <1>u DEF DrainTimeout, tables, process
<1>4. CASE Exit(w)
  BY <1>4, <1>g, <1>u DEF Exit, coroutines, tables
<1>5. CASE Crash(w)
  <2>1. /\ \A d \in Deployments : pc'[d] = IF d \in loop[w] THEN "ended" ELSE pc[d]
        /\ \A v \in Workers : loop'[v] = loop[v] \ loop[w]
    BY <1>5 DEF Crash, EndRuns, Unwind
  <2>2. \A d \in Deployments : Live(d)' <=> Live(d) /\ d \notin loop[w]
    BY <2>1, Points DEF Live, Ended
  <2>3. \A v \in Workers : loop'[v] = {d \in loop[v] : Live(d)'}
    BY <1>l, <2>1, <2>2
  <2>4. \A v \in Workers : loop'[v] # {} => task'[v] = task[v]
    BY <1>5, <2>1 DEF Crash
  <2>5. \A v \in Workers : claim'[v] \in {claim[v], {}}
    BY <1>5 DEF Crash
  <2>6. Shrinks
    BY <1>5, <1>l, <2>1, <2>3, <2>4, <2>5 DEF Shrinks, Crash
  <2> QED BY <1>5, <1>u, <2>6 DEF Crash, tables
<1>6. CASE ClaimFails(w)
  BY <1>6, <1>c, <1>u DEF ClaimFails, tables
<1> QED BY <1>1, <1>2, <1>3, <1>4, <1>5, <1>6, <1>7

\* The turn of the polling loop up to the SELECT.
LEMMA ClaimReadKeeps ==
  ASSUME TypeOK, ClaimInv, NEW w \in Workers, ClaimRead(w), UNCHANGED req
  PROVE  ClaimInv'
<1> USE DEF TypeOK, DBTypeOK, WorkerTypeOK
<1> DEFINE active == {p \in Projects : Reaped(w)[p] # NoDeployment}
<1>1. UNCHANGED <<project, status, pc, loop, found>>
  BY DEF ClaimRead, tables, coroutines, process
<1>2. ASSUME NEW d \in loop[w]
      PROVE  Reaped(w)[project[d]] = d /\ project[d] \in active
  <2>1. Live(d) /\ project[d] \in Projects /\ task[w][project[d]] = d /\ d \in Deployments
    BY DEF ClaimInv, LoopHasLive, RowsBehind, TasksCover
  <2>2. pc[d] \notin Ended /\ d # NoDeployment
    BY <2>1, Points, DeploymentsAssumption DEF Live, NoDeployment
  <2>3. Reaped(w)[project[d]] = task[w][project[d]]
    BY <2>1, <2>2 DEF Reaped
  <2> QED BY <2>1, <2>2, <2>3
<1>3. ASSUME NEW d \in claim'[w]
      PROVE  d \in Deployments /\ Exists(d) /\ project[d] \notin active
  <2>1. PICK n : d \in Candidates(active, n)
    BY DEF ClaimRead
  <2> HIDE DEF active
  <2> QED BY <2>1, CandidatesFacts DEF Exists
<1> HIDE DEF active
<1>4. \A v \in Workers \ {w} : claim'[v] = claim[v] /\ task'[v] = task[v]
  BY DEF ClaimRead
<1>5. RowsBehind'
  BY <1>1, <1>3, <1>4 DEF ClaimInv, RowsBehind, Exists
<1>6. ASSUME NEW v \in Workers, NEW d \in loop[v]
      PROVE  task'[v][project[d]] = d
  <2>1. CASE v = w
    BY <1>2, <2>1 DEF ClaimRead
  <2>2. CASE v # w
    BY <1>4, <2>2 DEF ClaimInv, TasksCover
  <2> QED BY <2>1, <2>2
<1>7. ASSUME NEW v \in Workers, NEW d \in claim'[v], NEW e \in loop[v]
      PROVE  project[d] # project[e]
  <2>1. CASE v = w
    BY <1>2, <1>3, <2>1
  <2>2. CASE v # w
    BY <1>4, <2>2 DEF ClaimInv, TasksCover
  <2> QED BY <2>1, <2>2
<1>8. LoopHasLive'
  BY <1>1 DEF ClaimInv, LoopHasLive, Live
<1> QED BY <1>1, <1>5, <1>6, <1>7, <1>8 DEF ClaimInv, TasksCover

\* The commit of a claim is of the shape ClaimShape.
LEMMA ClaimWon ==
  ASSUME TypeOK, ClaimInv, NEW w \in Workers, ClaimCommit(w)
  PROVE  \E won \in SUBSET claim[w] : ClaimShape(w, won)
<1> USE DEF TypeOK, DBTypeOK, WorkerTypeOK
<1> DEFINE won == Claimed(claim[w], MaxConcurrency - Cardinality(Held(w)))
<1>1. /\ won \subseteq claim[w]
      /\ \A d \in won : status[d] = "pending"
      /\ \A d \in won : \A e \in claim[w] :
           status[e] = "pending" /\ project[e] = project[d] => d <= e
      /\ \A d, e \in won : project[d] = project[e] => d = e
  BY ClaimedFacts
<1>2. /\ status' = [d \in Deployments |-> IF d \in won THEN "running" ELSE status[d]]
      /\ pc' = [d \in Deployments |-> IF d \in won THEN "ready" ELSE pc[d]]
      /\ loop' = [loop EXCEPT ![w] = @ \cup won]
      /\ claim' = [claim EXCEPT ![w] = {}]
      /\ UNCHANGED <<project, cancelReq, wstate, found, verdict>>
  BY DEF ClaimCommit, ClaimRows, process
<1>3. task' = [task EXCEPT ![w] =
                 [p \in Projects |-> IF \E d \in won : project[d] = p
                                     THEN CHOOSE d \in won : project[d] = p
                                     ELSE @[p]]]
  BY DEF ClaimCommit
<1> HIDE DEF won
<1>4. ASSUME NEW d \in won PROVE task'[w][project[d]] = d /\ pc[d] = "none"
  <2>1. project[d] \in Projects /\ pc[d] = "none"
    BY <1>1, <1>4 DEF ClaimInv, RowsBehind
  <2>2. (CHOOSE e \in won : project[e] = project[d]) = d
    BY <1>1, <1>4
  <2> QED BY <1>3, <1>4, <2>1, <2>2
<1>5. \A p \in Projects : (\A d \in won : project[d] # p) => task'[w][p] = task[w][p]
  BY <1>3
<1>6. \A v \in Workers \ {w} : task'[v] = task[v]
  BY <1>3
<1> QED BY <1>1, <1>2, <1>4, <1>5, <1>6 DEF ClaimShape

\* What a claim wins is of projects the worker did not serve.
LEMMA ClaimCommitKeeps ==
  ASSUME TypeOK, ClaimInv, NEW w \in Workers, ClaimCommit(w), UNCHANGED req
  PROVE  ClaimInv'
<1> USE DEF TypeOK, DBTypeOK, WorkerTypeOK
<1>1. PICK won \in SUBSET claim[w] : ClaimShape(w, won)
  BY ClaimWon
<1> USE DEF ClaimShape
<1>2. \A d \in Deployments : Exists(d)' <=> Exists(d)
  BY <1>1 DEF Exists
<1>3. RowsBehind'
  <2>1. \A d \in Deployments : Exists(d)' => project'[d] \in Projects
    BY <1>1, <1>2 DEF ClaimInv, RowsBehind
  <2>2. \A d \in Deployments : status'[d] \in {"absent", "pending"} => pc'[d] = "none"
    BY <1>1 DEF ClaimInv, RowsBehind
  <2>3. \A v \in Workers : \A d \in loop'[v] \cup claim'[v] : Exists(d)'
    <3> SUFFICES ASSUME NEW v \in Workers, NEW d \in loop'[v] \cup claim'[v]
                 PROVE  Exists(d)'
      OBVIOUS
    <3>1. d \in loop[v] \cup claim[v]
      BY <1>1
    <3> QED BY <1>2, <3>1 DEF ClaimInv, RowsBehind
  <2>4. (\A c \in Clients : req[c] # Idle => Exists(req[c].dep))'
    <3> SUFFICES ASSUME NEW c \in Clients, req[c] # Idle
                 PROVE  status'[req[c].dep] # "absent"
      BY DEF Exists
    <3>1. req[c].dep \in Deployments /\ Exists(req[c].dep)
      BY DEF ApiTypeOK, Request, ClaimInv, RowsBehind
    <3> QED BY <1>2, <3>1 DEF Exists
  <2>5. \A v \in Workers : \A d \in found'[v] : status'[d] \notin {"absent", "pending"}
    BY <1>1 DEF ClaimInv, RowsBehind
  <2> QED BY <2>1, <2>2, <2>3, <2>4, <2>5 DEF RowsBehind
<1>4. ASSUME NEW v \in Workers, NEW d \in loop'[v]
      PROVE  task'[v][project'[d]] = d
  <2>1. CASE d \in won /\ v = w
    BY <1>1, <2>1
  <2>2. CASE d \in loop[v] /\ v = w
    <3>1. \A e \in won : project[e] # project[d]
      BY <2>2 DEF ClaimInv, TasksCover
    <3>2. project[d] \in Projects /\ task[v][project[d]] = d
      BY <2>2 DEF ClaimInv, TasksCover, RowsBehind
    <3> QED BY <1>1, <2>2, <3>1, <3>2
  <2>3. CASE v # w
    BY <1>1, <2>3 DEF ClaimInv, TasksCover
  <2> QED BY <1>1, <2>1, <2>2, <2>3
<1>5. ASSUME NEW v \in Workers, NEW d \in claim'[v], NEW e \in loop'[v]
      PROVE  project'[d] # project'[e]
  BY <1>1 DEF ClaimInv, TasksCover
<1>6. LoopHasLive'
  <2>1. \A d \in Deployments : Live(d)' <=> Live(d) \/ d \in won
    BY <1>1, Points DEF Live, Waiting
  <2>2. \A v \in Workers : \A d \in loop'[v] : d \in loop[v] \/ d \in won
    BY <1>1
  <2>3. \A v \in Workers : loop[v] \subseteq loop'[v]
    BY <1>1
  <2>4. won \subseteq loop'[w]
    BY <1>1
  <2> QED BY <2>1, <2>2, <2>3, <2>4 DEF ClaimInv, LoopHasLive
<1> QED BY <1>3, <1>4, <1>5, <1>6 DEF ClaimInv, TasksCover

\* An empty table has nothing claimed or under way.
LEMMA ClaimInvInit ==
  ASSUME Init
  PROVE  ClaimInv
<1> USE DEF Init, DBInit, ApiInit, WorkerInit
<1>1. RowsBehind
  BY DEF RowsBehind, Exists
<1>2. LoopHasLive
  BY Points DEF LoopHasLive, Live
<1> QED BY <1>1, <1>2 DEF ClaimInv, TasksCover

\* ClaimInv is inductive, given the types.
LEMMA ClaimInvStep ==
  ASSUME TypeOK, ClaimInv, [Next]_vars
  PROVE  ClaimInv'
<1>1. CASE ApiNext /\ UNCHANGED workerVars
  BY <1>1, ApiKeeps
<1>2. ASSUME UNCHANGED req, NEW w \in Workers, ClaimRead(w)
      PROVE  ClaimInv'
  BY <1>2, ClaimReadKeeps
<1>3. ASSUME UNCHANGED req, NEW w \in Workers, ClaimCommit(w)
      PROVE  ClaimInv'
  BY <1>3, ClaimCommitKeeps
<1>4. ASSUME UNCHANGED req, NEW w \in Workers,
             \/ Start(w) \/ Restart(w) \/ Stop(w) \/ Recover(w) \/ DrainTimeout(w)
             \/ Exit(w) \/ Crash(w) \/ RecoverFails(w) \/ ClaimFails(w)
      PROVE  ClaimInv'
  BY <1>4, ProcessShrinks, ShrinksKeeps
<1>5. ASSUME UNCHANGED req, NEW d \in Deployments,
             RunStep(d) \/ EnvFails(d) \/ RunFails(d) \/ TaskRaises(d)
      PROVE  ClaimInv'
  <2>1. RunShape(d)
    BY <1>5, RunShapes
  <2>2. status[d] \notin {"absent", "pending"} /\ Exists(d)
    BY <2>1, Points DEF RunShape, Live, ClaimInv, RowsBehind, Exists
  <2>3. Onwards
    BY <2>1, <2>2 DEF Onwards, RunShape, Terminal
  <2> QED BY <1>5, <2>1, <2>3, RunShrinks, ShrinksKeeps
<1>6. CASE UNCHANGED vars
  <2>1. UNCHANGED <<project, status, req, process, claim, task, pc, loop>>
    BY <1>6 DEF vars, tables, workerVars, process
  <2>2. RowsBehind'
    BY <2>1 DEF ClaimInv, RowsBehind, Exists, process
  <2>3. TasksCover' /\ LoopHasLive'
    BY <2>1 DEF ClaimInv, TasksCover, LoopHasLive, Live
  <2> QED BY <2>2, <2>3 DEF ClaimInv
<1> QED BY <1>1, <1>2, <1>3, <1>4, <1>5, <1>6 DEF Next, WorkerNext, ProcessStep, Failure

-----------------------------------------------------------------------------
(* What one step can do to a deployment, whichever action it is.             *)

Advance(d) ==
  /\ cancelReq[d] => cancelReq'[d]
  /\ pc'[d] = "marking" /\ pc[d] # "marking" => ~ cancelReq'[d]
  /\ pc'[d] = "finish" => \/ pc[d] = "finish" /\ verdict'[d] = verdict[d]
                          \/ cancelReq'[d] => verdict'[d] # "success"
  /\ status'[d] = "success" /\ status[d] # "success" =>
       pc[d] = "finish" /\ verdict[d] = "success" /\ pc'[d] \in Ended
  /\ pc[d] \in Ended => pc'[d] = pc[d]
  /\ pc'[d] = "ready" /\ pc[d] # "ready" => pc[d] = "none" /\ status[d] = "pending"

\* A step of run() moves every run only as Advance says ...
LEMMA RunAdvances ==
  ASSUME TypeOK, NEW d \in Deployments, RunShape(d), NEW e \in Deployments
  PROVE  Advance(e)
<1>1. pc[d] \notin Ended
  BY Points DEF RunShape, Live
<1>2. CASE e = d
  BY <1>1, <1>2, Points DEF RunShape, Advance, Ended, Terminal
<1>3. CASE e # d
  BY <1>3 DEF RunShape, Advance
<1> QED BY <1>2, <1>3

\* ... so do the process and the claim ...
LEMMA ProcessAdvances ==
  ASSUME TypeOK, ClaimInv, NEW w \in Workers,
         \/ Start(w) \/ Restart(w) \/ Stop(w) \/ ProcessStep(w)
         \/ Crash(w) \/ RecoverFails(w) \/ ClaimFails(w),
         NEW e \in Deployments
  PROVE  Advance(e)
<1> USE DEF TypeOK, DBTypeOK, WorkerTypeOK
\* Those that leave the coroutines alone.
<1>g. ASSUME UNCHANGED <<pc, verdict, cancelReq>>,
             status'[e] # "success" \/ status'[e] = status[e]
      PROVE  Advance(e)
  BY <1>g DEF Advance
\* Those that cut coroutines short.
<1>u. ASSUME NEW D \in SUBSET {d \in Deployments : Live(d)}, NEW x \in {"ended", "aborting"},
             Unwind(D, x), UNCHANGED <<status, cancelReq>>
      PROVE  Advance(e)
  <2>1. e \in D => pc[e] \notin Ended
    BY Points DEF Live
  <2> QED BY <1>u, <2>1 DEF Unwind, Advance
<1>1. CASE Start(w) \/ Restart(w) \/ Exit(w) \/ ClaimRead(w)
  BY <1>1, <1>g DEF Start, Restart, Boot, Exit, ClaimRead, tables, coroutines
<1>2. CASE Stop(w) \/ Recover(w) \/ RecoverFails(w)
  BY <1>2, <1>g DEF Stop, Recover, RecoverFails, Recovered, RecoverStale, tables, coroutines
<1>3. CASE DrainTimeout(w) \/ ClaimFails(w)
  <2>1. CancelTasks(w) /\ UNCHANGED <<status, cancelReq>>
    BY <1>3 DEF DrainTimeout, ClaimFails, tables
  <2>2. {d \in loop[w] : pc[d] = "exec"} \in SUBSET {d \in Deployments : Live(d)}
    BY DEF ClaimInv, LoopHasLive
  <2> QED BY <1>u, <2>1, <2>2 DEF CancelTasks
<1>4. CASE Crash(w)
  <2>1. loop[w] \in SUBSET {d \in Deployments : Live(d)}
    BY DEF ClaimInv, LoopHasLive
  <2> QED BY <1>4, <1>u, <2>1 DEF Crash, EndRuns, tables
<1>5. CASE ClaimCommit(w)
  <2>1. PICK won \in SUBSET claim[w] : ClaimShape(w, won)
    BY <1>5, ClaimWon
  <2>2. "none" \notin Ended /\ "ready" \notin {"marking", "finish"} \cup Ended
    BY DEF Ended
  <2> QED BY <2>1, <2>2 DEF ClaimShape, Advance
<1> QED BY <1>1, <1>2, <1>3, <1>4, <1>5 DEF ProcessStep

\* ... and so every step.
LEMMA StepAdvances ==
  ASSUME TypeOK, ClaimInv, Next, NEW d \in Deployments
  PROVE  Advance(d)
<1> USE DEF TypeOK, DBTypeOK
<1>1. CASE ApiNext /\ UNCHANGED workerVars
  <2>1. UNCHANGED <<pc, verdict>>
    BY <1>1 DEF workerVars, process
  <2>2. status'[d] # "success" \/ status'[d] = status[d]
    BY <1>1, ApiShapes
       DEF ClaimInv, InsertShape, CancelShape, ReadShape, OtherShape
  <2>3. cancelReq[d] => cancelReq'[d]
    BY <1>1, ApiShapes
       DEF ClaimInv, InsertShape, CancelShape, ReadShape, OtherShape
  <2> QED BY <2>1, <2>2, <2>3 DEF Advance
<1>2. CASE WorkerNext
  BY <1>2, RunShapes, RunAdvances, ProcessAdvances DEF WorkerNext, Failure
<1> QED BY <1>1, <1>2 DEF Next

-----------------------------------------------------------------------------
(* LateInv and WarnedInv.                                                    *)

\* LateInv is inductive, given the types and ClaimInv.
LEMMA LateInvStep ==
  ASSUME TypeOK, ClaimInv, LateInv, [Next]_vars
  PROVE  LateInv'
<1> USE DEF TypeOK, DBTypeOK
<1>1. ASSUME Next, NEW d \in Deployments
      PROVE  /\ late'[d] <= 1
             /\ pc'[d] = "marking" => late'[d] = 0
             /\ ~ cancelReq'[d] => late'[d] = 0
  <2>1. Advance(d)
    BY <1>1, StepAdvances
  <2>2. late'[d] = IF cancelReq[d] /\ pc[d] = "marking" /\ pc'[d] = "exec"
                   THEN late[d] + 1 ELSE late[d]
    BY <1>1 DEF Next, HistoryNext
  <2>3. /\ late[d] \in Nat /\ late[d] <= 1
        /\ pc[d] = "marking" => late[d] = 0
        /\ ~ cancelReq[d] => late[d] = 0
    BY DEF LateInv
  <2> QED BY <2>1, <2>2, <2>3 DEF Advance
<1>2. CASE UNCHANGED vars
  BY <1>2 DEF LateInv, vars, tables, workerVars, process
<1> QED BY <1>1, <1>2 DEF LateInv

\* WarnedInv is inductive, given the types and ClaimInv.
LEMMA WarnedInvStep ==
  ASSUME TypeOK, ClaimInv, WarnedInv, [Next]_vars
  PROVE  WarnedInv'
<1> USE DEF TypeOK, DBTypeOK
<1>1. ASSUME Next, NEW d \in Deployments
      PROVE  /\ warned'[d] => cancelReq'[d] /\ status'[d] # "success"
             /\ warned'[d] /\ pc'[d] = "finish" => verdict'[d] # "success"
             /\ status'[d] = "success" => pc'[d] \in Ended
  <2>1. Advance(d)
    BY <1>1, StepAdvances
  <2>2. warned'[d] = (warned[d] \/ (cancelReq'[d] /\ ~ PastLastCheck(d)))
    BY <1>1 DEF Next, HistoryNext
  <2>3. /\ warned[d] => cancelReq[d] /\ status[d] # "success"
        /\ warned[d] /\ pc[d] = "finish" => verdict[d] # "success"
        /\ status[d] = "success" => pc[d] \in Ended
    BY DEF WarnedInv
  <2> QED BY <2>1, <2>2, <2>3 DEF Advance, PastLastCheck
<1>2. CASE UNCHANGED vars
  BY <1>2 DEF WarnedInv, vars, tables, workerVars, process
<1> QED BY <1>1, <1>2 DEF WarnedInv

-----------------------------------------------------------------------------
(* The properties.                                                           *)

\* The invariants of the claim and of cancellation hold in every state that any
\* number of workers and request threads can reach.
THEOREM Invariance == Spec => [](TypeOK /\ ClaimInv /\ LateInv /\ WarnedInv)
<1>1. Init => TypeOK /\ ClaimInv
  BY InitType, ClaimInvInit
<1>2. Init => LateInv /\ WarnedInv
  BY DEF Init, DBInit, WorkerInit, HistoryInit, LateInv, WarnedInv
<1>3. TypeOK /\ ClaimInv /\ LateInv /\ WarnedInv /\ [Next]_vars
        => (TypeOK /\ ClaimInv /\ LateInv /\ WarnedInv)'
  BY StepType, ClaimInvStep, LateInvStep, WarnedInvStep
<1> QED BY <1>1, <1>2, <1>3, PTL DEF Spec

\* Within one worker the deployments of a project run one at a time, however
\* many other workers share the database and whatever fails.
THEOREM OneAtATime == Spec => []WorkerSerial
<1>1. ClaimInv => WorkerSerial
  <2> SUFFICES ASSUME ClaimInv, NEW w \in Workers, NEW d \in loop[w], NEW e \in loop[w],
                      project[d] = project[e]
               PROVE  d = e
    BY DEF WorkerSerial
  <2> QED BY DEF ClaimInv, TasksCover
<1> QED BY <1>1, Invariance, PTL

\* A deployment is handed to a coroutine at most once and only out of the queue:
\* the claims of several workers, stale candidates and cancelled rows included.
THEOREM AtMostOnce == Spec => ClaimedOnce
<1> DEFINE Handed == \A d \in Deployments :
                       pc'[d] = "ready" /\ pc[d] # "ready" =>
                         pc[d] = "none" /\ status[d] = "pending"
<1>1. TypeOK /\ ClaimInv /\ [Next]_vars => [Handed]_vars
  BY StepAdvances DEF Advance
<1> QED BY <1>1, Invariance, PTL DEF Spec, ClaimedOnce

\* After the request to cancel is committed run() starts at most the one step
\* it had decided on before.
THEOREM CancelStops == Spec => []CancelStopsNewSteps
<1>1. LateInv => CancelStopsNewSteps
  BY DEF LateInv, CancelStopsNewSteps
<1> QED BY <1>1, Invariance, PTL

\* A deployment asked to stop before the last check of its run never becomes a
\* success, in particular not by a run that had begun to write its outcome.
THEOREM CancelWins == Spec => []CancelHonoured
<1>1. WarnedInv => CancelHonoured
  BY DEF WarnedInv, CancelHonoured
<1> QED BY <1>1, Invariance, PTL
=============================================================================
