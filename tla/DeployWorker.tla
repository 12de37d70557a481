---------------------------- MODULE DeployWorker ----------------------------
(***************************************************************************)
(* The worker process: the polling loop of worker.py, the claim and the    *)
(* recovery of services/worker_state.py and, for each deployment it        *)
(* claimed, the coroutine run() of services/deployment.py.                 *)
(*                                                                         *)
(* One process is one asyncio event loop: a coroutine that has the loop    *)
(* keeps it until its next real suspension.  Such points are few (a child  *)
(* process or a thread in execute_step, and the poll timer of the main     *)
(* loop); between two of them a coroutine makes several transactions, and  *)
(* other PROCESSES may get theirs in between, so each transaction is an    *)
(* action, while the other coroutines of the same worker wait (LoopFree).  *)
(***************************************************************************)
EXTENDS DeployDB, FiniteSets

CONSTANTS
  Workers,         \* worker processes; the README asks for one
  MaxConcurrency,  \* worker_concurrency
  ClaimFloor,      \* the least LIMIT of the claim's SELECT, 100 in the code
  Faults,          \* which failures the environment may cause
  NaiveTimes       \* whether the SQLite driver returns timestamps without zone

ASSUME FiniteProjectsAssumption == IsFiniteSet(Projects)
ASSUME MaxConcurrencyAssumption == MaxConcurrency \in Nat \ {0}
ASSUME ClaimFloorAssumption     == ClaimFloor \in Nat
ASSUME FaultsAssumption         ==
  Faults \subseteq {"crash", "env", "db", "exec", "sigint"}
ASSUME NaiveTimesAssumption     == NaiveTimes \in BOOLEAN

VARIABLES
  wstate,   \* the process and where its main coroutine is
  found,    \* the rows recover_stale read and has not committed yet
  claim,    \* the candidates claim_pending read and has not committed yet
  task,     \* tasks (and active, which always has the same projects)
  pc,       \* where run(d) is
  pos,      \* the step of the snapshot run(d) is at
  result,   \* what execute_step returned
  verdict,  \* the variables success and cancelled of run(d)
  loop      \* the deployments whose run() is under way on the worker's event loop

coroutines == <<pc, pos, result, verdict>>
process    == <<wstate, found>>
workerVars == <<process, claim, task, pc, pos, result, verdict, loop>>

\* "off": not running and not to be started by systemd; "failed": ended with
\* an error, Restart=on-failure brings it back; "recovering": in recover_stale;
\* "draining": stopped, waiting for its tasks; "dying": worker() raised,
\* asyncio.run cancels the tasks.
Down        == {"off", "failed"}
WorkerState == Down \cup {"recovering", "serving", "draining", "dying"}

\* Points of run(d) at which it has the event loop, at which it waits with the
\* loop free, and at which it is over ("raised": with an exception).
Busy     == {"check", "cancelling", "marking", "recording", "wrapup",
             "finish", "failing"}
Waiting  == {"ready", "exec", "aborting"}
Ended    == {"ended", "raised"}
Point    == {"none"} \cup Busy \cup Waiting \cup Ended

Live(d) == pc[d] \in Busy \cup Waiting

WorkerTypeOK ==
  /\ wstate  \in [Workers -> WorkerState]
  /\ found   \in [Workers -> SUBSET Deployments]
  /\ claim   \in [Workers -> SUBSET Deployments]
  /\ task    \in [Workers -> [Projects -> Deployments \cup {NoDeployment}]]
  /\ pc      \in [Deployments -> Point]
  /\ pos     \in [Deployments -> Nat]
  /\ result  \in [Deployments -> {"ok", "fail", "cancel"}]
  /\ verdict \in [Deployments -> Terminal]
  /\ loop    \in [Workers -> SUBSET Deployments]

NoTasks == [p \in Projects |-> NoDeployment]

WorkerInit ==
  /\ wstate  = [w \in Workers |-> "off"]
  /\ found   = [w \in Workers |-> {}]
  /\ claim   = [w \in Workers |-> {}]
  /\ task    = [w \in Workers |-> NoTasks]
  /\ pc      = [d \in Deployments |-> "none"]
  /\ pos     = [d \in Deployments |-> 1]
  /\ result  = [d \in Deployments |-> "ok"]
  /\ verdict = [d \in Deployments |-> "success"]
  /\ loop    = [w \in Workers |-> {}]

Held(w) == {p \in Projects : task[w][p] # NoDeployment}

\* The coroutines of D leave the body of run() for a point where its local
\* variables are not used any more: an exception handler, or the end.
Unwind(D, point) ==
  /\ pc'      = [d \in Deployments |-> IF d \in D THEN point ELSE pc[d]]
  /\ pos'     = [d \in Deployments |-> IF d \in D THEN 1 ELSE pos[d]]
  /\ result'  = [d \in Deployments |-> IF d \in D THEN "ok" ELSE result[d]]
  /\ verdict' = [d \in Deployments |-> IF d \in D THEN "success" ELSE verdict[d]]

EndRuns(D, how) ==
  /\ Unwind(D, how)
  /\ loop' = [w \in Workers |-> loop[w] \ D]

LoopFree(w) == claim[w] = {} /\ \A d \in loop[w] : pc[d] \notin Busy

-----------------------------------------------------------------------------
(* The process.                                                              *)

\* worker() up to the SELECT of recover_stale.
Boot(w) ==
  /\ wstate' = [wstate EXCEPT ![w] = "recovering"]
  /\ found'  = [found EXCEPT ![w] = Stale]
  /\ UNCHANGED <<tables, claim, task, coroutines, loop>>

\* Somebody starts the service, or systemd restarts it (Restart=on-failure).
Start(w)   == wstate[w] = "off" /\ Boot(w)
Restart(w) == wstate[w] = "failed" /\ Boot(w)

\* The process leaves recover_stale.
Recovered(w, to) ==
  /\ wstate[w] = "recovering"
  /\ wstate' = [wstate EXCEPT ![w] = to]
  /\ found'  = [found EXCEPT ![w] = {}]
  /\ UNCHANGED <<claim, task, coroutines, loop>>

\* Its transaction, and the loop begins with active and tasks empty.
Recover(w) == Recovered(w, "serving") /\ RecoverStale(found[w])

RecoverFails(w) == "db" \in Faults /\ Recovered(w, "failed") /\ UNCHANGED tables

\* SIGTERM or SIGINT: request_shutdown, and the main coroutine leaves its loop;
\* before the handler is there the signal ends the process.
Stop(w) ==
  \/ Recovered(w, "off") /\ UNCHANGED tables
  \/ /\ wstate[w] = "serving"
     /\ LoopFree(w)
     /\ wstate' = [wstate EXCEPT ![w] = "draining"]
     /\ UNCHANGED <<tables, found, claim, task, coroutines, loop>>

\* Task.cancel reaches a coroutine at the await it is suspended at.
CancelTasks(w) ==
  Unwind({d \in loop[w] : pc[d] = "exec"}, "aborting")

\* asyncio.wait gave up after SHUTDOWN_TIMEOUT: the tasks left are cancelled.
DrainTimeout(w) ==
  /\ wstate[w] = "draining"
  /\ LoopFree(w)
  /\ \A d \in loop[w] : pc[d] # "ready"
  /\ \E d \in loop[w] : pc[d] = "exec"
  /\ CancelTasks(w)
  /\ UNCHANGED <<tables, process, claim, task, loop>>

\* All tasks are over and worker() returns or raises.
Exit(w) ==
  /\ wstate[w] \in {"draining", "dying"}
  /\ loop[w] = {}
  /\ wstate' = [wstate EXCEPT ![w] = IF @ = "draining" THEN "off" ELSE "failed"]
  /\ task'   = [task EXCEPT ![w] = NoTasks]
  /\ UNCHANGED <<tables, found, claim, coroutines, loop>>

\* The process is killed (out of memory, power, TimeoutStopSec): its
\* coroutines are gone, a transaction that has not committed is rolled back.
Crash(w) ==
  /\ "crash" \in Faults
  /\ wstate[w] \notin Down
  /\ wstate' = [wstate EXCEPT ![w] = IF @ = "draining" THEN "off" ELSE "failed"]
  /\ found'  = [found EXCEPT ![w] = {}]
  /\ claim'  = [claim EXCEPT ![w] = {}]
  /\ task'   = [task EXCEPT ![w] = NoTasks]
  /\ EndRuns(loop[w], "ended")
  /\ UNCHANGED tables

-----------------------------------------------------------------------------
(* reap_done and claim_pending.                                              *)

\* The n rows with the lowest ids of a set of rows.
First(n, D) == {d \in D : Cardinality({e \in D : e < d}) < n}

ClaimWindow(n) == IF 4 * n > ClaimFloor THEN 4 * n ELSE ClaimFloor

\* Mutant: the SELECT does not leave out the projects active in this worker.
CandidatesOfActive(active, n) ==
  First(ClaimWindow(n),
        {d \in Deployments :
           /\ status[d] = "pending"
           /\ \A e \in Stale : project[e] # project[d]})

\* The SELECT: pending, in no project that is active in this worker or has a
\* running row, at most ClaimWindow(n) of them.
Candidates(active, n) ==
  First(ClaimWindow(n),
        {d \in Deployments :
           /\ status[d] = "pending"
           /\ project[d] \notin active
           /\ \A e \in Stale : project[e] # project[d]})

\* Mutant: a task that is done stays in tasks and active.
NeverReaped(w) == task[w]

\* tasks without those that are done.
Reaped(w) ==
  [p \in Projects |-> IF p \in Held(w) /\ pc[task[w][p]] \in Ended
                      THEN NoDeployment ELSE task[w][p]]

\* One turn of the polling loop up to the SELECT.  The coroutines created in
\* the turn before have had the loop since.
ClaimRead(w) ==
  LET active   == {p \in Projects : Reaped(w)[p] # NoDeployment}
      capacity == MaxConcurrency - Cardinality(active)
  IN
  /\ wstate[w] = "serving"
  /\ LoopFree(w)
  /\ \A d \in loop[w] : pc[d] # "ready"
  /\ task'  = [task EXCEPT ![w] = Reaped(w)]
  /\ claim' = [claim EXCEPT ![w] =
                 IF capacity > 0 THEN Candidates(active, capacity) ELSE {}]
  /\ UNCHANGED <<tables, process, coroutines, loop>>

\* Mutant: the UPDATE does not ask for status = 'pending'.
StillThere(D) == D

\* Going through the candidates by id: a row another process has changed is
\* passed over, a project already served in this turn too, until n are claimed.
StillPending(D) == {d \in D : status[d] = "pending"}

\* Mutants: the projects served in this turn are not remembered; the newest
\* deployment of a project goes first.
ClaimedUnreserved(D, n) == First(n, StillPending(D))

ClaimedNewest(D, n) ==
  LET hit == StillPending(D)
  IN First(n, {d \in hit : \A e \in hit : project[e] = project[d] => d >= e})

\* Mutant: the loop over the candidates does not stop at the capacity.
ClaimedUnbounded(D, n) ==
  LET hit == StillPending(D)
  IN {d \in hit : \A e \in hit : project[e] = project[d] => d <= e}

Claimed(D, n) ==
  LET hit == StillPending(D)
  IN First(n, {d \in hit : \A e \in hit : project[e] = project[d] => d <= e})

\* The UPDATEs and their commit, then one task per claimed deployment.
ClaimCommit(w) ==
  LET won == Claimed(claim[w], MaxConcurrency - Cardinality(Held(w)))
  IN
  /\ claim[w] # {}
  /\ ClaimRows(won)
  /\ claim' = [claim EXCEPT ![w] = {}]
  /\ task'  = [task EXCEPT ![w] =
                 [p \in Projects |-> IF \E d \in won : project[d] = p
                                     THEN CHOOSE d \in won : project[d] = p
                                     ELSE @[p]]]
  /\ loop'  = [loop EXCEPT ![w] = @ \cup won]
  /\ pc'    = [d \in Deployments |-> IF d \in won THEN "ready" ELSE pc[d]]
  /\ UNCHANGED <<process, pos, result, verdict>>

\* The transaction fails: claim_pending rolls back and raises, worker() raises
\* with it and asyncio.run cancels the tasks.
ClaimFails(w) ==
  /\ "db" \in Faults
  /\ claim[w] # {}
  /\ claim'  = [claim EXCEPT ![w] = {}]
  /\ wstate' = [wstate EXCEPT ![w] = "dying"]
  /\ CancelTasks(w)
  /\ UNCHANGED <<tables, found, task, loop>>

-----------------------------------------------------------------------------
(* run(d).  HasLoop: the event loop may resume it.                           *)

HasLoop(d) == \E w \in Workers : d \in loop[w] /\ LoopFree(w)

Goto(d, point) == pc' = [pc EXCEPT ![d] = point]

UnchangedWorker == UNCHANGED <<process, claim, task, loop>>

\* Mutant: the last step is left out.
LoopHeadShort(d, i) == IF i >= Len(steps[d]) THEN "wrapup" ELSE "check"

\* The head of the for loop: another step, or the end of it.
LoopHead(d, i) == IF i > Len(steps[d]) THEN "wrapup" ELSE "check"

\* project_locks: nobody else of this project is inside run() on this loop.
LockFree(d) ==
  \A w \in Workers : d \in loop[w] =>
    \A e \in loop[w] \ {d} : project[e] = project[d] => pc[e] = "ready"

\* From the first statement to the for loop; the deployment may be over by now.
RunStart(d) ==
  /\ pc[d] = "ready"
  /\ HasLoop(d)
  /\ LockFree(d)
  /\ IF status[d] = "running"
     THEN Goto(d, LoopHead(d, 1)) /\ UNCHANGED <<pos, result, verdict, loop>>
     ELSE EndRuns({d}, "ended")
  /\ UNCHANGED <<tables, process, claim, task>>

\* _build_environment cannot decrypt a secret.  It runs before the try.
EnvFails(d) ==
  /\ "env" \in Faults
  /\ pc[d] = "ready"
  /\ HasLoop(d)
  /\ LockFree(d)
  /\ status[d] = "running"
  /\ EndRuns({d}, "raised")
  /\ UNCHANGED <<tables, process, claim, task>>

\* Mutant: the request is not looked at between two steps.
CheckNothing(d) ==
  /\ pc[d] = "check"
  /\ Goto(d, "marking")
  /\ UNCHANGED <<tables, pos, result, verdict>>
  /\ UnchangedWorker

\* is_cancel_requested
CheckCancel(d) ==
  /\ pc[d] = "check"
  /\ Goto(d, IF cancelReq[d] THEN "cancelling" ELSE "marking")
  /\ UNCHANGED <<tables, pos, result, verdict>>
  /\ UnchangedWorker

\* cancel_pending_steps
CancelRest(d) ==
  /\ pc[d] = "cancelling"
  /\ CancelPendingSteps(d)
  /\ verdict' = [verdict EXCEPT ![d] = "cancelled"]
  /\ Goto(d, "wrapup")
  /\ UNCHANGED <<pos, result>>
  /\ UnchangedWorker

\* mark_step_running, then execute_step waits for its child.
MarkRunning(d) ==
  /\ pc[d] = "marking"
  /\ MarkStep(d, pos[d], "running")
  /\ Goto(d, "exec")
  /\ UNCHANGED <<pos, result, verdict>>
  /\ UnchangedWorker

\* execute_step returns: exit code 0, another code (a timeout's 124 too), or
\* 130, which it takes for a cancellation whoever caused it.
StepReturns(d) ==
  /\ pc[d] = "exec"
  /\ HasLoop(d)
  /\ \E r \in {"ok", "fail", "cancel"} :
       /\ r = "cancel" => cancelReq[d] \/ "sigint" \in Faults
       /\ result' = [result EXCEPT ![d] = r]
  /\ Goto(d, "recording")
  /\ UNCHANGED <<tables, pos, verdict>>
  /\ UnchangedWorker

\* Mutant: a status for rows that no other part of the program knows.
RowStatusUnknown(r) ==
  CASE r = "ok" -> "success" [] r = "fail" -> "error" [] r = "cancel" -> "cancelled"

RowStatus(r) ==
  CASE r = "ok" -> "success" [] r = "fail" -> "failed" [] r = "cancel" -> "cancelled"

\* mark_step_finished raises: the time it read back from the row has no zone
\* and cannot be subtracted from now().
TimeError(d) == NaiveTimes /\ linked[d]

RecordRaises(d) ==
  /\ pc[d] = "recording"
  /\ TimeError(d)
  /\ Unwind({d}, "failing")
  /\ UNCHANGED tables
  /\ UnchangedWorker

\* mark_step_finished and what run() makes of the code.
RecordStep(d) ==
  /\ pc[d] = "recording"
  /\ ~ TimeError(d)
  /\ MarkStep(d, pos[d], RowStatus(result[d]))
  /\ \/ /\ result[d] = "ok"
        /\ UNCHANGED verdict
        /\ pos' = [pos EXCEPT ![d] = @ + 1]
        /\ Goto(d, LoopHead(d, pos'[d]))
     \/ /\ result[d] = "fail"             \* continue_on_error
        /\ verdict' = [verdict EXCEPT ![d] = "failed"]
        /\ pos' = [pos EXCEPT ![d] = @ + 1]
        /\ Goto(d, LoopHead(d, pos'[d]))
     \/ /\ result[d] = "fail"
        /\ verdict' = [verdict EXCEPT ![d] = "failed"]
        /\ UNCHANGED pos
        /\ Goto(d, "wrapup")
     \/ /\ result[d] = "cancel"
        /\ verdict' = [verdict EXCEPT ![d] = "cancelled"]
        /\ UNCHANGED pos
        /\ Goto(d, "wrapup")
  /\ result' = [result EXCEPT ![d] = "ok"]
  /\ UnchangedWorker

\* Mutant: the outcome is decided without looking at the request again.
WrapUpUnchecked(d) ==
  /\ pc[d] = "wrapup"
  /\ Goto(d, "finish")
  /\ UNCHANGED <<tables, pos, result, verdict>>
  /\ UnchangedWorker

\* if cancelled or is_cancel_requested(...)
WrapUp(d) ==
  /\ pc[d] = "wrapup"
  /\ verdict' = [verdict EXCEPT ![d] = IF cancelReq[d] THEN "cancelled" ELSE @]
  /\ Goto(d, "finish")
  /\ UNCHANGED <<tables, pos, result>>
  /\ UnchangedWorker

ExitCodeOf(v) ==
  CASE v = "success" -> 0 [] v = "failed" -> 1 [] v = "cancelled" -> 130

\* broker.finish with the outcome of the run.
Finish(d) ==
  /\ pc[d] = "finish"
  /\ FinishDeployment(d, verdict[d], ExitCodeOf(verdict[d]))
  /\ EndRuns({d}, "ended")
  /\ UNCHANGED <<process, claim, task>>

\* An exception inside the try: of a transaction, or of execute_step before it
\* has a child.
RunFails(d) ==
  /\ \/ "db" \in Faults /\ pc[d] \in Busy \ {"failing"}
     \/ "exec" \in Faults /\ pc[d] = "exec" /\ HasLoop(d)
  /\ Unwind({d}, "failing")
  /\ UNCHANGED tables
  /\ UnchangedWorker

\* except Exception: finish(..., "failed", 1)
FailDeployment(d) ==
  /\ pc[d] = "failing"
  /\ FinishDeployment(d, "failed", 1)
  /\ EndRuns({d}, "ended")
  /\ UNCHANGED <<process, claim, task>>

\* except asyncio.CancelledError: finish(..., "failed", 130), raise
Abort(d) ==
  /\ pc[d] = "aborting"
  /\ HasLoop(d)
  /\ FinishDeployment(d, "failed", 130)
  /\ EndRuns({d}, "ended")
  /\ UNCHANGED <<process, claim, task>>

\* A transaction outside the try fails: the task ends with an exception that
\* reap_done logs.
TaskRaises(d) ==
  /\ "db" \in Faults
  /\ \/ pc[d] = "failing"
     \/ pc[d] \in {"ready", "aborting"} /\ HasLoop(d)
  /\ EndRuns({d}, "raised")
  /\ UNCHANGED <<tables, process, claim, task>>

-----------------------------------------------------------------------------
ProcessStep(w) ==
  \/ Recover(w)
  \/ Exit(w)
  \/ DrainTimeout(w)
  \/ ClaimRead(w)
  \/ ClaimCommit(w)

RunStep(d) ==
  \/ RunStart(d)
  \/ CheckCancel(d)
  \/ CancelRest(d)
  \/ MarkRunning(d)
  \/ StepReturns(d)
  \/ RecordStep(d)
  \/ RecordRaises(d)
  \/ WrapUp(d)
  \/ Finish(d)
  \/ FailDeployment(d)
  \/ Abort(d)

Failure ==
  \/ \E w \in Workers : Crash(w) \/ RecoverFails(w) \/ ClaimFails(w)
  \/ \E d \in Deployments : EnvFails(d) \/ RunFails(d) \/ TaskRaises(d)

WorkerNext ==
  \/ \E w \in Workers : Start(w) \/ Restart(w) \/ Stop(w) \/ ProcessStep(w)
  \/ \E d \in Deployments : RunStep(d)
  \/ Failure
=============================================================================
