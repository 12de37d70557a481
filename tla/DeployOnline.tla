---------------------------- MODULE DeployOnline ----------------------------
(***************************************************************************)
(* The API process and the workers over one database, what must hold of    *)
(* the deployments they drive, and two history variables that remember     *)
(* when a deployment was asked to stop.                                    *)
(***************************************************************************)
EXTENDS DeployApi, DeployWorker

VARIABLES
  warned,  \* whether d was asked to stop before its run had made its last check
           \* (or had even begun)
  late     \* how many steps of d were started after it was asked to stop

vars == <<tables, req, workerVars, warned, late>>

PastLastCheck(d) == pc[d] \in {"finish"} \cup Ended

HistoryInit ==
  /\ warned = [d \in Deployments |-> FALSE]
  /\ late   = [d \in Deployments |-> 0]

HistoryNext ==
  /\ warned' = [d \in Deployments |->
                  warned[d] \/ (cancelReq'[d] /\ ~ PastLastCheck(d))]
  /\ late'   = [d \in Deployments |->
                  IF cancelReq[d] /\ pc[d] = "marking" /\ pc'[d] = "exec"
                  THEN late[d] + 1 ELSE late[d]]

Init == DBInit /\ ApiInit /\ WorkerInit /\ HistoryInit

Next ==
  /\ \/ ApiNext /\ UNCHANGED workerVars
     \/ WorkerNext /\ UNCHANGED req
  /\ HistoryNext

Spec == Init /\ [][Next]_vars

Act(A) == A /\ UNCHANGED req /\ HistoryNext

Fairness ==
  /\ \A w \in Workers : WF_vars(Act(ProcessStep(w))) /\ WF_vars(Act(Restart(w)))
  /\ \A d \in Deployments : WF_vars(Act(RunStep(d)))

FairSpec == Spec /\ Fairness

-----------------------------------------------------------------------------
\* Every variable stays within its type.
TypeOK ==
  /\ DBTypeOK
  /\ ApiTypeOK
  /\ WorkerTypeOK
  /\ warned \in [Deployments -> BOOLEAN]
  /\ late   \in [Deployments -> Nat]

\* Within one worker no two deployments of a project are under way at once
\* (claim_pending's docstring).
WorkerSerial ==
  \A w \in Workers : \A d, e \in loop[w] : d # e => project[d] # project[e]

\* No two deployments of a project are under way at once, whichever workers run
\* them ("even if several workers were started by mistake").
ProjectSerial ==
  \A d, e \in Deployments :
    d # e /\ Live(d) /\ Live(e) => project[d] # project[e]

\* While a deployment is under way every older one of its project has its final
\* status: none waits, and none was left running when a coroutine died.  (The
\* order of claim_pending's SELECT and the projects it leaves out.)
NotOvertaken ==
  \A d, e \in Deployments :
    e < d /\ project[e] = project[d] /\ Live(d) => status[e] \in Terminal

\* A worker never has more deployments under way than MAX_CONCURRENCY.
BoundedConcurrency ==
  \A w \in Workers : Cardinality(loop[w]) <= MaxConcurrency

\* A deployment succeeds only with exit code 0 and, while its rows can still be
\* found, with every step's row a success.
SuccessHonest ==
  \A d \in Deployments : status[d] = "success" =>
    /\ exitCode[d] = 0
    /\ linked[d] => \A i \in DOMAIN steps[d] : steps[d][i] = "success"

\* A step's row leaves "pending" only when every earlier step has been carried
\* out, or when the rest of the deployment was cancelled.
StepsInOrder ==
  \A d \in Deployments : linked[d] =>
    \A i, j \in DOMAIN steps[d] :
      i < j /\ steps[d][j] \in {"running", "success", "failed"} =>
        steps[d][i] \in {"success", "failed"}

\* After the cancel request is committed run() starts at most the one step it
\* had already decided on.
CancelStopsNewSteps == \A d \in Deployments : late[d] <= 1

\* A deployment that was asked to stop before the last check of its run never
\* ends as a success.
CancelHonoured ==
  \A d \in Deployments : warned[d] => status[d] # "success"

\* While the worker serves, each running row has a coroutine behind it, and
\* the only exception is one whose task has raised.
RunningIsOwned ==
  \A w \in Workers : wstate[w] = "serving" =>
    \A d \in Deployments : status[d] = "running" =>
      d \in loop[w] \/ pc[d] = "raised"

\* A success leaves a row for each step of the snapshot that says success,
\* whatever was done to the project meanwhile (README: the snapshot is saved
\* before the deployment, later changes of the project do not affect history).
HistoryIsKept ==
  \A d \in Deployments : status[d] = "success" =>
    \A i \in DOMAIN steps[d] : steps[d][i] = "success"

\* A deployment that ends with the code of a failure has a step that failed
\* (README: each step has its own failure policy).
OnlyStepsFail ==
  \A d \in Deployments : status[d] = "failed" /\ exitCode[d] = 1 =>
    \E i \in DOMAIN steps[d] : steps[d][i] = "failed"

\* While the worker serves, a step's row says running only if its deployment is
\* under way (recover_stale: recovers the deployments AND STEPS left running).
StepsRecovered ==
  \A w \in Workers : wstate[w] = "serving" =>
    \A d \in Deployments : ~ Live(d) =>
      \A i \in DOMAIN steps[d] : steps[d][i] # "running"

\* A deployment is handed to a coroutine at most once, and only out of the
\* queue: what was cancelled while pending is never run.
ClaimedOnce ==
  [][\A d \in Deployments :
       pc'[d] = "ready" /\ pc[d] # "ready" =>
         pc[d] = "none" /\ status[d] = "pending"]_vars

\* The outcome of a deployment is final, unless it was asked to stop.
OutcomeIsFinal ==
  [][\A d \in Deployments :
       status[d] \in Terminal /\ status'[d] # status[d] =>
         cancelReq'[d] /\ status'[d] \in Terminal]_vars

\* Deployments of one project are claimed in the order they were asked for.
ClaimedInOrder ==
  [][\A d, e \in Deployments :
       /\ e < d /\ project[e] = project[d]
       /\ status[e] = "pending" /\ status[d] = "pending"
       => status'[d] # "running"]_vars

-----------------------------------------------------------------------------
\* What a user sees of a deployment: it waits while its row says so, and it is
\* under way while there is a coroutine for it, whatever the row says.
Phase(d) ==
  CASE status[d] = "absent"  -> "absent"
    [] status[d] = "pending" -> "queued"
    [] Live(d)               -> "executing"
    [] OTHER                 -> "over"

Queue ==
  INSTANCE SerialQueue WITH
    Jobs <- Deployments, Owners <- Projects, NoOwner <- NoProject,
    owner <- project, phase <- [d \in Deployments |-> Phase(d)]

\* With one worker the system implements a queue per project that is served one
\* deployment at a time, in order, each at most once.
ImplementsQueue == Queue!QSpec

-----------------------------------------------------------------------------
AllOff == \A w \in Workers : wstate[w] = "off"

\* The process is not killed over and over.
CrashesEnd == <>[][\A w \in Workers : ~ Crash(w)]_vars

\* A deployment that waits is taken up (or cancelled), unless the worker was
\* stopped and nobody starts it again.
PendingIsServed ==
  CrashesEnd => \A d \in Deployments :
                  status[d] = "pending" ~> (status[d] # "pending" \/ AllOff)

\* A deployment that is taken up comes to an end: by its run, or by the recovery
\* of a restarted worker.
RunningEnds ==
  CrashesEnd => \A d \in Deployments :
                  status[d] = "running" ~> (status[d] \in Terminal \/ AllOff)
=============================================================================
