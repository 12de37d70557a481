-------------------------- MODULE DeployInvariants --------------------------
(***************************************************************************)
(* The inductive invariants behind the safety properties of DeployOnline.  *)
(* Together with TypeOK each is kept by every step; the theorems about     *)
(* them are in DeploySafetyProofs, DeployQueueProofs and                   *)
(* DeployStepsProofs.                                                      *)
(***************************************************************************)
EXTENDS DeployOnline

\* Claimed or under way, a deployment is a row of the table; a row has a
\* project; a row that waits has never had a coroutine, nor was it found running.
RowsBehind ==
  /\ \A d \in Deployments : Exists(d) => project[d] \in Projects
  /\ \A d \in Deployments : status[d] \in {"absent", "pending"} => pc[d] = "none"
  /\ \A w \in Workers : \A d \in loop[w] \cup claim[w] : Exists(d)
  /\ \A w \in Workers : \A d \in found[w] : status[d] \notin {"absent", "pending"}
  /\ \A c \in Clients : req[c] # Idle => Exists(req[c].dep)

\* tasks holds exactly what the event loop has not finished, and a candidate is
\* never of a project that the worker serves.
TasksCover ==
  /\ \A w \in Workers : \A d \in loop[w] : task[w][project[d]] = d
  /\ \A w \in Workers : \A d \in claim[w], e \in loop[w] : project[d] # project[e]

\* A coroutine is on the loop of some worker until it is over.
LoopHasLive ==
  /\ \A w \in Workers : \A d \in loop[w] : Live(d)
  /\ \A d \in Deployments : Live(d) => \E w \in Workers : d \in loop[w]

ClaimInv == RowsBehind /\ TasksCover /\ LoopHasLive

\* Between the check and the start of a step no step has been started late, and
\* none is ever before the request.
LateInv ==
  \A d \in Deployments :
    /\ late[d] <= 1
    /\ pc[d] = "marking" => late[d] = 0
    /\ ~ cancelReq[d] => late[d] = 0

\* A run that was warned has decided against success before it writes the
\* outcome, and nothing but the end of a run writes a success.
WarnedInv ==
  \A d \in Deployments :
    /\ warned[d] => cancelReq[d] /\ status[d] # "success"
    /\ warned[d] /\ pc[d] = "finish" => verdict[d] # "success"
    /\ status[d] = "success" => pc[d] \in Ended

\* Rows are there without gaps, and a candidate comes with the older rows of its
\* project that still wait.
OrderInv ==
  /\ \A d, e \in Deployments : Exists(d) /\ e < d => Exists(e)
  /\ \A w \in Workers : \A d \in claim[w] : \A e \in Deployments :
       e < d /\ project[e] = project[d] /\ status[e] = "pending" => e \in claim[w]

\* A process that is down has no coroutines, one that is leaving claims nothing,
\* and a coroutine or a recovery is overtaken only by a cancellation.  One that
\* is up accounts for every running row.
ProcessInv ==
  \A w \in Workers :
    /\ wstate[w] # "serving" => claim[w] = {}
    /\ wstate[w] # "recovering" => found[w] = {}
    /\ wstate[w] \in Down \cup {"recovering"} => loop[w] = {}
    /\ \A d \in loop[w] \cup found[w] : status[d] = "running" \/ cancelReq[d]
    /\ wstate[w] \notin Down =>
         \A d \in Deployments :
           status[d] = "running" => d \in loop[w] \cup found[w] \/ pc[d] = "raised"

\* What the SELECT saw of a project holds until the commit of the claim: no row
\* of it runs.
ServedInv ==
  /\ NotOvertaken
  /\ \A w \in Workers : \A d \in claim[w] : \A e \in Deployments :
       project[e] = project[d] => status[e] # "running"

\* What ProcessInv and ServedInv, and all that follows from them, need: a second
\* worker takes the deployments of the first for those of a dead process, and
\* claims the next one of a project whose first was just claimed.
OneWorker == \A v, w \in Workers : v = w

-----------------------------------------------------------------------------
(* The rows of the steps, for any workers.                                   *)

Carried   == {"success", "failed"}      \* a step that has been carried out
Untouched == {"pending", "cancelled"}   \* one that has not been begun

\* run() is at a step, or has not come to the first.
Before == {"none", "ready", "check", "marking"}
InLoop == Before \cup {"exec", "recording"}

RowsOrdered(d) ==
  \A i, j \in DOMAIN steps[d] :
    i < j /\ steps[d][j] \notin Untouched => steps[d][i] \in Carried

\* The steps before pos have been carried out, those after it have not been
\* begun; at pos itself the row may be anything once it was marked, whatever
\* another worker has made of it.
RowsAround(d) ==
  pc[d] \in InLoop =>
    \A i \in DOMAIN steps[d] :
      /\ i < pos[d] => steps[d][i] \in Carried
      /\ i > pos[d] \/ (i = pos[d] /\ pc[d] \in Before) => steps[d][i] \in Untouched

\* success = True (services/deployment.py) speaks of the rows too.
RowsWon(d) ==
  /\ verdict[d] = "success" /\ pc[d] \in InLoop =>
       \A i \in DOMAIN steps[d] : i < pos[d] => steps[d][i] = "success"
  /\ (verdict[d] = "success" /\ pc[d] \in {"wrapup", "finish"}) \/ status[d] = "success" =>
       \A i \in DOMAIN steps[d] : steps[d][i] = "success"

\* As long as the rows of d can be found by the step they came from.
RowsInv ==
  \A d \in Deployments :
    /\ pc[d] \in {"none", "ready"} => pos[d] = 1
    /\ status[d] = "success" => exitCode[d] = 0
    /\ linked[d] => RowsOrdered(d) /\ RowsAround(d) /\ RowsWon(d)

-----------------------------------------------------------------------------
(* Capacity, for any workers.                                                *)

\* There is a last row: what the claim reads is a finite set.
TableBounded ==
  \E n \in Deployments \cup {NoDeployment} : \A d \in Deployments : Exists(d) => d <= n

\* tasks never has more projects than the worker may serve at once; since it
\* covers the coroutines, neither are they more.
CapacityInv ==
  /\ TableBounded
  /\ \A w \in Workers : Cardinality(Held(w)) <= MaxConcurrency
=============================================================================
