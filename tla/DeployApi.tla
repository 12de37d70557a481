----------------------------- MODULE DeployApi ------------------------------
(***************************************************************************)
(* The handlers of the API process that change deployments:                *)
(* routers/deployments.py (deploy, cancel, retry) and the project update   *)
(* of routers/projects.py.  FastAPI runs each request in a thread of its   *)
(* own, with a session of its own: a request is a client here.  The        *)
(* caller has passed the role and membership checks.                       *)
(*                                                                         *)
(* cancel_deployment decides on the status it read before its transaction  *)
(* began, so it is a read and a commit with anything in between.  deploy,  *)
(* retry and update_project are one action each.  deploy too reads the     *)
(* project before its transaction, but an update in between changes only   *)
(* what these modules do not look into: the contents of the snapshot, that *)
(* the insert may be refused, and that a project just disabled is still    *)
(* deployed once (no passing run disables one).                            *)
(***************************************************************************)
EXTENDS DeployDB

CONSTANTS
  Clients,   \* the request threads that may be in cancel_deployment
  EnabledTo  \* the values a project update may give the enabled flag

ASSUME EnabledToAssumption == EnabledTo \subseteq BOOLEAN

VARIABLE req        \* what each of them read: the deployment and its status

Idle    == [dep |-> NoDeployment, seen |-> "pending"]
Request == [dep : Deployments, seen : {"pending", "running"}]

ApiTypeOK == req \in [Clients -> Request \cup {Idle}]

ApiInit == req = [c \in Clients |-> Idle]

-----------------------------------------------------------------------------
\* deploy: a row for the deployment and one per enabled step of the project.
Deploy(p) ==
  /\ enabled[p]
  /\ \E d \in Deployments, n \in StepCounts :
       /\ NextId(d)
       /\ InsertDeployment(d, p, n)
  /\ UNCHANGED req

\* retry_deployment: a new row with the snapshot of the old one.  When the
\* steps of that snapshot are gone from the steps table, and their ids have not
\* been given to other steps since, the insert breaks the foreign key and the
\* request ends with nothing written.
Retry(old) ==
  /\ status[old] \in {"failed", "cancelled"}
  /\ \E d \in Deployments :
       /\ NextId(d)
       /\ InsertDeployment(d, project[old], Len(steps[old]))
  /\ UNCHANGED req

\* cancel_deployment, up to the check of the status it read.
CancelRead(c, d) ==
  /\ req[c] = Idle
  /\ status[d] \in {"pending", "running"}
  /\ req' = [req EXCEPT ![c] = [dep |-> d, seen |-> status[d]]]
  /\ UNCHANGED tables

\* The rest of it, one transaction: a deployment it saw pending is over, one it
\* saw running is only asked to stop.
CancelCommit(c) ==
  LET d == req[c].dep
      WasPending == req[c].seen = "pending"
  IN
  /\ req[c] # Idle
  /\ cancelReq' = [cancelReq EXCEPT ![d] = TRUE]
  /\ status'    = IF WasPending THEN [status EXCEPT ![d] = "cancelled"] ELSE status
  /\ exitCode'  = IF WasPending THEN [exitCode EXCEPT ![d] = 130] ELSE exitCode
  /\ steps'     = IF WasPending
                  THEN [steps EXCEPT ![d] = Move(@, "pending", "cancelled")]
                  ELSE steps
  /\ req' = [req EXCEPT ![c] = Idle]
  /\ UNCHANGED <<enabled, project, linked>>

\* update_project: the project's steps are replaced, its enabled flag set.
EditProject(p) ==
  /\ \E e \in EnabledTo : ReplaceProjectChildren(p, e)
  /\ UNCHANGED req

\* The API process dies or is restarted: its requests end where they are.
ApiRestart ==
  /\ req' = [c \in Clients |-> Idle]
  /\ UNCHANGED tables

ApiNext ==
  \/ \E p \in Projects : Deploy(p)
  \/ \E d \in Deployments : Retry(d)
  \/ \E c \in Clients, d \in Deployments : CancelRead(c, d)
  \/ \E c \in Clients : CancelCommit(c)
  \/ \E p \in Projects : EditProject(p)
  \/ ApiRestart
=============================================================================
