------------------------------ MODULE DeployDB ------------------------------
(***************************************************************************)
(* The SQLite database, the only thing the API process and the worker      *)
(* processes share (src/backend/models.py), and the transactions they run  *)
(* on it, one operator for each.                                           *)
(*                                                                         *)
(* pysqlite opens a transaction at the first INSERT, UPDATE or DELETE and  *)
(* holds the write lock from there to the commit; a SELECT before it sees  *)
(* a snapshot of its own.  So every operator below is one atomic step, and *)
(* a handler that reads, decides and then writes is two of them, which     *)
(* DeployApi and DeployWorker keep apart.                                  *)
(*                                                                         *)
(* Columns no property speaks of (names, notes, timestamps, git SHAs,      *)
(* durations, state_version) are left out.                                 *)
(***************************************************************************)
EXTENDS Integers, Sequences

CONSTANTS
  Deployments,  \* the ids deployments.id may take, in the order of insertion
  Projects,     \* projects.id
  NoProject,    \* projects of a row that is not there yet
  StepCounts    \* how many enabled steps a project may have

ASSUME DeploymentsAssumption == Deployments \subseteq Nat \ {0}
ASSUME ProjectsAssumption    == NoProject \notin Projects
ASSUME StepCountsAssumption  == StepCounts \subseteq Nat

VARIABLES
  enabled,    \* projects.enabled
  project,    \* deployments.project_id
  status,     \* deployments.status
  exitCode,   \* deployments.exit_code
  cancelReq,  \* deployments.cancel_requested
  steps,      \* deployment_steps.status, in the order of position
  linked      \* whether deployment_steps.source_step_id still names the steps
              \* of the configuration snapshot (models.py: ON DELETE SET NULL)

tables == <<enabled, project, status, exitCode, cancelReq, steps, linked>>

Terminal   == {"success", "failed", "cancelled"}
Status     == {"absent", "pending", "running"} \cup Terminal
StepStatus == {"pending", "running"} \cup Terminal

NoDeployment == 0

\* exit_code: SQL NULL, then the codes the program itself writes.  1 also
\* stands for whatever non-zero code a failing step ended with.
NoCode == -1
Codes  == {NoCode, 0, 1, 125, 130}

Exists(d) == status[d] # "absent"

\* Rows are numbered in the order they are inserted (INTEGER PRIMARY KEY and
\* deployments are never deleted).
NextId(d) == ~ Exists(d) /\ \A e \in Deployments : e < d => Exists(e)

-----------------------------------------------------------------------------
(* Transactions.  Each says what becomes of every table.                     *)

InsertDeployment(d, p, n) ==
  /\ project'  = [project EXCEPT ![d] = p]
  /\ status'   = [status EXCEPT ![d] = "pending"]
  /\ steps'    = [steps EXCEPT ![d] = [i \in 1..n |-> "pending"]]
  /\ linked'   = [linked EXCEPT ![d] = TRUE]
  /\ UNCHANGED <<enabled, exitCode, cancelReq>>

\* Replacing the steps of a project deletes the rows its deployments' steps
\* refer to.
ReplaceProjectChildren(p, e) ==
  /\ enabled' = [enabled EXCEPT ![p] = e]
  /\ linked'  = [d \in Deployments |-> linked[d] /\ project[d] # p]
  /\ UNCHANGED <<project, status, exitCode, cancelReq, steps>>

\* The rows of a step sequence in one state, moved to another.
Move(rows, from, to) ==
  [i \in DOMAIN rows |-> IF rows[i] = from THEN to ELSE rows[i]]

CancelPendingSteps(d) ==
  /\ steps' = [steps EXCEPT ![d] = Move(@, "pending", "cancelled")]
  /\ UNCHANGED <<enabled, project, status, exitCode, cancelReq, linked>>

\* Mutant: mark_step_finished without its commit.
MarkStepUncommitted(d, i, s) ==
  /\ steps' = IF linked[d] /\ s = "running" THEN [steps EXCEPT ![d][i] = s] ELSE steps
  /\ UNCHANGED <<enabled, project, status, exitCode, cancelReq, linked>>

\* mark_step_running and mark_step_finished look the row up by source_step_id:
\* once that is NULL they touch nothing.
MarkStep(d, i, s) ==
  /\ steps' = IF linked[d] THEN [steps EXCEPT ![d][i] = s] ELSE steps
  /\ UNCHANGED <<enabled, project, status, exitCode, cancelReq, linked>>

\* Mutant: finish without its commit.
FinishUncommitted(d, s, code) ==
  /\ exitCode' = [exitCode EXCEPT ![d] = code]
  /\ UNCHANGED <<enabled, project, status, cancelReq, steps, linked>>

\* LogBroker.finish: whatever the status was, this is the outcome now.
FinishDeployment(d, s, code) ==
  /\ status'   = [status EXCEPT ![d] = s]
  /\ exitCode' = [exitCode EXCEPT ![d] = code]
  /\ UNCHANGED <<enabled, project, cancelReq, steps, linked>>

\* claim_pending's UPDATE ... WHERE status = 'pending', for the rows it hit.
ClaimRows(D) ==
  /\ status' = [d \in Deployments |-> IF d \in D THEN "running" ELSE status[d]]
  /\ UNCHANGED <<enabled, project, exitCode, cancelReq, steps, linked>>

\* Mutant: recover_stale takes whatever has left the queue.
StaleUnfiltered ==
  {d \in Deployments : status[d] \notin {"absent", "pending", "cancelled"}}

Stale == {d \in Deployments : status[d] = "running"}

\* Mutant: only the rows of the steps are recovered.
RecoverStepsOnly(D) ==
  /\ steps' = [d \in Deployments |->
                 IF d \in D THEN Move(steps[d], "running", "failed") ELSE steps[d]]
  /\ UNCHANGED <<enabled, project, status, exitCode, cancelReq, linked>>

\* recover_stale's transaction, on the rows its SELECT found running, whatever
\* they are by now.
RecoverStale(D) ==
  /\ status'   = [d \in Deployments |-> IF d \in D THEN "failed" ELSE status[d]]
  /\ exitCode' = [d \in Deployments |-> IF d \in D THEN 125 ELSE exitCode[d]]
  /\ steps'    = [d \in Deployments |->
                    IF d \in D THEN Move(steps[d], "running", "failed") ELSE steps[d]]
  /\ UNCHANGED <<enabled, project, cancelReq, linked>>

-----------------------------------------------------------------------------
DBTypeOK ==
  /\ enabled   \in [Projects -> BOOLEAN]
  /\ project   \in [Deployments -> Projects \cup {NoProject}]
  /\ status    \in [Deployments -> Status]
  /\ exitCode  \in [Deployments -> Codes]
  /\ cancelReq \in [Deployments -> BOOLEAN]
  /\ steps     \in [Deployments -> Seq(StepStatus)]
  /\ linked    \in [Deployments -> BOOLEAN]

DBInit ==
  /\ enabled   = [p \in Projects |-> TRUE]
  /\ project   = [d \in Deployments |-> NoProject]
  /\ status    = [d \in Deployments |-> "absent"]
  /\ exitCode  = [d \in Deployments |-> NoCode]
  /\ cancelReq = [d \in Deployments |-> FALSE]
  /\ steps     = [d \in Deployments |-> <<>>]
  /\ linked    = [d \in Deployments |-> FALSE]
=============================================================================
