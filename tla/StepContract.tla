---------------------------- MODULE StepContract ----------------------------
(***************************************************************************)
(* What run() counts on when it awaits execute_step: it comes back with an *)
(* exit code at most once, it says "cancelled" only with a cause, it lets  *)
(* a cancellation of the task through only when there was one, and it may  *)
(* raise.  These are the outcomes of the actions StepReturns, CancelTasks  *)
(* and RunFails of DeployWorker.                                           *)
(***************************************************************************)
VARIABLES
  asked,        \* deployments.cancel_requested
  interrupted,  \* the command ended with 130 by itself
  stopped,      \* Task.cancel was called
  outcome       \* what the awaiting coroutine got

cvars == <<asked, interrupted, stopped, outcome>>

CInit == /\ asked \in BOOLEAN /\ interrupted = FALSE
         /\ stopped = FALSE /\ outcome = "none"

Ask == asked' = TRUE /\ UNCHANGED <<interrupted, stopped, outcome>>

Interrupt ==
  /\ outcome = "none" /\ interrupted' = TRUE
  /\ UNCHANGED <<asked, stopped, outcome>>

Stop ==
  /\ outcome = "none" /\ ~ stopped
  /\ stopped' = TRUE /\ outcome' \in {"none", "abort"}
  /\ UNCHANGED <<asked, interrupted>>

Return(r) ==
  /\ outcome = "none"
  /\ r = "cancel" => asked \/ interrupted
  /\ r = "abort" => stopped
  /\ outcome' = r
  /\ UNCHANGED <<asked, interrupted, stopped>>

CNext ==
  \/ Ask \/ Interrupt \/ Stop
  \/ \E r \in {"ok", "fail", "cancel", "abort", "raise"} : Return(r)

CSpec == CInit /\ [][CNext]_cvars
=============================================================================
