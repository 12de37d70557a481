---------------------------- MODULE SerialQueue -----------------------------
(***************************************************************************)
(* What the platform promises its users about the deployments they ask     *)
(* for, without a database, a claim or an event loop: each project has a   *)
(* queue; its deployments are carried out one at a time and in the order   *)
(* they were asked for; each is carried out at most once; one that is      *)
(* withdrawn while it waits is never carried out; what is over stays over. *)
(***************************************************************************)
EXTENDS Naturals

CONSTANTS
  Jobs,    \* numbers, in the order in which deployments are asked for
  Owners,  \* projects
  NoOwner  \* projects of a deployment nobody has asked for yet

VARIABLES
  owner,  \* the project a deployment belongs to
  phase   \* what has become of it

qvars == <<owner, phase>>

Phase == {"absent", "queued", "executing", "over"}

QTypeOK ==
  /\ owner \in [Jobs -> Owners \cup {NoOwner}]
  /\ phase \in [Jobs -> Phase]

QInit ==
  /\ owner = [j \in Jobs |-> NoOwner]
  /\ phase = [j \in Jobs |-> "absent"]

Turn(D, to) == phase' = [j \in Jobs |-> IF j \in D THEN to ELSE phase[j]]

\* A deployment joins the queue of its project, behind all there are.
Submit(j, p) ==
  /\ phase[j] = "absent"
  /\ \A i \in Jobs : i < j => phase[i] # "absent"
  /\ owner' = [owner EXCEPT ![j] = p]
  /\ Turn({j}, "queued")

\* Some projects that are idle start the deployment at the head of their queue.
Head(j) ==
  /\ phase[j] = "queued"
  /\ \A i \in Jobs : owner[i] = owner[j] =>
       /\ phase[i] # "executing"
       /\ i < j => phase[i] # "queued"

Begin(D) ==
  /\ \A j \in D : Head(j)
  /\ Turn(D, "executing")
  /\ UNCHANGED owner

\* A waiting deployment is withdrawn.
Withdraw(j) ==
  /\ phase[j] = "queued"
  /\ Turn({j}, "over")
  /\ UNCHANGED owner

\* Deployments end: one alone, or several with the process that ran them.
End(D) ==
  /\ \A j \in D : phase[j] = "executing"
  /\ Turn(D, "over")
  /\ UNCHANGED owner

QNext ==
  \/ \E j \in Jobs, p \in Owners : Submit(j, p)
  \/ \E D \in SUBSET Jobs : Begin(D) \/ End(D)
  \/ \E j \in Jobs : Withdraw(j)

QSpec == QInit /\ [][QNext]_qvars
=============================================================================
