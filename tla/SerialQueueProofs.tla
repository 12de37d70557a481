-------------------------- MODULE SerialQueueProofs --------------------------
(***************************************************************************)
(* What the queue of SerialQueue comes to, seen from outside: while a      *)
(* deployment is carried out everything asked for before it, of the same   *)
(* project, is over.  Its actions only look at who is at the head; that    *)
(* nobody is overtaken or doubled later needs an induction over the steps. *)
(* By ImplementsQueue this is what the system does with one worker.        *)
(***************************************************************************)
EXTENDS SerialQueue, TLAPS

\* Nobody joins a queue behind one that was asked for later, and nobody is
\* carried out before, or beside, an older one of the same project.
NoGaps == \A i, j \in Jobs : i < j /\ phase[j] # "absent" => phase[i] # "absent"

InTurn ==
  \A i, j \in Jobs :
    i < j /\ owner[i] = owner[j] /\ phase[j] = "executing" => phase[i] = "over"

QInv == QTypeOK /\ NoGaps /\ InTurn

\* A step that ends or withdraws jobs, or begins the heads of some queues.
LEMMA TurnKeeps ==
  ASSUME QInv, NEW D \in SUBSET Jobs, NEW to \in {"executing", "over"},
         Turn(D, to), UNCHANGED owner,
         \A j \in D : phase[j] # "absent",
         to = "executing" => \A j \in D : Head(j)
  PROVE  QInv'
<1> USE DEF QInv, QTypeOK, Phase
<1>1. \A j \in Jobs : phase'[j] = IF j \in D THEN to ELSE phase[j]
  BY DEF Turn
<1>2. QTypeOK' /\ NoGaps'
  BY <1>1 DEF Turn, NoGaps
<1>3. ASSUME NEW i \in Jobs, NEW j \in Jobs,
             i < j, owner[i] = owner[j], phase'[j] = "executing"
      PROVE  phase'[i] = "over"
  <2>1. CASE j \notin D
    <3>1. phase[i] = "over"
      BY <1>1, <1>3, <2>1 DEF InTurn
    <3>2. i \in D => to = "over"
      BY <3>1 DEF Head
    <3> QED BY <1>1, <3>1, <3>2
  <2>2. CASE j \in D
    <3>1. to = "executing" /\ Head(j)
      BY <1>1, <1>3, <2>2
    <3>2. phase[i] \notin {"executing", "queued"} /\ phase[j] = "queued"
      BY <1>3, <3>1 DEF Head
    <3>3. phase[i] = "over"
      BY <1>3, <3>2 DEF NoGaps
    <3> QED BY <1>1, <3>1, <3>3 DEF Head
  <2> QED BY <2>1, <2>2
<1> QED BY <1>2, <1>3 DEF InTurn

\* A new job is the last of its queue.
LEMMA SubmitKeeps ==
  ASSUME QInv, NEW j \in Jobs, NEW p \in Owners, Submit(j, p)
  PROVE  QInv'
<1> USE DEF QInv, QTypeOK, Phase
<1>1. /\ phase[j] = "absent" /\ \A i \in Jobs : i < j => phase[i] # "absent"
      /\ \A i \in Jobs : phase'[i] = IF i = j THEN "queued" ELSE phase[i]
      /\ \A i \in Jobs : owner'[i] = IF i = j THEN p ELSE owner[i]
  BY DEF Submit, Turn
<1>2. QTypeOK' /\ NoGaps'
  BY <1>1 DEF Submit, Turn, NoGaps
<1>3. InTurn'
  BY <1>1 DEF NoGaps, InTurn
<1> QED BY <1>2, <1>3

\* QInv is inductive.
LEMMA QueueInvariance == QSpec => []QInv
<1>1. QInit => QInv
  BY DEF QInit, QInv, QTypeOK, Phase, NoGaps, InTurn
<1>2. QInv /\ [QNext]_qvars => QInv'
  <2> SUFFICES ASSUME QInv, [QNext]_qvars PROVE QInv'
    OBVIOUS
  <2>1. ASSUME NEW j \in Jobs, NEW p \in Owners, Submit(j, p) PROVE QInv'
    BY <2>1, SubmitKeeps
  <2>2. ASSUME NEW D \in SUBSET Jobs, Begin(D) PROVE QInv'
    BY <2>2, TurnKeeps DEF Begin, Head
  <2>3. ASSUME NEW D \in SUBSET Jobs, End(D) PROVE QInv'
    BY <2>3, TurnKeeps DEF End
  <2>4. ASSUME NEW j \in Jobs, Withdraw(j) PROVE QInv'
    <3>1. {j} \in SUBSET Jobs
      OBVIOUS
    <3> QED BY <2>4, <3>1, TurnKeeps DEF Withdraw
  <2>5. CASE UNCHANGED qvars
    BY <2>5 DEF qvars, QInv, QTypeOK, NoGaps, InTurn
  <2> QED BY <2>1, <2>2, <2>3, <2>4, <2>5 DEF QNext
<1> QED BY <1>1, <1>2, PTL DEF QSpec

\* While a job is carried out, everything its owner asked for before is over.
THEOREM QueueInTurn == QSpec => []InTurn
<1>1. QInv => InTurn
  BY DEF QInv
<1> QED BY <1>1, QueueInvariance, PTL

\* The jobs of an owner are carried out one at a time, when jobs are numbers.
THEOREM QueueSerial ==
  ASSUME Jobs \subseteq Nat
  PROVE  QSpec => [](\A i, j \in Jobs :
                       i # j /\ phase[i] = "executing" /\ phase[j] = "executing" =>
                         owner[i] # owner[j])
<1>1. QInv => \A i, j \in Jobs :
                i # j /\ phase[i] = "executing" /\ phase[j] = "executing" =>
                  owner[i] # owner[j]
  <2> SUFFICES ASSUME QInv, NEW i \in Jobs, NEW j \in Jobs, i # j,
                      phase[i] = "executing", phase[j] = "executing", owner[i] = owner[j]
               PROVE  FALSE
    OBVIOUS
  <2>1. i < j \/ j < i
    OBVIOUS
  <2> QED BY <2>1 DEF QInv, InTurn
<1> QED BY <1>1, QueueInvariance, PTL
=============================================================================
