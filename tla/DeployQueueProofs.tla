-------------------------- MODULE DeployQueueProofs --------------------------
(***************************************************************************)
(* Theorems about the order in which deployments are served, for any       *)
(* workers, and about what holds with the one worker the README asks for:  *)
(* a project's deployments run one at a time across the whole system,      *)
(* outcomes are final, every running row is owned, and DeployOnline        *)
(* implements SerialQueue.                                                 *)
(***************************************************************************)
EXTENDS DeploySafetyProofs, FiniteSetTheorems

-----------------------------------------------------------------------------
(* The order of the claim.                                                   *)

\* Of a set of rows the claim reads an initial segment.
LEMMA FirstIsInitial ==
  ASSUME NEW D \in SUBSET Deployments, NEW n \in Nat,
         NEW d \in First(n, D), NEW e \in D, e < d
  PROVE  e \in First(n, D)
<1> DEFINE below(x) == {y \in D : y < x}
<1>1. d \in Nat /\ e \in Nat /\ d \in D /\ Cardinality(below(d)) < n
  BY DeploymentsAssumption DEF First
<1>n. \A x \in D : x \in Nat
  BY DeploymentsAssumption
<1>i. IsFiniteSet(0..d)
  BY <1>1, FS_Interval
<1>2. below(d) \subseteq 0..d
  <2> SUFFICES ASSUME NEW x \in D, x < d PROVE x \in 0..d
    OBVIOUS
  <2> QED BY <1>1, <1>n
<1>3. IsFiniteSet(below(d))
  BY <1>i, <1>2, FS_Subset
<1>4. below(e) \subseteq below(d)
  <2> SUFFICES ASSUME NEW x \in D, x < e PROVE x < d
    OBVIOUS
  <2> QED BY <1>1, <1>n
<1>5. Cardinality(below(e)) <= Cardinality(below(d))
  BY <1>3, <1>4, FS_Subset
<1>6. Cardinality(below(d)) \in Nat /\ Cardinality(below(e)) \in Nat
  BY <1>3, <1>4, FS_Subset, FS_CardinalityType
<1> QED BY <1>1, <1>5, <1>6 DEF First

\* A candidate comes with the older rows of its project that wait.
LEMMA CandidatesInOrder ==
  ASSUME TypeOK, NEW active, NEW n \in Nat, NEW d \in Candidates(active, n),
         NEW e \in Deployments, e < d, project[e] = project[d], status[e] = "pending"
  PROVE  e \in Candidates(active, n)
<1> DEFINE D == {x \in Deployments :
                   /\ status[x] = "pending"
                   /\ project[x] \notin active
                   /\ \A y \in Stale : project[y] # project[x]}
<1>1. d \in D
  BY FirstSubset DEF Candidates
<1>2. e \in D
  BY <1>1
<1>3. ClaimWindow(n) \in Nat
  BY ClaimFloorAssumption DEF ClaimWindow
<1> QED BY <1>2, <1>3, FirstIsInitial DEF Candidates

\* What a step does to the rows: one joins the queue, or some leave it.
LEMMA StepRows ==
  ASSUME TypeOK, ClaimInv, Next
  PROVE  \/ \E d \in Deployments : InsertShape(d) /\ UNCHANGED workerVars
         \/ Onwards /\ UNCHANGED project
<1> USE DEF TypeOK, DBTypeOK, WorkerTypeOK
<1>1. CASE ApiNext /\ UNCHANGED workerVars
  BY <1>1, ApiShapes
     DEF ClaimInv, CancelShape, ReadShape, OtherShape, Onwards
<1>2. ASSUME NEW d \in Deployments,
             RunStep(d) \/ EnvFails(d) \/ RunFails(d) \/ TaskRaises(d)
      PROVE  Onwards /\ UNCHANGED project
  <2>1. RunShape(d)
    BY <1>2, RunShapes
  <2>2. Exists(d)
    BY <2>1, Points DEF RunShape, Live, ClaimInv, RowsBehind, Exists
  <2> QED BY <2>1, <2>2 DEF Onwards, RunShape, Terminal
<1>3. ASSUME NEW w \in Workers, ClaimRead(w)
      PROVE  Onwards /\ UNCHANGED project
  BY <1>3 DEF ClaimRead, tables, Onwards
<1>4. ASSUME NEW w \in Workers, ClaimCommit(w)
      PROVE  Onwards /\ UNCHANGED project
  BY <1>4, ClaimWon DEF ClaimShape, Onwards, Exists
<1>5. ASSUME NEW w \in Workers,
             \/ Start(w) \/ Restart(w) \/ Stop(w) \/ Recover(w) \/ DrainTimeout(w)
             \/ Exit(w) \/ Crash(w) \/ RecoverFails(w) \/ ClaimFails(w)
      PROVE  Onwards /\ UNCHANGED project
  BY <1>5, ProcessShrinks
<1> QED BY <1>1, <1>2, <1>3, <1>4, <1>5 DEF Next, WorkerNext, ProcessStep, Failure

\* What a step does to the candidates of a worker.
LEMMA StepClaims ==
  ASSUME TypeOK, ClaimInv, Next, NEW w \in Workers
  PROVE  claim'[w] \in {claim[w], {}} \/ ClaimRead(w)
<1> USE DEF TypeOK, WorkerTypeOK
<1>1. CASE ApiNext /\ UNCHANGED workerVars
  BY <1>1 DEF workerVars, process
<1>2. ASSUME NEW d \in Deployments,
             RunStep(d) \/ EnvFails(d) \/ RunFails(d) \/ TaskRaises(d)
      PROVE  claim'[w] = claim[w]
  BY <1>2, RunShapes DEF RunShape
<1>3. ASSUME NEW v \in Workers, ClaimRead(v)
      PROVE  claim'[w] = claim[w] \/ ClaimRead(w)
  BY <1>3 DEF ClaimRead
<1>4. ASSUME NEW v \in Workers, ClaimCommit(v)
      PROVE  claim'[w] \in {claim[w], {}}
  BY <1>4, ClaimWon DEF ClaimShape
<1>5. ASSUME NEW v \in Workers,
             \/ Start(v) \/ Restart(v) \/ Stop(v) \/ Recover(v) \/ DrainTimeout(v)
             \/ Exit(v) \/ Crash(v) \/ RecoverFails(v) \/ ClaimFails(v)
      PROVE  claim'[w] \in {claim[w], {}}
  BY <1>5, ProcessShrinks DEF Shrinks
<1> QED BY <1>1, <1>2, <1>3, <1>4, <1>5 DEF Next, WorkerNext, ProcessStep, Failure

\* So does a row that the SELECT of a worker's turn has found.
LEMMA ReadInOrder ==
  ASSUME TypeOK, NEW w \in Workers, ClaimRead(w), NEW d \in claim'[w],
         NEW e \in Deployments, e < d, project[e] = project[d], status[e] = "pending"
  PROVE  e \in claim'[w]
<1> DEFINE active   == {p \in Projects : Reaped(w)[p] # NoDeployment}
           capacity == MaxConcurrency - Cardinality(active)
<1>1. claim'[w] = IF capacity > 0 THEN Candidates(active, capacity) ELSE {}
  BY DEF ClaimRead, TypeOK, WorkerTypeOK
<1>2. Cardinality(active) \in Nat
  BY FiniteProjectsAssumption, FS_Subset, FS_CardinalityType
<1> HIDE DEF active
<1>3. capacity > 0 /\ capacity \in Nat /\ d \in Candidates(active, capacity)
  BY <1>1, <1>2, MaxConcurrencyAssumption
<1> QED BY <1>1, <1>3, CandidatesInOrder

\* OrderInv is inductive, given the types and ClaimInv.
LEMMA OrderInvStep ==
  ASSUME TypeOK, ClaimInv, OrderInv, [Next]_vars
  PROVE  OrderInv'
<1> USE DEF TypeOK, DBTypeOK, WorkerTypeOK
<1>1. ASSUME NEW x \in Deployments, InsertShape(x), UNCHANGED workerVars
      PROVE  OrderInv'
  <2>1. /\ status[x] = "absent"
        /\ \A e \in Deployments : e < x => Exists(e)
        /\ \A e \in Deployments \ {x} : project'[e] = project[e] /\ status'[e] = status[e]
        /\ status'[x] = "pending"
    BY <1>1 DEF InsertShape, NextId, Exists
  <2>2. ASSUME NEW d \in Deployments, NEW e \in Deployments, status'[d] # "absent", e < d
        PROVE  status'[e] # "absent"
    BY <2>1, <2>2 DEF OrderInv, Exists
  <2>3. ASSUME NEW w \in Workers, NEW d \in claim[w], NEW e \in Deployments,
               e < d, project'[e] = project'[d], status'[e] = "pending"
        PROVE  e \in claim[w]
    <3>1. Exists(d) /\ d # x
      BY <2>1 DEF ClaimInv, RowsBehind, Exists
    <3>2. e # x
      BY <2>1, <2>3, <3>1 DEF OrderInv, Exists
    <3> QED BY <2>1, <2>3, <3>1, <3>2 DEF OrderInv
  <2>4. \A d, e \in Deployments : Exists(d)' /\ e < d => Exists(e)'
    BY <2>2 DEF Exists
  <2> QED BY <1>1, <2>3, <2>4 DEF OrderInv, workerVars, process
<1>2. ASSUME Next, Onwards, UNCHANGED project
      PROVE  OrderInv'
  <2>1. \A d \in Deployments : Exists(d)' <=> Exists(d)
    BY <1>2 DEF Onwards, Exists
  <2>2. \A d \in Deployments : status'[d] = "pending" => status[d] = "pending"
    BY <1>2 DEF Onwards
  <2>3. ASSUME NEW w \in Workers, NEW d \in claim'[w], NEW e \in Deployments,
               e < d, project[e] = project[d], status'[e] = "pending"
        PROVE  e \in claim'[w]
    <3>1. status[e] = "pending"
      BY <2>2, <2>3
    <3>2. CASE claim'[w] \in {claim[w], {}}
      BY <2>3, <3>1, <3>2 DEF OrderInv
    <3>3. CASE ClaimRead(w)
      BY <2>3, <3>1, <3>3, ReadInOrder
    <3> QED BY <1>2, <3>2, <3>3, StepClaims
  <2>4. \A d, e \in Deployments : Exists(d)' /\ e < d => Exists(e)'
    BY <2>1 DEF OrderInv
  <2> QED BY <1>2, <2>3, <2>4 DEF OrderInv
<1>3. CASE UNCHANGED vars
  BY <1>3 DEF OrderInv, Exists, vars, tables, workerVars, process
<1> QED BY <1>1, <1>2, <1>3, StepRows

\* What the process does to the rows, it does with a claim and the recovery.
LEMMA RowsUntouched ==
  ASSUME NEW w \in Workers,
         \/ Start(w) \/ Restart(w) \/ Stop(w) \/ DrainTimeout(w) \/ Exit(w)
         \/ ClaimRead(w) \/ Crash(w) \/ RecoverFails(w) \/ ClaimFails(w)
  PROVE  UNCHANGED tables
<1>1. CASE Start(w) \/ Restart(w) \/ Exit(w) \/ ClaimRead(w)
  BY <1>1 DEF Start, Restart, Boot, Exit, ClaimRead
<1>2. CASE Stop(w) \/ RecoverFails(w)
  BY <1>2 DEF Stop, RecoverFails
<1>3. CASE DrainTimeout(w) \/ Crash(w) \/ ClaimFails(w)
  BY <1>3 DEF DrainTimeout, Crash, ClaimFails
<1> QED BY <1>1, <1>2, <1>3

\* Only a claim takes a row out of the queue and makes it run.
LEMMA StartsByClaim ==
  ASSUME TypeOK, ClaimInv, Next, NEW d \in Deployments,
         status[d] = "pending", status'[d] = "running"
  PROVE  \E w \in Workers : \E won \in SUBSET claim[w] : ClaimShape(w, won) /\ d \in won
<1> USE DEF TypeOK, DBTypeOK, WorkerTypeOK
<1>1. ASSUME ApiNext, UNCHANGED workerVars PROVE FALSE
  BY <1>1, ApiShapes
     DEF ClaimInv, InsertShape, CancelShape, ReadShape, OtherShape
<1>2. ASSUME NEW x \in Deployments,
             RunStep(x) \/ EnvFails(x) \/ RunFails(x) \/ TaskRaises(x)
      PROVE  FALSE
  <2>1. RunShape(x)
    BY <1>2, RunShapes
  <2>2. x # d
    BY <2>1, Points DEF RunShape, Live, ClaimInv, RowsBehind
  <2> QED BY <2>1, <2>2 DEF RunShape
<1>3. ASSUME NEW w \in Workers,
             \/ Start(w) \/ Restart(w) \/ Stop(w) \/ DrainTimeout(w) \/ Exit(w)
             \/ ClaimRead(w) \/ Crash(w) \/ RecoverFails(w) \/ ClaimFails(w)
      PROVE  FALSE
  BY <1>3, RowsUntouched DEF tables
<1>4. ASSUME NEW w \in Workers, Recover(w) PROVE FALSE
  BY <1>4 DEF Recover, RecoverStale
<1>5. ASSUME NEW w \in Workers, ClaimCommit(w)
      PROVE  \E won \in SUBSET claim[w] : ClaimShape(w, won) /\ d \in won
  <2>1. PICK won \in SUBSET claim[w] : ClaimShape(w, won)
    BY <1>5, ClaimWon
  <2>2. d \in won
    BY <2>1 DEF ClaimShape
  <2> QED BY <2>1, <2>2
<1> QED BY <1>1, <1>2, <1>3, <1>4, <1>5 DEF Next, WorkerNext, ProcessStep, Failure

\* Deployments of one project are claimed in the order they were asked for, by
\* any number of workers and from candidates that may have gone stale.
THEOREM ServedInOrder == Spec => ClaimedInOrder
<1> DEFINE InOrder == \A d, e \in Deployments :
                        /\ e < d /\ project[e] = project[d]
                        /\ status[e] = "pending" /\ status[d] = "pending"
                        => status'[d] # "running"
<1>1. Init => OrderInv
  BY DEF Init, DBInit, WorkerInit, OrderInv, Exists
<1>2. TypeOK /\ ClaimInv /\ OrderInv /\ [Next]_vars => OrderInv'
  BY OrderInvStep
<1>3. TypeOK /\ ClaimInv /\ OrderInv /\ [Next]_vars => [InOrder]_vars
  <2> SUFFICES ASSUME TypeOK, ClaimInv, OrderInv, Next,
                      NEW d \in Deployments, NEW e \in Deployments,
                      e < d, project[e] = project[d],
                      status[e] = "pending", status[d] = "pending", status'[d] = "running"
               PROVE  FALSE
    BY DEF vars, tables
  <2>w. PICK w \in Workers : \E won \in SUBSET claim[w] : ClaimShape(w, won) /\ d \in won
    BY StartsByClaim
  <2>1. PICK won \in SUBSET claim[w] : ClaimShape(w, won) /\ d \in won
    BY <2>w
  <2>2. e \in claim[w]
    BY <2>1 DEF OrderInv
  <2>3. d <= e
    BY <2>1, <2>2 DEF ClaimShape
  <2> QED BY <2>3, DeploymentsAssumption
<1> QED BY <1>1, <1>2, <1>3, Invariance, PTL DEF Spec, ClaimedInOrder

-----------------------------------------------------------------------------
(* One worker.                                                               *)

\* With one worker ProcessInv is inductive, given the types and ClaimInv.
LEMMA ProcessInvStep ==
  ASSUME OneWorker, TypeOK, ClaimInv, ProcessInv, [Next]_vars
  PROVE  ProcessInv'
<1> USE DEF TypeOK, DBTypeOK, WorkerTypeOK
<1> SUFFICES ASSUME NEW w \in Workers
             PROVE  /\ wstate'[w] # "serving" => claim'[w] = {}
                    /\ wstate'[w] # "recovering" => found'[w] = {}
                    /\ wstate'[w] \in Down \cup {"recovering"} => loop'[w] = {}
                    /\ \A d \in loop'[w] \cup found'[w] :
                         status'[d] = "running" \/ cancelReq'[d]
                    /\ wstate'[w] \notin Down =>
                         \A d \in Deployments :
                           status'[d] = "running" =>
                             d \in loop'[w] \cup found'[w] \/ pc'[d] = "raised"
  BY DEF ProcessInv
<1>w. \A v \in Workers : v = w
  BY DEF OneWorker
<1>i. /\ wstate[w] # "serving" => claim[w] = {}
      /\ wstate[w] # "recovering" => found[w] = {}
      /\ wstate[w] \in Down \cup {"recovering"} => loop[w] = {}
      /\ \A d \in loop[w] \cup found[w] : status[d] = "running" \/ cancelReq[d]
      /\ wstate[w] \notin Down =>
           \A d \in Deployments :
             status[d] = "running" => d \in loop[w] \cup found[w] \/ pc[d] = "raised"
  BY DEF ProcessInv
<1>l. \A d \in loop[w] \cup found[w] : Exists(d) /\ d \in Deployments
  BY DEF ClaimInv, RowsBehind, Exists
<1>1. CASE ApiNext /\ UNCHANGED workerVars
  <2>0. UNCHANGED <<wstate, found, claim, loop, pc>>
    BY <1>1 DEF workerVars, process
  <2>1. ASSUME NEW x \in Deployments, InsertShape(x)
        PROVE  \A d \in Deployments :
                 /\ status'[d] = "running" => status[d] = "running"
                 /\ d \in loop[w] \cup found[w] =>
                      status'[d] = status[d] /\ cancelReq'[d] = cancelReq[d]
    BY <1>l, <2>1 DEF InsertShape, NextId
  <2>2. ASSUME NEW x \in Deployments, CancelShape(x)
        PROVE  \A d \in Deployments :
                 /\ status'[d] = "running" => status[d] = "running"
                 /\ \/ status'[d] = status[d] /\ cancelReq'[d] = cancelReq[d]
                    \/ cancelReq'[d]
    BY <2>2 DEF CancelShape
  <2>3. CASE UNCHANGED <<status, cancelReq>>
    BY <1>i, <2>0, <2>3
  <2> QED BY <1>1, <1>i, <1>l, <2>0, <2>1, <2>2, <2>3, ApiShapes
          DEF ClaimInv, ReadShape, OtherShape
<1>2. ASSUME NEW x \in Deployments,
             RunStep(x) \/ EnvFails(x) \/ RunFails(x) \/ TaskRaises(x)
      PROVE  /\ UNCHANGED <<process, claim>> /\ loop'[w] \subseteq loop[w] /\ found[w] = {}
             /\ \A d \in loop'[w] : status'[d] = "running" \/ cancelReq'[d]
             /\ wstate[w] \notin Down =>
                  \A d \in Deployments :
                    status'[d] = "running" => d \in loop'[w] \/ pc'[d] = "raised"
  <2>1. RunShape(x)
    BY <1>2, RunShapes
  <2>2. x \in loop[w] /\ "ended" \in Ended
    BY <1>w, <2>1 DEF RunShape, ClaimInv, LoopHasLive, Ended
  <2>3. UNCHANGED <<process, claim>> /\ loop'[w] \subseteq loop[w] /\ found[w] = {}
    BY <1>i, <2>1, <2>2 DEF RunShape, process
  <2>4. \A d \in loop'[w] : status'[d] = "running" \/ cancelReq'[d]
    BY <1>i, <2>1, <2>2 DEF RunShape
  <2>5. ASSUME wstate[w] \notin Down, NEW d \in Deployments,
               status'[d] = "running"
        PROVE  d \in loop'[w] \/ pc'[d] = "raised"
    <3>1. CASE d # x
      BY <1>i, <2>1, <2>3, <2>5, <3>1 DEF RunShape
    <3>2. CASE d = x
      <4>1. pc'[x] # "ended"
        BY <2>1, <2>5, <3>2 DEF RunShape, Terminal
      <4> QED BY <2>1, <2>2, <3>2, <4>1 DEF RunShape, Ended
    <3> QED BY <3>1, <3>2
  <2> QED BY <2>3, <2>4, <2>5
<1>3. CASE Start(w) \/ Restart(w)
  <2>1. /\ loop[w] = {} /\ claim[w] = {} /\ UNCHANGED <<claim, loop, status>>
        /\ wstate'[w] = "recovering" /\ found'[w] = Stale
    BY <1>3, <1>i DEF Start, Restart, Boot, Down, tables
  <2> QED BY <2>1 DEF Stale, Down
<1>4. CASE Recover(w)
  <2>1. /\ loop[w] = {} /\ claim[w] = {} /\ UNCHANGED <<claim, loop, pc>>
        /\ wstate[w] = "recovering" /\ wstate'[w] = "serving" /\ found'[w] = {}
        /\ RecoverStale(found[w])
    BY <1>4, <1>i DEF Recover, Recovered, coroutines
  <2>2. \A d \in Deployments : status'[d] = "running" => pc'[d] = "raised"
    BY <1>i, <2>1 DEF RecoverStale, Down
  <2> QED BY <2>1, <2>2 DEF Down
<1>r. CASE RecoverFails(w) \/ (Stop(w) /\ wstate[w] = "recovering")
  <2>1. Recovered(w, "failed") \/ Recovered(w, "off")
    BY <1>r DEF RecoverFails, Stop
  <2>2. /\ loop'[w] = {} /\ claim'[w] = {}
        /\ wstate'[w] \in Down /\ found'[w] = {}
    BY <1>i, <2>1 DEF Recovered, Down
  <2> QED BY <2>2 DEF Down
<1>s. CASE Stop(w) /\ wstate[w] # "recovering"
  <2>1. /\ wstate[w] = "serving" /\ wstate'[w] = "draining" /\ claim[w] = {}
        /\ UNCHANGED <<tables, found, claim, coroutines, loop>>
    BY <1>s DEF Stop, LoopFree, Recovered
  <2> QED BY <1>i, <2>1 DEF tables, coroutines, Down
<1>5. CASE DrainTimeout(w) \/ ClaimFails(w)
  <2>1. /\ UNCHANGED <<status, cancelReq, loop, found>> /\ CancelTasks(w)
        /\ claim'[w] = {} \/ UNCHANGED <<claim, wstate>>
        /\ wstate'[w] \notin Down \cup {"recovering"}
        /\ wstate[w] \notin Down \cup {"recovering"}
    BY <1>5, <1>i DEF DrainTimeout, ClaimFails, tables, process, Down
  <2>2. \A d \in Deployments : pc[d] = "raised" => pc'[d] = "raised"
    BY <2>1 DEF CancelTasks, Unwind
  <2> QED BY <1>i, <2>1, <2>2
<1>6. CASE Exit(w) \/ Crash(w)
  <2>1. wstate'[w] \in Down
    BY <1>6 DEF Exit, Crash, Down
  <2>2. loop'[w] = {} /\ claim'[w] = {} /\ found'[w] = {}
    BY <1>6, <1>i DEF Exit, Crash, EndRuns
  <2> QED BY <2>1, <2>2 DEF Down
<1>7. CASE ClaimRead(w)
  BY <1>7, <1>i DEF ClaimRead, tables, coroutines, process
<1>8. CASE ClaimCommit(w)
  <2>1. PICK won \in SUBSET claim[w] : ClaimShape(w, won)
    BY <1>8, ClaimWon
  <2>2. wstate[w] = "serving" /\ wstate' = wstate /\ found[w] = {} /\ found' = found
    BY <1>8, <1>i, <2>1 DEF ClaimCommit, process
  <2>3. loop'[w] = loop[w] \cup won /\ claim'[w] = {}
    BY <2>1 DEF ClaimShape
  <2>4. \A d \in loop'[w] : status'[d] = "running" \/ cancelReq'[d]
    BY <1>i, <2>1, <2>3 DEF ClaimShape
  <2>5. \A d \in Deployments : status'[d] = "running" => d \in loop'[w] \/ pc'[d] = "raised"
    BY <1>i, <2>1, <2>2, <2>3 DEF ClaimShape, Down
  <2> QED BY <2>2, <2>3, <2>4, <2>5 DEF Down
<1>9. CASE UNCHANGED vars
  BY <1>9, <1>i DEF vars, tables, workerVars, process
<1> QED
  <2>1. CASE ApiNext /\ UNCHANGED workerVars
    BY <1>1, <2>1
  <2>2. CASE \E x \in Deployments :
               RunStep(x) \/ EnvFails(x) \/ RunFails(x) \/ TaskRaises(x)
    BY <1>i, <1>2, <2>2 DEF process
  <2>3. CASE \E v \in Workers :
               \/ Start(v) \/ Restart(v) \/ Stop(v) \/ ProcessStep(v)
               \/ Crash(v) \/ RecoverFails(v) \/ ClaimFails(v)
    BY <1>w, <1>3, <1>4, <1>r, <1>s, <1>5, <1>6, <1>7, <1>8, <2>3 DEF ProcessStep
  <2> QED BY <1>9, <2>1, <2>2, <2>3 DEF Next, WorkerNext, Failure

\* All that is known of the system with one worker.
LEMMA OneWorkerInvariance ==
  ASSUME OneWorker
  PROVE  Spec => [](TypeOK /\ ClaimInv /\ OrderInv /\ ProcessInv)
<1>1. Init => TypeOK /\ ClaimInv
  BY InitType, ClaimInvInit
<1>2. Init => OrderInv /\ ProcessInv
  BY DEF Init, DBInit, WorkerInit, OrderInv, ProcessInv, Exists
<1>3. TypeOK /\ ClaimInv /\ OrderInv /\ ProcessInv /\ [Next]_vars
        => (TypeOK /\ ClaimInv /\ OrderInv /\ ProcessInv)'
  BY StepType, ClaimInvStep, OrderInvStep, ProcessInvStep
<1> QED BY <1>1, <1>2, <1>3, PTL DEF Spec

\* With one worker every process accounts for its coroutines: a worker that is
\* down or draining claims nothing and strands none, and one that is up has a
\* coroutine behind every running row, or one that has raised.
THEOREM ProcessAccounts ==
  ASSUME OneWorker
  PROVE  Spec => []ProcessInv
BY OneWorkerInvariance, PTL

\* With one worker no two deployments of a project are ever under way at once,
\* through its kills, restarts and failures.
THEOREM SerialWithOneWorker ==
  ASSUME OneWorker
  PROVE  Spec => []ProjectSerial
<1>1. ClaimInv => ProjectSerial
  <2> SUFFICES ASSUME ClaimInv, NEW d \in Deployments, NEW e \in Deployments,
                      d # e, Live(d), Live(e)
               PROVE  project[d] # project[e]
    BY DEF ProjectSerial
  <2>1. PICK w \in Workers : d \in loop[w]
    BY DEF ClaimInv, LoopHasLive
  <2>2. e \in loop[w]
    BY DEF ClaimInv, LoopHasLive, OneWorker
  <2> QED BY <2>1, <2>2 DEF ClaimInv, TasksCover
<1> QED BY <1>1, Invariance, PTL

\* With one worker every row that says running has a coroutine behind it while
\* the worker serves, unless its task has raised.
THEOREM OwnedWithOneWorker ==
  ASSUME OneWorker
  PROVE  Spec => []RunningIsOwned
<1>1. ProcessInv => RunningIsOwned
  BY DEF ProcessInv, RunningIsOwned, Down
<1> QED BY <1>1, OneWorkerInvariance, PTL

\* With one worker the outcome of a deployment is final unless it was asked to
\* stop: no run and no recovery overwrites it.
THEOREM FinalWithOneWorker ==
  ASSUME OneWorker
  PROVE  Spec => OutcomeIsFinal
<1> DEFINE Final == \A d \in Deployments :
                      status[d] \in Terminal /\ status'[d] # status[d] =>
                        cancelReq'[d] /\ status'[d] \in Terminal
<1>1. TypeOK /\ ClaimInv /\ ProcessInv /\ [Next]_vars => [Final]_vars
  <2> SUFFICES ASSUME TypeOK, ClaimInv, ProcessInv, Next, NEW d \in Deployments,
                      status[d] \in Terminal, status'[d] # status[d]
               PROVE  cancelReq'[d] /\ status'[d] \in Terminal
    BY DEF vars, tables
  <2> USE DEF TypeOK, DBTypeOK, WorkerTypeOK
  <2>0. status[d] \notin {"absent", "pending", "running"} /\ "cancelled" \in Terminal
    BY DEF Terminal
  <2>1. CASE ApiNext /\ UNCHANGED workerVars
    BY <2>0, <2>1, ApiShapes
       DEF ClaimInv, InsertShape, NextId, Exists, CancelShape, ReadShape, OtherShape
  <2>2. ASSUME NEW x \in Deployments,
               RunStep(x) \/ EnvFails(x) \/ RunFails(x) \/ TaskRaises(x)
        PROVE  cancelReq'[d] /\ status'[d] \in Terminal
    <3>1. RunShape(x) /\ x = d
      BY <2>2, RunShapes DEF RunShape
    <3>2. PICK w \in Workers : d \in loop[w]
      BY <3>1 DEF RunShape, ClaimInv, LoopHasLive
    <3>3. cancelReq[d]
      BY <2>0, <3>2 DEF ProcessInv
    <3> QED BY <3>1, <3>3 DEF RunShape
  <2>3. ASSUME NEW w \in Workers, Recover(w)
        PROVE  cancelReq'[d] /\ status'[d] \in Terminal
    <3>1. d \in found[w] /\ status'[d] = "failed" /\ cancelReq'[d] = cancelReq[d]
      BY <2>3 DEF Recover, RecoverStale
    <3>2. cancelReq[d]
      BY <2>0, <3>1 DEF ProcessInv
    <3> QED BY <3>1, <3>2 DEF Terminal
  <2>4. ASSUME NEW w \in Workers,
               \/ Start(w) \/ Restart(w) \/ Stop(w) \/ DrainTimeout(w) \/ Exit(w)
               \/ ClaimRead(w) \/ Crash(w) \/ RecoverFails(w) \/ ClaimFails(w)
        PROVE  FALSE
    BY <2>4, RowsUntouched DEF tables
  <2>5. ASSUME NEW w \in Workers, ClaimCommit(w) PROVE FALSE
    BY <2>0, <2>5, ClaimWon DEF ClaimShape
  <2> QED BY <2>1, <2>2, <2>3, <2>4, <2>5 DEF Next, WorkerNext, ProcessStep, Failure
<1> QED BY <1>1, OneWorkerInvariance, PTL DEF Spec, OutcomeIsFinal

-----------------------------------------------------------------------------
(* No overtaking.                                                            *)

\* What is over stays over, and only a row that waits begins to run.
LEMMA StaysOver ==
  ASSUME TypeOK, ClaimInv, Next, NEW d \in Deployments
  PROVE  /\ status[d] \in Terminal => status'[d] \in Terminal
         /\ status'[d] = "running" => status[d] \in {"running", "pending"}
<1> USE DEF TypeOK, DBTypeOK, WorkerTypeOK
<1>0. /\ "cancelled" \in Terminal /\ "failed" \in Terminal
      /\ \A s \in {"absent", "pending", "running"} : s \notin Terminal
  BY DEF Terminal
<1>1. CASE ApiNext /\ UNCHANGED workerVars
  BY <1>0, <1>1, ApiShapes
     DEF ClaimInv, InsertShape, NextId, Exists, CancelShape, ReadShape, OtherShape
<1>2. ASSUME NEW x \in Deployments,
             RunStep(x) \/ EnvFails(x) \/ RunFails(x) \/ TaskRaises(x)
      PROVE  /\ status[d] \in Terminal => status'[d] \in Terminal
             /\ status'[d] = "running" => status[d] = "running"
  BY <1>0, <1>2, RunShapes DEF RunShape
<1>3. ASSUME NEW w \in Workers, Recover(w)
      PROVE  status'[d] \in {status[d], "failed"}
  BY <1>3 DEF Recover, RecoverStale
<1>4. ASSUME NEW w \in Workers,
             \/ Start(w) \/ Restart(w) \/ Stop(w) \/ DrainTimeout(w) \/ Exit(w)
             \/ ClaimRead(w) \/ Crash(w) \/ RecoverFails(w) \/ ClaimFails(w)
      PROVE  UNCHANGED status
  BY <1>4, RowsUntouched DEF tables
<1>5. ASSUME NEW w \in Workers, ClaimCommit(w)
      PROVE  status'[d] = status[d] \/ status[d] = "pending"
  BY <1>5, ClaimWon DEF ClaimShape
<1> QED BY <1>0, <1>1, <1>2, <1>3, <1>4, <1>5
        DEF Next, WorkerNext, ProcessStep, Failure

\* Only a claim creates a coroutine.
LEMMA LiveByClaim ==
  ASSUME TypeOK, ClaimInv, Next, NEW d \in Deployments, ~ Live(d), Live(d)'
  PROVE  \E w \in Workers : \E won \in SUBSET claim[w] : ClaimShape(w, won) /\ d \in won
<1> USE DEF TypeOK, WorkerTypeOK
<1>1. ASSUME UNCHANGED pc PROVE FALSE
  BY <1>1 DEF Live
<1>2. ASSUME NEW x \in Deployments,
             RunStep(x) \/ EnvFails(x) \/ RunFails(x) \/ TaskRaises(x)
      PROVE  FALSE
  BY <1>2, RunShapes DEF RunShape, Live
<1>3. ASSUME NEW w \in Workers,
             \/ Start(w) \/ Restart(w) \/ Stop(w) \/ Recover(w) \/ DrainTimeout(w)
             \/ Exit(w) \/ Crash(w) \/ RecoverFails(w) \/ ClaimFails(w)
      PROVE  FALSE
  BY <1>3, ProcessShrinks DEF Shrinks, Live
<1>4. ASSUME NEW w \in Workers, ClaimRead(w) PROVE FALSE
  BY <1>1, <1>4 DEF ClaimRead, coroutines
<1>5. ASSUME NEW w \in Workers, ClaimCommit(w)
      PROVE  \E won \in SUBSET claim[w] : ClaimShape(w, won) /\ d \in won
  <2>1. PICK won \in SUBSET claim[w] : ClaimShape(w, won)
    BY <1>5, ClaimWon
  <2>2. d \in won
    BY <2>1 DEF ClaimShape, Live
  <2> QED BY <2>1, <2>2
<1> QED BY <1>1, <1>2, <1>3, <1>4, <1>5
        DEF Next, WorkerNext, ProcessStep, Failure, workerVars, process

\* The SELECT passes over the projects that have a running row.
LEMMA ReadIsIdle ==
  ASSUME TypeOK, NEW w \in Workers, ClaimRead(w), NEW d \in claim'[w],
         NEW e \in Deployments, project[e] = project[d]
  PROVE  status[e] # "running"
<1>1. PICK active, n : d \in Candidates(active, n)
  BY DEF ClaimRead, TypeOK, WorkerTypeOK
<1>2. \A y \in Stale : project[y] # project[d]
  BY <1>1, FirstSubset DEF Candidates
<1> QED BY <1>2 DEF Stale

\* With one worker ServedInv is kept: what the claim wins is the oldest of its
\* project that waits, and none of the project runs.
LEMMA ServedInvStep ==
  ASSUME OneWorker, TypeOK, ClaimInv, OrderInv, ServedInv, [Next]_vars
  PROVE  ServedInv'
<1> USE DEF TypeOK, DBTypeOK, WorkerTypeOK
<1>l. \A d \in Deployments : Live(d) => Exists(d)
  BY Points DEF ClaimInv, RowsBehind, Live, Exists
<1>1. ASSUME NEW x \in Deployments, InsertShape(x), UNCHANGED workerVars
      PROVE  ServedInv'
  <2>1. /\ status[x] = "absent" /\ status'[x] = "pending"
        /\ \A e \in Deployments \ {x} : project'[e] = project[e] /\ status'[e] = status[e]
    BY <1>1 DEF InsertShape, NextId, Exists
  <2>2. ASSUME NEW d \in Deployments, NEW e \in Deployments,
               e < d, project'[e] = project'[d], Live(d)'
        PROVE  status'[e] \in Terminal
    <3>1. Live(d) /\ Exists(d)
      BY <1>1, <1>l, <2>2 DEF workerVars, process, Live
    <3>2. d # x /\ e # x
      BY <2>1, <2>2, <3>1 DEF OrderInv, Exists
    <3> QED BY <2>1, <2>2, <3>1, <3>2 DEF ServedInv, NotOvertaken
  <2>3. ASSUME NEW w \in Workers, NEW d \in claim[w], NEW e \in Deployments,
               project'[e] = project'[d]
        PROVE  status'[e] # "running"
    <3>1. d # x
      BY <2>1 DEF ClaimInv, RowsBehind, Exists
    <3> QED BY <2>1, <2>3, <3>1 DEF ServedInv
  <2>4. claim' = claim
    BY <1>1 DEF workerVars, process
  <2> QED BY <2>2, <2>3, <2>4 DEF ServedInv, NotOvertaken
<1>2. ASSUME Next, Onwards, UNCHANGED project
      PROVE  ServedInv'
  <2>1. ASSUME NEW d \in Deployments, NEW e \in Deployments,
               e < d, project[e] = project[d], Live(d)'
        PROVE  status'[e] \in Terminal
    <3>1. CASE Live(d)
      BY <1>2, <2>1, <3>1, StaysOver DEF ServedInv, NotOvertaken
    <3>2. CASE ~ Live(d)
      <4>w. PICK w \in Workers : \E won \in SUBSET claim[w] : ClaimShape(w, won) /\ d \in won
        BY <1>2, <2>1, <3>2, LiveByClaim
      <4>1. PICK won \in SUBSET claim[w] : ClaimShape(w, won) /\ d \in won
        BY <4>w
      <4>2. status[e] # "absent"
        BY <2>1, <4>1 DEF ClaimShape, OrderInv, Exists
      <4>3. ASSUME status[e] = "pending" PROVE FALSE
        <5>1. e \in claim[w]
          BY <2>1, <4>1, <4>3 DEF OrderInv
        <5>2. d <= e
          BY <2>1, <4>1, <4>3, <5>1 DEF ClaimShape
        <5> QED BY <2>1, <5>2, DeploymentsAssumption
      <4>4. status[e] # "running"
        BY <2>1, <4>1 DEF ServedInv
      <4>5. status[e] \in Terminal
        BY <4>2, <4>3, <4>4 DEF Status
      <4> QED BY <1>2, <4>5, StaysOver
    <3> QED BY <3>1, <3>2
  <2>2. ASSUME NEW w \in Workers, NEW d \in claim'[w], NEW e \in Deployments,
               project[e] = project[d], status'[e] = "running"
        PROVE  FALSE
    <3>1. CASE ClaimRead(w)
      BY <2>2, <3>1, ReadIsIdle DEF ClaimRead, tables
    <3>2. CASE claim'[w] = claim[w]
      <4>1. status[e] = "pending"
        BY <1>2, <2>2, <3>2, StaysOver DEF ServedInv
      <4>2. PICK v \in Workers : \E won \in SUBSET claim[v] : ClaimShape(v, won) /\ e \in won
        BY <1>2, <2>2, <4>1, StartsByClaim
      <4>3. v = w /\ claim'[v] = {}
        BY <4>2 DEF OneWorker, ClaimShape
      <4> QED BY <2>2, <4>3
    <3> QED BY <1>2, <2>2, <3>1, <3>2, StepClaims
  <2> QED BY <1>2, <2>1, <2>2 DEF ServedInv, NotOvertaken
<1>3. CASE UNCHANGED vars
  BY <1>3 DEF ServedInv, NotOvertaken, Live, vars, tables, workerVars, process
<1> QED BY <1>1, <1>2, <1>3, StepRows

\* With one worker a deployment is under way only when all older ones of its
\* project have their final status, through kills, restarts, failed tasks and
\* candidates that have gone stale.
THEOREM NoneIsOvertaken ==
  ASSUME OneWorker
  PROVE  Spec => []NotOvertaken
<1>1. Init => ServedInv
  BY Points DEF Init, DBInit, WorkerInit, ServedInv, NotOvertaken, Live
<1>2. TypeOK /\ ClaimInv /\ OrderInv /\ ServedInv /\ [Next]_vars => ServedInv'
  BY ServedInvStep
<1>3. ServedInv => NotOvertaken
  BY DEF ServedInv
<1> QED BY <1>1, <1>2, <1>3, OneWorkerInvariance, PTL DEF Spec

-----------------------------------------------------------------------------
(* The refinement of SerialQueue.                                            *)

\* The phases of two states, from what becomes of rows and coroutines.
LEMMA PhaseFacts ==
  ASSUME ClaimInv, NEW d \in Deployments
  PROVE  /\ Phase(d) = "absent" <=> status[d] = "absent"
         /\ Phase(d) = "queued" <=> status[d] = "pending"
         /\ Phase(d) = "executing" <=> Live(d)
         /\ Phase(d) \in {"absent", "queued", "executing", "over"}
<1>1. Live(d) => status[d] \notin {"absent", "pending"}
  BY Points DEF ClaimInv, RowsBehind, Live
<1> QED BY <1>1 DEF Phase

\* The same of the state after a step.
LEMMA PhaseFactsNext ==
  ASSUME ClaimInv', NEW d \in Deployments
  PROVE  /\ Phase(d)' = "absent" <=> status'[d] = "absent"
         /\ Phase(d)' = "queued" <=> status'[d] = "pending"
         /\ Phase(d)' = "executing" <=> Live(d)'
         /\ Phase(d)' \in {"absent", "queued", "executing", "over"}
<1>1. Live(d)' => status'[d] \notin {"absent", "pending"}
  BY Points DEF ClaimInv, RowsBehind, Live
<1> QED BY <1>1 DEF Phase

\* A step after which every row waits or runs as it did before is a stutter.
LEMMA SamePhases ==
  ASSUME ClaimInv, ClaimInv', UNCHANGED project,
         \A d \in Deployments :
           /\ status'[d] = "absent" <=> status[d] = "absent"
           /\ status'[d] = "pending" <=> status[d] = "pending"
           /\ Live(d)' <=> Live(d)
  PROVE  UNCHANGED Queue!qvars
<1>1. \A d \in Deployments : Phase(d)' = Phase(d)
  BY PhaseFacts, PhaseFactsNext
<1> QED BY <1>1 DEF Queue!qvars

\* A step with which the coroutines of D end, and nothing else changes.
LEMMA EndPhases ==
  ASSUME ClaimInv, ClaimInv', UNCHANGED project,
         NEW D \in SUBSET {d \in Deployments : Live(d)},
         \A d \in Deployments :
           /\ status'[d] = "absent" <=> status[d] = "absent"
           /\ status'[d] = "pending" <=> status[d] = "pending"
           /\ Live(d)' <=> Live(d) /\ d \notin D
  PROVE  Queue!QNext
<1>1. \A d \in Deployments : Phase(d)' = IF d \in D THEN "over" ELSE Phase(d)
  BY PhaseFacts, PhaseFactsNext
<1>2. \A d \in D : Phase(d) = "executing"
  BY PhaseFacts
<1>3. Queue!End(D)
  BY <1>1, <1>2 DEF Queue!End, Queue!Turn
<1> QED BY <1>3 DEF Queue!QNext

\* A new row joins the queue.
LEMMA InsertSubmits ==
  ASSUME TypeOK, ClaimInv, ClaimInv', NEW d \in Deployments, InsertShape(d),
         UNCHANGED workerVars
  PROVE  Queue!QNext
<1> USE DEF TypeOK, DBTypeOK, WorkerTypeOK
<1>1. PICK p \in Projects : project' = [project EXCEPT ![d] = p]
  BY DEF InsertShape
<1>2. /\ status[d] = "absent" /\ status'[d] = "pending"
      /\ \A e \in Deployments : e < d => status[e] # "absent"
      /\ \A e \in Deployments \ {d} : status'[e] = status[e]
      /\ \A e \in Deployments : Live(e)' <=> Live(e)
  BY DEF InsertShape, NextId, Exists, workerVars, process, Live
<1>3. \A e \in Deployments : Phase(e)' = IF e = d THEN "queued" ELSE Phase(e)
  BY <1>2, PhaseFacts, PhaseFactsNext
<1>4. Phase(d) = "absent" /\ \A e \in Deployments : e < d => Phase(e) # "absent"
  BY <1>2, PhaseFacts
<1>5. Queue!Submit(d, p)
  BY <1>1, <1>3, <1>4 DEF Queue!Submit, Queue!Turn
<1> QED BY <1>5 DEF Queue!QNext

\* A cancelled row leaves it, or was under way or over already.
LEMMA CancelWithdraws ==
  ASSUME TypeOK, ClaimInv, ClaimInv', NEW d \in Deployments, CancelShape(d),
         UNCHANGED workerVars
  PROVE  Queue!QNext \/ UNCHANGED Queue!qvars
<1> USE DEF TypeOK, DBTypeOK, WorkerTypeOK
<1>1. \A e \in Deployments : Live(e)' <=> Live(e)
  BY DEF workerVars, process, Live
<1>2. CASE status[d] = "pending" /\ status'[d] # "pending"
  <2>1. status'[d] = "cancelled" /\ \A e \in Deployments \ {d} : status'[e] = status[e]
    BY <1>2 DEF CancelShape
  <2>2. \A e \in Deployments : Phase(e)' = IF e = d THEN "over" ELSE Phase(e)
    BY <1>1, <1>2, <2>1, PhaseFacts, PhaseFactsNext
  <2>3. Queue!Withdraw(d)
    BY <1>2, <2>2, PhaseFacts DEF Queue!Withdraw, Queue!Turn, CancelShape
  <2> QED BY <2>3 DEF Queue!QNext
<1>3. CASE status[d] # "pending" \/ status'[d] = "pending"
  <2>1. \A e \in Deployments :
           /\ status'[e] = "absent" <=> status[e] = "absent"
           /\ status'[e] = "pending" <=> status[e] = "pending"
    BY <1>3 DEF CancelShape, Exists
  <2> QED BY <1>1, <2>1, SamePhases DEF CancelShape
<1> QED BY <1>2, <1>3

\* The requests implement the queue.
LEMMA ApiRefines ==
  ASSUME TypeOK, ClaimInv, ClaimInv', ApiNext, UNCHANGED workerVars
  PROVE  Queue!QNext \/ UNCHANGED Queue!qvars
<1>1. ASSUME UNCHANGED <<project, status>>
      PROVE  UNCHANGED Queue!qvars
  BY <1>1, SamePhases DEF workerVars, process, Live
<1> QED BY <1>1, ApiShapes, InsertSubmits, CancelWithdraws
        DEF ClaimInv, ReadShape, OtherShape

\* A step of run() ends the deployment or is a stutter.
LEMMA RunRefines ==
  ASSUME TypeOK, ClaimInv, ClaimInv', NEW d \in Deployments, RunShape(d)
  PROVE  Queue!QNext \/ UNCHANGED Queue!qvars
<1>1. status[d] \notin {"absent", "pending"} /\ status'[d] \notin {"absent", "pending"}
  BY Points DEF RunShape, Live, ClaimInv, RowsBehind, Terminal
<1>2. \A e \in Deployments :
        /\ status'[e] = "absent" <=> status[e] = "absent"
        /\ status'[e] = "pending" <=> status[e] = "pending"
  BY <1>1 DEF RunShape
<1>3. \A e \in Deployments \ {d} : Live(e)' <=> Live(e)
  BY DEF RunShape, Live
<1>4. Live(d) /\ UNCHANGED project
  BY DEF RunShape
<1>5. CASE Live(d)'
  BY <1>2, <1>3, <1>4, <1>5, SamePhases
<1>6. CASE ~ Live(d)'
  <2>1. {d} \in SUBSET {e \in Deployments : Live(e)}
    BY <1>4
  <2>2. \A e \in Deployments : Live(e)' <=> Live(e) /\ e \notin {d}
    BY <1>3, <1>6
  <2> QED BY <1>2, <1>4, <2>1, <2>2, EndPhases
<1> QED BY <1>5, <1>6

\* What a claim wins are heads of idle queues.
LEMMA ClaimBegins ==
  ASSUME OneWorker, TypeOK, ClaimInv, ClaimInv', OrderInv,
         NEW w \in Workers, NEW won \in SUBSET claim[w], ClaimShape(w, won)
  PROVE  Queue!QNext
<1> USE DEF TypeOK, DBTypeOK, WorkerTypeOK
<1>0. won \in SUBSET Deployments
  OBVIOUS
<1>1. \A d \in Deployments : Phase(d)' = IF d \in won THEN "executing" ELSE Phase(d)
  <2>1. \A d \in won : Live(d)'
    BY <1>0 DEF ClaimShape, Live, Waiting
  <2>2. \A d \in Deployments \ won : status'[d] = status[d] /\ (Live(d)' <=> Live(d))
    BY DEF ClaimShape, Live
  <2> QED BY <2>1, <2>2, PhaseFacts, PhaseFactsNext
<1>2. ASSUME NEW d \in won, NEW e \in Deployments, project[e] = project[d]
      PROVE  Phase(e) # "executing" /\ (e < d => Phase(e) # "queued")
  <2>1. ~ Live(e)
    <3>1. SUFFICES ASSUME Live(e) PROVE FALSE
      OBVIOUS
    <3>2. e \in loop[w]
      BY <3>1 DEF ClaimInv, LoopHasLive, OneWorker
    <3> QED BY <1>2, <3>2 DEF ClaimInv, TasksCover
  <2>2. ASSUME e < d, status[e] = "pending" PROVE FALSE
    <3>1. e \in claim[w]
      BY <1>2, <2>2 DEF OrderInv
    <3>2. d <= e
      BY <1>2, <2>2, <3>1 DEF ClaimShape
    <3> QED BY <2>2, <3>2, DeploymentsAssumption
  <2> QED BY <2>1, <2>2, PhaseFacts
<1>3. \A d \in won : Phase(d) = "queued"
  BY <1>0, PhaseFacts DEF ClaimShape
<1>4. \A d \in won : Queue!Head(d)
  BY <1>0, <1>2, <1>3 DEF Queue!Head
<1>5. Queue!Begin(won)
  BY <1>1, <1>4 DEF Queue!Begin, Queue!Turn, ClaimShape
<1> QED BY <1>0, <1>5 DEF Queue!QNext

\* The process implements the queue.
LEMMA ProcessRefines ==
  ASSUME OneWorker, TypeOK, ClaimInv, ClaimInv', OrderInv, NEW w \in Workers,
         \/ Start(w) \/ Restart(w) \/ Stop(w) \/ ProcessStep(w)
         \/ Crash(w) \/ RecoverFails(w) \/ ClaimFails(w)
  PROVE  Queue!QNext \/ UNCHANGED Queue!qvars
<1> USE DEF TypeOK, DBTypeOK, WorkerTypeOK
<1>1. CASE Recover(w)
  <2>1. RecoverStale(found[w]) /\ UNCHANGED pc
    BY <1>1 DEF Recover, Recovered, coroutines
  <2>2. \A d \in found[w] : status[d] \notin {"absent", "pending"}
    BY DEF ClaimInv, RowsBehind
  <2>3. \A d \in Deployments :
          /\ status'[d] = "absent" <=> status[d] = "absent"
          /\ status'[d] = "pending" <=> status[d] = "pending"
    BY <2>1, <2>2 DEF RecoverStale
  <2> QED BY <2>1, <2>3, SamePhases DEF Live, RecoverStale
<1>2. CASE \/ Start(w) \/ Restart(w) \/ Stop(w) \/ RecoverFails(w)
           \/ Exit(w) \/ ClaimRead(w)
  <2>1. UNCHANGED <<project, status>>
    BY <1>2, RowsUntouched DEF tables
  <2>2. UNCHANGED pc
    BY <1>2 DEF Start, Restart, Boot, Stop, RecoverFails, Recovered, Exit, ClaimRead,
                coroutines
  <2> QED BY <2>1, <2>2, SamePhases DEF Live
<1>3. CASE DrainTimeout(w) \/ ClaimFails(w)
  <2>1. UNCHANGED <<project, status>> /\ CancelTasks(w)
    BY <1>3 DEF DrainTimeout, ClaimFails, tables
  <2>2. \A d \in Deployments : Live(d)' <=> Live(d)
    BY <2>1 DEF CancelTasks, Unwind, Live, Waiting
  <2> QED BY <2>1, <2>2, SamePhases
<1>4. CASE Crash(w)
  <2>1. UNCHANGED <<project, status>>
    BY <1>4 DEF Crash, tables
  <2>2. \A d \in Deployments : Live(d)' <=> Live(d) /\ d \notin loop[w]
    BY <1>4, Points DEF Crash, EndRuns, Unwind, Live, Ended
  <2>3. loop[w] \in SUBSET {d \in Deployments : Live(d)}
    BY DEF ClaimInv, LoopHasLive
  <2> QED BY <2>1, <2>2, <2>3, EndPhases
<1>5. CASE ClaimCommit(w)
  BY <1>5, ClaimWon, ClaimBegins
<1> QED BY <1>1, <1>2, <1>3, <1>4, <1>5 DEF ProcessStep

\* With one worker the system implements SerialQueue: whatever its transactions,
\* stale reads, kills and failures, users see one queue per project, served one
\* deployment at a time, in order, each at most once.
THEOREM QueueImplemented ==
  ASSUME OneWorker
  PROVE  Spec => ImplementsQueue
<1>1. Init => Queue!QInit
  <2>1. Init => \A d \in Deployments : Phase(d) = "absent"
    BY ClaimInvInit, PhaseFacts DEF Init, DBInit
  <2> QED BY <2>1 DEF Init, DBInit, Queue!QInit
<1>2. /\ TypeOK /\ ClaimInv /\ OrderInv /\ ClaimInv' /\ [Next]_vars
      => [Queue!QNext]_Queue!qvars
  <2> SUFFICES ASSUME TypeOK, ClaimInv, OrderInv, ClaimInv', [Next]_vars
               PROVE  Queue!QNext \/ UNCHANGED Queue!qvars
    OBVIOUS
  <2>1. CASE ApiNext /\ UNCHANGED workerVars
    BY <2>1, ApiRefines
  <2>2. CASE WorkerNext
    BY <2>2, RunShapes, RunRefines, ProcessRefines DEF WorkerNext, Failure
  <2>3. CASE UNCHANGED vars
    BY <2>3, SamePhases DEF vars, tables, workerVars, process, Live
  <2> QED BY <2>1, <2>2, <2>3 DEF Next
<1> QED BY <1>1, <1>2, OneWorkerInvariance, PTL
        DEF Spec, ImplementsQueue, Queue!QSpec
=============================================================================
