# deploy_online in TLA+

A verification project for [deploy_online](../src/README.md), a platform that
deploys projects to a Linux host: a FastAPI process takes requests, a worker
process carries the deployments out step by step, and a SQLite file between
them is all they share. The modules here model what decides whether a
deployment runs, when, and what is recorded of it. TLC checks them on small
instances; TLAPS proves the main results for all instances.

Paths below are relative to the repository (`src/backend/...`). `PROJECT.json`
maps each definition to the lines it stands for.

## 1. Inventory

| Component | State it keeps | Operations | Module |
|---|---|---|---|
| Database (`models.py`) | tables `projects`, `project_members`, `users`, `steps`, `envs`, `deployments`, `deployment_steps`, `logs` | the transactions of everybody else | `DeployDB`; `LogBroker`, `Members`, `Startup` for their tables |
| Deployment requests (`routers/deployments.py`) | none between requests; each has a session | deploy, cancel, retry, listings, note | `DeployApi` |
| Project update (`routers/projects.py`, `services/repository.py`) | `projects.enabled`, `steps`, members | create, update, delete a project | `DeployApi` (what it does to deployments), `Members` (what it does to memberships) |
| Worker process (`worker.py`, systemd unit) | `tasks`, `active`, the event loop, `shutdown` | boot, poll, reap, claim, drain, exit, restart | `DeployWorker` |
| Claim and recovery (`services/worker_state.py`) | `deployments.status` | `claim_pending`, `recover_stale` | `DeployWorker`, `DeployDB` |
| Run (`services/deployment.py`, `deployment_state.py`) | one coroutine per claimed deployment, `project_locks` | `run()` and the writes it makes | `DeployWorker`, `DeployDB` |
| Step execution (`services/execution.py`, `executor.py`) | a child process and its group, a cancel watcher, two readers, a timer | `execute_step`, `kill_process_group`, `git_sha` | `StepRunner`, `StepContract` |
| Log broker (`services/logging.py`) | a buffer, a lock and a delayed flush per deployment | `emit`, `flush`, `finish` | `LogBroker` |
| WebSocket feed (`app.py`) | last log id, last `state_version`, last status per connection | initial snapshot, one poll a second | `LiveFeed` |
| Users and members (`routers/users.py`, `permissions.py`) | `users`, `project_members` | create, update, delete; who may deploy | `Members` |
| Migration and start (`database.py`, `alembic/`, systemd units) | the schema, `alembic_version` | stamp, upgrade, first administrator | `Startup` |
| Login (`routers/auth.py`) | login attempts | login, logout | not modelled |
| Secrets (`security.py`) | the key | encrypt, decrypt | only that decryption may raise |
| Frontend | none of the system | views | not modelled |

How they interact: API threads and workers never call each other. A deployment
is a row that the API inserts as `pending`, that a worker's claim turns into
`running` and its coroutine into `success`, `failed` or `cancelled`. A cancel
request is a flag in the row that the coroutine looks at between steps and a
watcher looks at during one. `recover_stale` ends, at the next start of a
worker, what a dead one left `running`. A project edit reaches a deployment
through a foreign key: `ON DELETE SET NULL` on the column by which its step rows
are found. The lines of a run reach a client in two hops that know
nothing of each other: the worker's broker writes them, the API's feed polls
for them. Both processes migrate the database when they start.

What is hard here:

* **stale reads.** `claim_pending` selects and later updates; `cancel_deployment` reads a
  status and later overwrites it. Other processes commit in between.
* **interleaving on one event loop.** Coroutines, the polling loop and the signal handler
  share a thread; a coroutine keeps it until its next real suspension.
* **failure.** Kills, restarts by systemd, a shutdown that times out, a transaction that
  fails, a secret that cannot be decrypted, a row that cannot be found.
* **processes.** A step is a shell with descendants; its end, the end of its output, the
  timer, the watcher and `Task.cancel` come in any order; a reader of the output may
  outlive its step.
* **half a migration.** SQLite commits each `CREATE TABLE` at once; two processes migrate
  together and either may be killed.
* **history.** The rows must tell what happened to the deployment, also when the project
  changed meanwhile.

## 2. Modules

```
 SerialQueue            what users are promised: one queue per project
     ^  refinement (Queue == INSTANCE SerialQueue, ImplementsQueue)
 DeployOnline           the composition, history variables, properties, fairness
   |- DeployApi         requests            |- DeployWorker   process, claim, run()
   `--------- DeployDB: the tables, and one operator per transaction ---------'

 DeployInvariants       the inductive invariants
 MCDeployOnline         constants and symmetry for TLC
 DeployOnlineProofs     type correctness
 DeploySafetyProofs     claim and cancellation, any number of workers
 DeployQueueProofs      order of service; one worker; the refinement
 DeployStepsProofs      what the step rows say; capacity; any number of workers
 SerialQueueProofs      what the queue comes to for its users

 StepContract           what run() relies on when it awaits a step
     ^  refinement (Contract == INSTANCE StepContract, ImplementsContract)
 StepRunner             one execute_step with its processes
 StepRunnerProofs       its types, safety and refinement

 LogStream              what is promised to one who watches a deployment
     ^  refinement (Stream == INSTANCE LogStream, ImplementsStream)
 LiveFeed               a feed connection and its client, beside the broker
   |- EXTENDS LogBroker buffers, flushes, finish, and the rows they write
 LiveFeedProofs         no line lost, a closed feed has shown everything, refinement

 Members                requests about users, projects and members
     ^ EXTENDS
 Startup                processes that migrate and start, and serve Members
 StartupProofs          the schema, rights and administrators, any number of starters
```

**DeployDB.** The variables are the columns that decide behaviour: `enabled`,
`project`, `status`, `exitCode`, `cancelReq`, `steps` (the statuses of a
deployment's step rows by position) and `linked` (whether `source_step_id` still
names the steps of the snapshot, which is how `mark_step_running` and
`mark_step_finished` find the row). One operator per transaction. pysqlite takes the write
lock at the first write and the SELECTs before it see a snapshot of their own, so
a handler that reads, decides and writes later is two actions.

**DeployApi.** `Deploy`, `Retry`, `CancelRead` and `CancelCommit`, `EditProject`,
`ApiRestart`. A client is a request thread with the status it read.

**DeployWorker.** `wstate[w]` is the process (`off`, `failed`, `recovering`, `serving`,
`draining`, `dying`), `found[w]` the rows `recover_stale` has selected and will end whatever
becomes of them until its transaction, `claim[w]` the candidates between the SELECT and the
UPDATE, `task[w]` the dictionary `tasks` (the set `active` always has the same
projects), `loop[w]` the coroutines on its event loop. `pc[d]`, `pos[d]`,
`result[d]`, `verdict[d]` are the coroutine `run(d)` with its local variables.
Points of `run()` in `Busy` hold the loop; at those in `Waiting` the coroutine is
suspended, and any other may go on. Between two suspensions each transaction is
an action of its own, because other processes commit in between, but the other
coroutines of the same worker wait (`LoopFree`). One action per transaction
or decision of `run()`; the handlers `except CancelledError` (`Abort`) and
`except Exception` (`FailDeployment`) are actions, as are failures outside them
(`EnvFails`, `TaskRaises`).

**DeployOnline.** Adds the history variables `warned` (the deployment was asked to
stop before its run had made its last check) and `late` (the steps started after
the request), the properties, and fairness.

**SerialQueue.** A queue per project: `Submit`, `Begin` (the head of the queue of a
project nobody of which is executing), `Withdraw`, `End`. No database, no claim, no
process. `Phase(d)` maps a row and its coroutine to it: a deployment executes
while a coroutine exists for it, whatever its row says.

**StepRunner.** One call of `execute_step`. `at` is where the coroutine is suspended
(`wait` is the `wait_for`, `reap` the `proc.wait()` of a handler, `close` the finally
clause); `shell`, `exit` and `rest` are the child, how it ended and what else is in its
process group, `quiet` or `holding` the pipes. A dead child becomes `known` when the loop
hears of it: until then `kill_process_group` kills the group, after that it does nothing.
`Task.cancel` while the shell is being made may come before it is there or leave it to be
killed by asyncio alone (`Stop` at `spawn`). `Faults` are a failing spawn, a failing query
or flush (`db`) and a line beyond the reader's limit (`output`).

**StepContract.** The outcomes of a step: ok, fail, cancel, abort (the task was
cancelled), raise. "cancel" has a cause: a request, or a command that ended with
130 by itself. These are the ways `StepReturns`, `CancelTasks` and `RunFails` of
`DeployWorker` continue.

**LogBroker.** `emit`, `flush` and `finish` never suspend once they have the lock,
so each is one action, but `finish` is two (`FinishFlush`, `FinishCommit`), because
the feed reads between its commits and a kill may come. A failed flush raises
into the step, which may absorb it, or into `run()`, whose handler emits and
finishes once more; a second failure ends the task (`lost`). When one `read_stream`
raises, `gather` leaves the other one alone: `reader` says that one has outlived its step, and
`EmitLate` that it emits after the run is over; `own` counts the lines said until then.
`recover_stale` is two actions (`RecoverRead`, `RecoverCommit`). `MarkStep` is any commit of
`deployment_state.py` that changes step rows, and `rows` counts their revisions.
`CancelCommit` writes the version computed from `CancelRead`.

**LiveFeed.** `ReadJob`, `ReadLogs`, `Connected` are the three queries before the
first messages; `PollJob`, `PollLogs`, `PollStatus` a turn of the loop. The client
keeps what it was sent and starts over after `Drop`.

**LogStream.** Lines said by the run, kept in the database and seen by the client:
each a beginning of the one before. `Write` says at most one more line and keeps some;
`Show`, `Restart` and `Close` are the client's side, and `Close` needs the run's own lines seen
or, if the worker is dead, all that is kept. After it the run says nothing; what a reader that
outlives it says is kept and owed to nobody. `dead` and `loose`
(a kill, a late cancel) are the two events that weaken the promise. No buffer,
timer, cursor or query.

**Members.** A request is a record of what it has read and is going to write.
`WriteUser` and `WriteProject` have the foreign keys, the unique name and the row
count of an UPDATE as guards; `Refused` is every other end. One id stands for a
user and its name.

**Startup.** `have` is the set of what the database contains, `version` the rows of
`alembic_version`. A starter looks (`Look`), may stamp (`Stamp` reads the version,
`StampCommit` writes the row), reads the version once (`Heads`, which refuses two rows) and
applies what it believes is missing: `Begin`, then one `Create` per statement that
SQLite commits by itself, then `Commit`, the transaction that ends with the
write of the version. Whoever read a row updates it and checks that it was there; who read none
inserts one unchecked, also beside another (`Writable`, `Write`: this is Alembic's doing, which is
not in the repository). The worker asks for no more than the schema (`ensure_schema`); the API
goes on to `InitDatabase`, the first administrator, one transaction because the
deletion of old logs has begun it. The seven old and new tables of 0001 and 0002 are two
each (`users` and the rest), enough for a kill or another starter in between; 0004 is its table
and the two indexes, which it leaves out when it finds the table. A database
that is found at the last revision is one this release left: its members are operators.

Two constants of `DeployWorker` choose between what the program does and a variant of it:

* `NaiveTimes = TRUE` is the program as built: `mark_step_finished` subtracts a
  time it read back from SQLite, which has no zone, from one that has, and
  raises. Run `naive_times` shows the consequence. As this ends every
  deployment after its first step, the runs that look at later steps set `FALSE`
  and show the protocol apart from that defect. `pool` keeps `TRUE`. The proofs
  cover both.
* `Faults` is what the environment may do: `crash` (kill), `env` (a secret does not
  decrypt), `db` (a transaction of a worker fails), `exec` (`execute_step` raises before it
  has a child), `sigint` (a command ends with 130 by itself). The proofs
  cover every subset.

Left out on purpose: git SHAs, durations, notes, timestamps and `state_version` (no
property of these modules reads them); the deployment of a deleted project
(the foreign key is RESTRICT, so the branch cannot be reached); step types and
paths that `execute_step` answers without suspending (the point `exec` also
lets others run there, which only adds behaviours); that `Deploy` reads the
project, its steps and its environment in several SELECTs before it inserts, so that an update
in between tears the snapshot, makes the insert fail, or is overtaken by the
deployment of a project it has disabled (planned, `ProjectConfig`); that the
id of a deleted step may be given to a new one, so that a step row is linked to a
step of another project (planned, `ProjectConfig`).

## 3. Runs

The runs of the first group use `MCDeployOnline`, `steps` checks `StepRunner`, `feed` and
`unstorable` check `LiveFeed`, `startup` checks `Startup`. Deadlock is checked only in
`steps`: in the others the system rightly has nothing left to do when the
bounds are reached, the feed is closed or a migration cannot be repeated.

| Run | Question | Bounds |
|---|---|---|
| `core` | one worker: are the deployments of a project serial, in order and at most once, none overtaken; does cancellation take effect; are outcomes final, rows owned; does it implement the queue | 2 deployments of 2 steps, 2 projects, 1 request thread, kills and undecryptable secrets; 738 thousand states |
| `pool` | what the claim still guarantees with two workers and failing transactions | 2 deployments of 0 or 1 step, 2 workers, faults `db`, `exec`, `sigint`; 4.0 million states |
| `liveness` | is every waiting deployment taken up, does every running one end, is the capacity kept, is a success what its rows say, under project edits, cancels and kills | 2 deployments, 2 projects, 1 worker with capacity 1; 776 thousand states |
| `steps` | what a step answers and leaves behind, that it ends, and that it keeps its contract | one step, every fault; complete, no bound; 4 thousand states |
| `feed` | are lines lost, doubled or late; is what a client has when the feed closes all there is; does it implement the stream | one deployment, batches of 2, 3 lines and the last ones, 1 step commit, 1 failed commit, 1 kill, 1 cancel, 1 dropped connection, 1 reader that outlives its step; 807 thousand states |
| `startup` | is the schema whole whenever a process is up, does every start end, do rights come from requests only | 2 starters, all initial databases, 1 kill, 2 requests in 2 threads, 2 users, 1 project; 2.5 million states |
| `two_workers` | *violation*: with two workers two deployments of one project run at once | |
| `edited_project` | *violation*: after a project edit a success keeps steps that say `pending` | |
| `naive_times` | *violation*: a deployment fails with no failed step | |
| `bad_secret` | *violation*: an undecryptable secret leaves a deployment running for ever | |
| `abandoned_step` | *violation*: a deployment aborted by a shutdown keeps a step that says `running` | `NaiveTimes = FALSE`, no faults |
| `unstorable` | *violation*: a run that comes to its end writes no status, since its lines cannot be stored | batches of 20 as in the code, 3 lines |

Why the bounds are enough for what the runs ask: two deployments are the fewest that
can compete for a project, a claim or a place in the queue, and two projects
the fewest between which capacity is shared; two steps give a "next step" after a
cancel or failure, and an order. One request thread makes every stale
cancel: its read and its commit may be any distance apart. Updates switch a
project off (`EnabledTo`) only in `edited_project`, since that only takes requests away. What
the size of the instance could hide, the theorems cover. In `feed`, batches of two
reach every branch of `emit` (below the limit, at it, beyond it after a failure); one
step commit gives a late cancel a version that was already sent. In `startup`, two requests are
the fewest that overlap, and one kill leaves anything half done. Symmetry (of projects, clients
and workers) is used only in runs without liveness.

What the properties say:

* `TypeOK`; `ProcessInv` and `ClaimInv` are the inductive invariants of the proofs.
* `WorkerSerial`, `ProjectSerial`: deployments of a project one at a time, within a
  worker and across the system. The latter is false with two workers.
* `NotOvertaken`: while a deployment is under way every older one of its project has its
  final status; none waits and none was left running by a task that raised. False with
  two workers, which may select the same candidates and claim one after the other.
* `ClaimedOnce`, `ClaimedInOrder`: a deployment is handed to a coroutine at most
  once and only out of the queue, and in the order of submission.
* `CancelStopsNewSteps`: at most the one step `run()` had decided on starts after
  the request. `CancelHonoured`: asked to stop before the last check, a
  deployment never becomes a success.
* `OutcomeIsFinal`: an outcome changes only for a deployment that was asked to
  stop. (A cancel that read `pending` may land on a deployment that is over and turn its
  success into `cancelled`; that is why the property has its exception.)
* `RunningIsOwned`, `RunningEnds`, `PendingIsServed`: no row is left behind.
* `BoundedConcurrency`: a worker never has more coroutines than its capacity (one, in
  `liveness`, with two projects that both have deployments waiting).
* `SuccessHonest`, `StepsInOrder`: what the step rows say while they can be found.
* `ImplementsQueue`, `ImplementsStream`: the refinements.
* `NothingLeftBehind`: a step that is over has no living shell and no watcher, and
  background processes survive it only if the shell ended by itself or was only being made
  when the worker stopped. The README of
  the repository (line 113) promises no background process at all; that is
  more than `kill_process_group` does once it knows the shell's end.
* `AskedInTime`: a cancellation asked for before the command ended is never answered
  with a success. `ImplementsContract`: "cancelled" has a cause.
* `StepEnds` (with the timer) and `CancelEnds` (without): nothing blocks a step; a
  cancellation ends it unless the watcher has failed or a background process
  holds the pipes of a shell that ended by itself.
* `NothingLost`, `EndedWithLogs`: stored and buffered lines together are the emitted ones,
  in order, through every failed flush; a status written by the run comes after all lines it
  said. Not after those of a reader that outlives it, which are stored or lost with the worker.
* `ShownIsPrefix`, `TailIsComplete`, `StepsAreFinal`: what the client sees, and that
  what it has when the feed closes is every line the run said, and the steps that stay. Lines
  that a surviving reader stores later are for who connects again. The exceptions are real: a late
  cancel (`overruled`) ends a deployment whose run goes on and may set
  `state_version` back, and `recover_stale` (`recovered`) changes step rows without
  a new version. TLC finds a violation when either is dropped.
* `LinesArrive`: the timer and the feed alone bring a line to the client, also after a commit has
  failed, from the next flush that succeeds on (`_delayed_flush` does not try again by itself).
* `SchemaWhole`, `NoGrantByStart`: whatever a second starter repeats, a process that is up has
  the whole schema and no start gives rights back. Except after a stamp
  that came late (`setBack`): a starter that saw no version table may stamp the
  baseline after the other one has migrated; then both fail. And except for the indexes of
  `project_members`: they may be on their way in the other process, or lost for ever by a
  kill after their table (`cut`), since 0004 looks only for the table.
* `AdminRemains`, `MembersAreOperators`: hold while requests do not overlap and nobody
  demotes an administrator; `delete_user` counts the administrators and
  `validate_project` looks at roles before the transaction, and `update_user` does not count.
  The first counts from when the API has been up: a worker that is up before it serves a
  database without any user.
* `StartsEnd`: every start ends with a process that is up, unless a kill hit the
  revisions 0001 or 0002 between two CREATEs, or a stamp (`torn`): those cannot be
  repeated, and every later start fails until somebody repairs the file. Or unless a late stamp put
  its row beside that of the other starter: Alembic then refuses every upgrade.

Every property of a passing run is broken by a mutant of the code's model, listed in
`PROJECT.json`; the mutants are definitions beside the ones they replace.

**Fairness.** Weak fairness of each worker's process steps (recovery, polling, drain), of
systemd's restart and of each coroutine. The event loop resumes what is ready and a step
ends by itself or by its timeout (`execute_step`: `wait_for`), so a coroutine is never
stuck at `exec`; `Restart=on-failure` starts a worker that failed. Nothing obliges anybody
to start a stopped worker, to deploy or to cancel, so `Start`, `Stop` and the API have
none, and the liveness properties end in "or the worker is off" (`AllOff`). They also
assume that kills end some day (`CrashesEnd`): a worker killed over and over serves
nobody.

`StepRunner`: the loop runs the coroutine, the watcher and the news of a dead
child; the command need not end, and the timer is assumed only in `StepEnds`, which
`wait_for` justifies. `LiveFeed`: the feed's turns, the delayed flush, and a
coroutine that holds the loop; the run itself need not end, except in
`StatusIsWritten`. `Startup`: each starter goes on, and systemd restarts it
(`Restart=on-failure`, which both units have).

## 4. Findings

1. `two_workers`: the comment at `services/worker_state.py:45` says a project is
   never executed twice even with several workers. The check is in the SELECT,
   the claim in a later transaction, and a second worker's `recover_stale` fails
   the rows of a living one.
2. `edited_project`: `README.md:11` says history is not affected by later changes of
   the project. Saving it clears `source_step_id`, and the run's updates of its
   step rows find nothing.
3. `naive_times`: `mark_step_finished` raises on the first step that returns.
4. `bad_secret`: `_build_environment` is called before the `try` of `run()`.
5. `abandoned_step`: a task cancelled at shutdown ends its deployment but not its
   step; `recover_stale` looks only at deployments that are running. (With `NaiveTimes = TRUE`
   the same is reached without a shutdown, by finding 3.)
6. `unstorable`: lines carry `steps.id`, the foreign key of `logs.step_id` wants
   `deployment_steps.id`. With two projects of two steps, the second one's
   steps have the ids 3 and 4, and its first deployment the rows 1 and 2: no
   line of a step can be stored, `finish` raises, its handler raises, the
   row stays `running`.

Three more outcomes of the start are exceptions of its properties and no run of their own,
since no text of the repository says otherwise: a late stamp sets the version back
(`setBack`), or leaves two version rows, and a kill inside 0004 loses its indexes (`cut`).

## 5. Proofs

Assumed of the core: ids are positive naturals (`DeploymentsAssumption`),
`Projects` is finite (the capacity is a cardinality), `MaxConcurrency` is positive,
the constants have their types. Nothing else: the theorems hold for any number of
deployments, steps, projects and request threads, for any `Faults` and both
values of `NaiveTimes`. Those marked (1) assume `OneWorker`; the others hold for any
set of workers. The step, the feed and the start are proved for any faults, batches
of at least two (`BatchAssumption`; the code's are 20), lines, step ids other than
`None` (`NoneAssumption`), users, projects, request threads, starters and kills; the API is
one of the starters and the administrator of the configuration one of the users
(`StarterAssumption`, `AdminAssumption`), and the bound on kills is a number (`KillsAssumption`).

| Theorem | Says | By |
|---|---|---|
| `TypeCorrect` | `[]TypeOK` | inductive as it stands, once an idle request is told from an active one |
| `Invariance` | `[](ClaimInv /\ LateInv /\ WarnedInv)` | below |
| `OneAtATime` | `[]WorkerSerial` | `ClaimInv` |
| `AtMostOnce` | `ClaimedOnce` | `ClaimInv` |
| `CancelStops` | `[]CancelStopsNewSteps` | `LateInv` |
| `CancelWins` | `[]CancelHonoured` | `WarnedInv` |
| `ServedInOrder` | `ClaimedInOrder` | `OrderInv` |
| `SerialWithOneWorker` (1) | `[]ProjectSerial` | `ClaimInv` |
| `OwnedWithOneWorker` (1) | `[]RunningIsOwned` | `ProcessInv` |
| `FinalWithOneWorker` (1) | `OutcomeIsFinal` | `ProcessInv` |
| `ProcessAccounts` (1) | `[]ProcessInv` | inductive with `ClaimInv` |
| `NoneIsOvertaken` (1) | `[]NotOvertaken` | `ServedInv`, `OrderInv` |
| `QueueImplemented` (1) | `ImplementsQueue` | `ClaimInv`, `OrderInv` |
| `QueueInTurn`, `QueueSerial` | of `SerialQueue` alone: in turn, one at a time | `NoGaps` |
| `RowsAccounted` | `[]RowsInv` | with `ClaimInv`, `WarnedInv` |
| `StepsOrdered`, `SuccessIsHonest` | `[]StepsInOrder`, `[]SuccessHonest` | `RowsInv` |
| `CapacityAccounted` | `[]CapacityInv` | with `ClaimInv` |
| `CapacityKept` | `[]BoundedConcurrency` | `CapacityInv`, `ClaimInv` |
| `StepTypeCorrect`, `NothingIsLeft`, `AskedIsAnswered` | `TypeOK`, `NothingLeftBehind`, `AskedInTime` of a step | `Child`, `Coded`, `Causes` |
| `ContractKept` | `ImplementsContract` | the same |
| `FeedTypeCorrect` | `TypeOK` of the feed | inductive as it stands |
| `NoLineLost`, `LogsBeforeStatus` | `[]NothingLost`, `[]EndedWithLogs` | `Broker`, `Settled` |
| `PrefixShown`, `TailComplete`, `StepsFinal` | `[]ShownIsPrefix`, `[]TailIsComplete`, `[]StepsAreFinal` | `Feed` over `Moves` |
| `StreamImplemented` | `ImplementsStream` | all of the above |
| `StartupTypes` | `TypeOK` of the start | `Creating` |
| `WholeSchema` | `[]SchemaWhole` | `Schema`, `Indexing` |
| `NoGrant` | `NoGrantByStart` | `Schema` |
| `AdminStays` | `[]AdminRemains` | `Schema`, `Accounts` |
| `OperatorsOnly` | `[]MembersAreOperators` | `Schema`, `Membership` |

Why each strengthening is needed. `WorkerSerial` speaks of coroutines; what
keeps them apart is the dictionary `tasks`, so `TasksCover` says that every
coroutine on the loop is the task of its project and that no candidate is of a
project the loop serves. That `reap_done` does not drop a live one needs
`LoopHasLive`; that a claimed row has never had a coroutine, and that every
request names an existing row, is `RowsBehind`. `LateInv` adds that the counter
is zero where the decision to start a step has been made, `WarnedInv` that a
warned run has decided against success when it is about to write. `OrderInv`
says that a candidate comes with the older waiting rows of its project, which the
SELECT's limit could cut off were it not ordered by id. `ProcessInv` ties the
process to its rows and is false for two workers: a second one's recovery takes
rows of the first. Of a process that recovers it says that the rows it has found are
still running, or were asked to stop since, so that its transaction overwrites no other outcome.

The many actions are reduced to a few shapes (`RunShape`, `InsertShape`,
`CancelShape`, `ClaimShape`, ...) and each invariant is shown to survive each
shape. The refinement maps a claim to `Begin`, the end of a coroutine or the kill of a
process to `End`, a cancellation of a waiting row to `Withdraw`, an insertion to
`Submit`, everything else to a stutter. `SerialQueue`'s own actions only look at the
head of a queue; that nobody is overtaken later is shown of it by induction
(`QueueInTurn`), and of the rows themselves by `ServedInv`: what the SELECT saw of a project,
that no row of it runs, holds until the commit, because with one worker nobody
else claims.

*The step rows.* `RowsInv` holds for any number of workers, although a second one's
recovery may fail the row of a step that the first is still carrying out. So it says
of the rows around the position of `run()` what only the coroutine decides (before it
carried out, after it not begun) and of the row at the position, once it was marked,
nothing. What other threads do to rows is *quiet* (`QuietRows`): a cancel may take a row from
pending to cancelled, a recovery one from running to failed, an edit unlinks them
all, and none of these breaks the order. That a success has only successes behind
it needs the value of `success` while `run()` is between two steps (`RowsWon`).

*Capacity.* The bound is one on `tasks`: the claim takes at most the capacity minus the
projects held, from rows that may have changed since they were read. `TableBounded` says
that the table has a last row, which makes what the claim counts a finite set; the
coroutines of a worker are mapped one to one to the projects it holds (`TasksCover`), so
there are not more of them.

*The step.* `Child` says where the coroutine may be while the shell or its
watcher is alive, which is what the handlers' kills establish; `Coded` that an
exit code is there wherever one is returned; `Causes` where each code and the flags
come from. The refinement maps the action that leaves `execute_step` to
`Return`, a request to `Ask`, a command that ends with 130 to `Interrupt`,
`Task.cancel` to `Stop`, and everything else to a stutter.

*The feed.* The proof has two layers. `BInv` is the worker's alone: what is in memory in
each phase (`Broker`), and that the row of a deployment that is over and was not overruled
changes no more and has the run's own lines behind it (`Settled`). All the feed needs of
it is `Moves`: logs only grow, versions go back only when overruled, a settled row keeps
still. `FInv` adds what the feed has read (`Feed`): since it reads the row before the
logs, an end it has seen stands before the logs it reads next. The facts on `\o`, `SubSeq`
and `Append` are those of `SequenceTheorems`. The refinement maps a kill to `Die`, a late
cancel to `Overrule`, every other step of the worker to `Write` or a stutter (`Spoken`), a
message to `Show`, or to `Close` if the feed ends with it, a cut to `Restart`. After the
end of a stream only a reader that outlived the run writes, whose lines `Write` allows:
`Settled` shows that the run says nothing then.

*The start.* `Schema` ties each process to what it has found and created: a process
never believes a revision that is not there, and of the one it is in, what it
passed exists. It holds as long as no stamp set the version back (`~ setBack`), which is
why the properties have that exception. `Indexing` says that one starter at most is between the
table of 0004 and the last of its indexes (the second one would have failed at the table), and
that they are there or in its hands, unless it was killed; it holds after a late stamp as well.
`Accounts` adds that whoever is about to delete an
administrator has counted another, `Membership` that what a request has
read is still so, which overlap would break. For `TypeOK`, `Creating` says
that a process inside a revision is one before the last.

Only model-checked: liveness (`PendingIsServed`, `RunningEnds`, `StepEnds`, `CancelEnds`,
`LinesArrive`, `StartsEnd`), since TLAPS handles neither fairness nor ENABLED. Every
other property of a passing run is a theorem.

## 6. Not modelled

* **Login**: sessions are signed cookies; the limiter's list shared by threads is
  planned.
* **Secrets**: cryptography. That a stored value cannot be decrypted is the fault `env`.
* **Old data**: 0002 refuses a database with dangling references and 0005 removes
  duplicate memberships; the databases `Startup` begins with have neither.
  `init_database` also deletes old logs and encrypts old secrets: no property reads them.
* **Listings, exports, notes, static files, request logging, frontend**: views of the state.

## 7. Plan

1. `ProjectConfig`: torn snapshots of `Deploy`, reuse of step ids, retry of an old
   snapshot, secrets that are left empty or begin with `enc:`.
2. The login limiter.
3. Proofs: what is left unproved is liveness. Its safety half can be stated: that a
   step is enabled wherever a run waits, written out without ENABLED.
