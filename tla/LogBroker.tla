----------------------------- MODULE LogBroker -----------------------------
(***************************************************************************)
(* The log broker of the worker (services/logging.py) and the rows of one  *)
(* deployment it is used for: lines are buffered, written in batches, by a *)
(* delayed flush, or by finish(), which ends the deployment.               *)
(*                                                                         *)
(* emit, flush and finish never wait once they have the lock, so nothing   *)
(* of the worker's event loop comes between; the two commits of finish are *)
(* two steps, because other processes read the database in between and the *)
(* worker may be killed.  What the run executes is left out: it marks step *)
(* rows and emits lines in any order, then it ends or raises.  A reader of *)
(* a command's output may outlive its step, and the run: gather leaves the *)
(* other one alone when one raises.                                        *)
(***************************************************************************)
EXTENDS Naturals, Sequences

CONSTANTS
  BatchSize,  \* LogBroker.batch_size
  StepIds,    \* steps.id of the snapshot's steps, which its lines carry
  RowIds,     \* deployment_steps.id, which logs.step_id must be one of
  None,       \* step_id of a line that belongs to no step
  MaxLines,   \* bound: lines the run emits before its last ones, and lines
              \* until a surviving reader is quiet
  MaxMarks,   \* bound: commits of the run that change step rows
  MaxFaults   \* bound: commits that fail

ASSUME BatchAssumption == BatchSize \in Nat \ {0, 1}
ASSUME NoneAssumption  == None \notin StepIds \cup RowIds
ASSUME BoundAssumption == MaxLines \in Nat /\ MaxMarks \in Nat /\ MaxFaults \in Nat

VARIABLES
  logs, status, version, rows,  \* the database: stored lines; status and
                                \* state_version of the deployment; a revision
                                \* number for its step rows
  buffer, timer,                \* LogBroker: buffers, flush_tasks
  phase,                        \* the worker and its task: idle, running,
                                \* finishing (between the commits of finish),
                                \* over, lost (the task raised), down,
                                \* recovering (recover_stale has read)
  handling,                     \* run() is in one of its except clauses
  reader,                       \* a read_stream outlives its step
  reading,                      \* cancel_deployment: what it has read, if it has
  emitted, own,                 \* history: all lines in order; how many of
                                \* them the run said before it was over
  faults, failed,               \* history: failed commits; the last flush failed
  crashed, recovered, overruled \* history: the worker was killed; recover_stale
                                \* ended the deployment; a cancel that had read
                                \* "pending" came late

database   == <<logs, status, version, rows>>
memory     == <<buffer, timer>>
lines      == <<emitted, own>>
failures   == <<faults, failed>>
history    == <<crashed, recovered, overruled>>
brokerVars == <<database, memory, phase, handling, reader, reading, lines, failures, history>>

Terminal == {"ended", "failed", "cancelled"}
Line     == [n : Nat, step : StepIds \cup {None}]

BrokerTypeOK ==
  /\ logs \in Seq(Line) /\ buffer \in Seq(Line) /\ emitted \in Seq(Line)
  /\ status \in {"pending", "running"} \cup Terminal
  /\ version \in Nat /\ rows \in Nat /\ faults \in Nat
  /\ timer \in {"off", "armed"}
  /\ phase \in {"idle", "running", "finishing", "over", "lost", "down", "recovering"}
  /\ reading \subseteq Nat /\ own \in Nat
  /\ handling \in BOOLEAN /\ reader \in BOOLEAN
  /\ failed \in BOOLEAN /\ crashed \in BOOLEAN
  /\ recovered \in BOOLEAN /\ overruled \in BOOLEAN

BrokerInit ==
  /\ logs = <<>> /\ status = "pending" /\ version = 0 /\ rows = 0
  /\ buffer = <<>> /\ timer = "off"
  /\ phase = "idle" /\ handling = FALSE /\ reader = FALSE
  /\ reading = {}
  /\ emitted = <<>> /\ own = 0 /\ faults = 0 /\ failed = FALSE
  /\ crashed = FALSE /\ recovered = FALSE /\ overruled = FALSE

-----------------------------------------------------------------------------
(* LogBroker.                                                                *)

\* flush: the foreign key holds and the commit succeeds.
Flush(batch) ==
  /\ \A i \in DOMAIN batch : batch[i].step \in RowIds \cup {None}
  /\ logs' = logs \o batch
  /\ buffer' = <<>> /\ faults' = faults /\ failed' = FALSE

\* Mutant: the buffer is emptied before the commit.
FlushEmptied(batch) ==
  /\ faults < MaxFaults /\ faults' = faults + 1 /\ failed' = TRUE
  /\ buffer' = <<>> /\ UNCHANGED logs

\* flush: the commit fails, the buffer stays.
FlushFails(batch) ==
  /\ \/ faults < MaxFaults /\ faults' = faults + 1
     \/ \E i \in DOMAIN batch : batch[i].step \notin RowIds \cup {None}
        /\ faults' = faults
  /\ buffer' = batch /\ failed' = TRUE
  /\ UNCHANGED logs

Next1 == Len(emitted) + 1

\* Mutant: emit starts no flush task.
ArmNothing == UNCHANGED timer

Arm == timer' = "armed"

\* emit: the line, and what becomes of the buffer.
Say(step) ==
  LET line  == [n |-> Next1, step |-> step]
      batch == Append(buffer, line)
  IN /\ emitted' = Append(emitted, line)
     /\ \/ /\ Len(batch) < BatchSize
           /\ buffer' = batch /\ Arm
           /\ UNCHANGED <<logs, failures>>
        \/ /\ Len(batch) >= BatchSize
           /\ Flush(batch)
           /\ timer' = "off"
        \/ /\ Len(batch) >= BatchSize
           /\ FlushFails(batch)
           /\ UNCHANGED timer

\* emit raises if its flush failed: then the buffer is still full.
EmitRaises == Len(buffer') >= BatchSize

\* emit for a step.  If it raises, that is in a reader or in execute_step,
\* where it fails the step, or in run().
Emit(step) ==
  /\ phase = "running" /\ ~ handling /\ Len(emitted) < MaxLines
  /\ Say(step)
  /\ own' = Len(emitted')
  /\ handling' \in {FALSE, EmitRaises}
  /\ UNCHANGED <<status, version, rows, phase, reader, reading, history>>

\* The event loop is given back only between these.
LoopHeld == phase = "finishing" \/ (phase = "running" /\ handling)

\* One reader raises (a line over the limit, a failed flush): execute_step
\* fails the step, and nothing cancels the other reader.
ReaderFails ==
  /\ phase = "running" /\ ~ handling /\ ~ reader
  /\ reader' = TRUE
  /\ UNCHANGED <<database, memory, phase, handling, reading, lines, failures, history>>

\* It says a line after the run.  Nobody awaits it: if its flush fails, it ends.
EmitLate(step) ==
  /\ reader /\ phase \in {"over", "lost"} /\ Len(emitted) <= MaxLines
  /\ Say(step)
  /\ reader' = ~ EmitRaises
  /\ UNCHANGED <<status, version, rows, phase, handling, reading, own, history>>

\* The end of its stream.
ReaderEnds ==
  /\ reader /\ ~ LoopHeld
  /\ reader' = FALSE
  /\ UNCHANGED <<database, memory, phase, handling, reading, lines, failures, history>>

\* _delayed_flush: its failure is swallowed, and no other one is started.
DelayedFlush ==
  /\ timer = "armed" /\ ~ LoopHeld
  /\ timer' = "off"
  /\ Flush(buffer) \/ FlushFails(buffer)
  /\ UNCHANGED <<status, version, rows, phase, handling, reader, reading, lines, history>>

\* Mutant: the status before the logs.
StatusFirst ==
  /\ phase = "running"
  /\ status' = "ended"
  /\ emitted' = Append(emitted, [n |-> Next1, step |-> None])
  /\ buffer' = Append(buffer, [n |-> Next1, step |-> None])
  /\ own' = Len(emitted')
  /\ timer' = "armed" /\ phase' = "over"
  /\ UNCHANGED <<logs, version, rows, handling, reader, reading, failures, history>>

\* The run emits its last line and calls finish; both flush the same lines.
\* finish cancels the delayed flush, unless emit has raised before.
FinishFlush ==
  LET line  == [n |-> Next1, step |-> None]
      batch == Append(buffer, line)
  IN /\ phase = "running"
     /\ emitted' = Append(emitted, line) /\ own' = Len(emitted')
     /\ \/ /\ Flush(batch)
           /\ timer' = "off"
           /\ phase' = "finishing" /\ UNCHANGED handling
        \/ /\ FlushFails(batch)
           /\ timer' = IF Len(batch) >= BatchSize THEN timer ELSE "off"
           /\ phase' = IF handling THEN "lost" ELSE "running"
           /\ handling' = TRUE
     /\ UNCHANGED <<status, version, rows, reader, reading, history>>

\* finish: the status.  The deployment may be told "failed" by the second try.
FinishCommit ==
  /\ phase = "finishing"
  /\ \/ status' = "ended" /\ phase' = "over" /\ UNCHANGED <<handling, faults>>
     \/ /\ faults < MaxFaults /\ faults' = faults + 1
        /\ phase' = IF handling THEN "lost" ELSE "running"
        /\ handling' = TRUE
        /\ UNCHANGED status
  /\ UNCHANGED <<logs, version, rows, memory, reader, reading, lines, failed, history>>

-----------------------------------------------------------------------------
(* The run, the worker's death, and the API.                                 *)

\* The claim, and the run's first line.
RunStart ==
  /\ phase = "idle" /\ status = "pending"
  /\ status' = "running" /\ phase' = "running"
  /\ buffer' = <<[n |-> 1, step |-> None]>> /\ emitted' = buffer' /\ own' = 1
  /\ timer' = "armed"
  /\ UNCHANGED <<logs, version, rows, handling, reader, reading, failures, history>>

\* Mutant: step rows change without a new version.
MarkStepSilently ==
  /\ phase = "running" /\ ~ handling /\ version < MaxMarks
  /\ rows' = rows + 1
  /\ UNCHANGED <<logs, status, version, memory, phase, handling, reader, reading, lines,
                 failures, history>>

\* mark_step_running, mark_step_finished, cancel_pending_steps
MarkStep ==
  /\ phase = "running" /\ ~ handling /\ version < MaxMarks
  /\ rows' = rows + 1 /\ version' = version + 1
  /\ UNCHANGED <<logs, status, memory, phase, handling, reader, reading, lines, failures,
                 history>>

\* An exception or Task.cancel reaches run().
RunRaises ==
  /\ phase = "running" /\ ~ handling
  /\ handling' = TRUE
  /\ UNCHANGED <<database, memory, phase, reader, reading, lines, failures, history>>

\* The worker is killed, or stopped after the run.
Crash ==
  /\ phase \notin {"idle", "down"} /\ ~ crashed
  /\ buffer' = <<>> /\ timer' = "off" /\ reader' = FALSE
  /\ phase' = "down" /\ crashed' = TRUE
  /\ UNCHANGED <<database, handling, reading, lines, failures, recovered, overruled>>

\* recover_stale reads, and has no write transaction yet.
RecoverRead ==
  /\ phase = "down"
  /\ phase' = IF status = "running" THEN "recovering" ELSE "over"
  /\ UNCHANGED <<database, memory, handling, reader, reading, lines, failures, history>>

\* It writes whatever the status is by now; it changes step rows and leaves
\* state_version alone.
RecoverCommit ==
  /\ phase = "recovering"
  /\ phase' = "over" /\ status' = "failed"
  /\ rows' \in {rows, rows + 1} /\ recovered' = TRUE
  /\ UNCHANGED <<logs, version, memory, handling, reader, reading, lines, failures, crashed,
                 overruled>>

CancelRead ==
  /\ reading = {} /\ status = "pending"
  /\ reading' = {version}
  /\ UNCHANGED <<database, memory, phase, handling, reader, lines, failures, history>>

\* It writes what it computed from its read, also over a later status.
CancelCommit ==
  /\ reading # {}
  /\ status' = "cancelled" /\ rows' = rows + 1
  /\ \E read \in reading : version' = read + 1
  /\ overruled' = (status # "pending")
  /\ reading' = {}
  /\ UNCHANGED <<logs, memory, phase, handling, reader, lines, failures, crashed, recovered>>

BrokerNext ==
  \/ \E s \in StepIds : Emit(s) \/ EmitLate(s)
  \/ ReaderFails \/ ReaderEnds
  \/ DelayedFlush \/ FinishFlush \/ FinishCommit
  \/ RunStart \/ MarkStep \/ RunRaises \/ Crash \/ RecoverRead \/ RecoverCommit
  \/ CancelRead \/ CancelCommit

-----------------------------------------------------------------------------
(* Properties.                                                               *)

\* No line is lost, doubled or reordered, whatever flush fails and is tried
\* again: while the worker lives, what is stored and what is buffered is what
\* was emitted; after a kill, what is stored is its beginning.  (The comment
\* in LogBroker.flush; the retries of _delayed_flush and finish.)
NothingLost ==
  /\ ~ crashed => logs \o buffer = emitted
  /\ Len(logs) <= Len(emitted)
  /\ \A i \in DOMAIN logs : logs[i] = emitted[i]

\* A deployment that ended by its run has every line stored that was said
\* until then: finish writes the logs first.  What a surviving reader says
\* later is stored as any other line, or lost with the worker.
EndedWithLogs == status = "ended" => Len(logs) >= own
=============================================================================
