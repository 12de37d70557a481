----------------------------- MODULE StepRunner -----------------------------
(***************************************************************************)
(* One call of execute_step (services/execution.py): the coroutine, the    *)
(* shell it starts in a process group of its own (executor.py), what the   *)
(* shell leaves in the background, the task that watches for a cancel      *)
(* request, and the ways to leave the wait: the end of the child and of    *)
(* its output, the step's timeout, a failing reader, Task.cancel.          *)
(*                                                                         *)
(* Everything but the processes runs on one event loop, so what happens    *)
(* between two suspensions is one action.  A child that has exited is      *)
(* "dead" until the loop hears of it and sets proc.returncode ("known").   *)
(***************************************************************************)
CONSTANT
  Faults       \* what may fail: "spawn" the child, "db" a query or a log
               \* flush, "output" a line longer than the reader's limit

ASSUME FaultsAssumption == Faults \subseteq {"spawn", "db", "output"}

VARIABLES
  at,         \* where execute_step is suspended, or how it was left
  git,        \* the step is a git_pull
  shell,      \* the child: none, alive, dead, known
  exit,       \* how it ended
  rest,       \* others in its process group: none, with its pipes closed to
              \* them ("quiet") or still writing to them ("holding")
  watcher,    \* the task watch_cancel
  code,       \* the local variables code and was_cancelled
  cancelled,
  leaving,    \* how the try statement is left: return, abort, raise
  asked,      \* deployments.cancel_requested
  stopped,    \* Task.cancel was called
  early       \* history: asked while the child was alive

process == <<shell, exit, rest>>
outside == <<asked, stopped, early>>
vars    == <<at, git, process, watcher, code, cancelled, leaving, outside>>

Suspended == {"health", "spawn", "wait", "last", "reap", "close", "sha"}
Over      == {"returned", "aborted", "raised"}
ByItself  == {"zero", "nonzero", "130"}

TypeOK ==
  /\ at \in {"new"} \cup Suspended \cup Over
  /\ shell \in {"none", "alive", "dead", "known"}
  /\ exit \in {"none", "killed"} \cup ByItself
  /\ rest \in {"none", "quiet", "holding"}
  /\ watcher \in {"off", "asleep", "asking", "killed", "idle", "broken", "cancelled"}
  /\ code \in {"none"} \cup ByItself
  /\ at \in {"sha", "returned"} => code # "none"
  /\ leaving \in {"return", "abort", "raise"}
  /\ {git, cancelled, asked, stopped, early} \subseteq BOOLEAN

Init ==
  /\ at = "new"
  /\ git \in BOOLEAN
  /\ shell = "none" /\ exit = "none" /\ rest = "none"
  /\ watcher = "off"
  /\ code = "none" /\ cancelled = FALSE /\ leaving = "return"
  /\ asked \in BOOLEAN /\ stopped = FALSE /\ early = FALSE

-----------------------------------------------------------------------------
(* The processes.                                                            *)

\* Mutant: the shell alone is killed.
KillShell ==
  /\ shell' = IF shell = "alive" THEN "dead" ELSE shell
  /\ exit'  = IF shell = "alive" THEN "killed" ELSE exit
  /\ UNCHANGED rest

\* kill_process_group: nothing, once the return code is known.
KillGroup ==
  IF shell = "known" THEN UNCHANGED process
  ELSE /\ shell' = "dead"
       /\ exit'  = IF shell = "alive" THEN "killed" ELSE exit
       /\ rest'  = "none"

ShellEnds ==
  /\ shell = "alive"
  /\ shell' = "dead"
  /\ exit' \in ByItself
  /\ early' = asked
  /\ UNCHANGED <<at, git, rest, watcher, code, cancelled, leaving, asked, stopped>>

\* The command starts something in the background; it ends when it likes.
Background ==
  /\ \/ shell = "alive" /\ rest = "none" /\ rest' \in {"quiet", "holding"}
     \/ rest # "none" /\ rest' = "none"
  /\ UNCHANGED <<at, git, shell, exit, watcher, code, cancelled, leaving, outside>>

\* The event loop hears of the child's end.
ChildNoticed ==
  /\ shell = "dead"
  /\ shell' = "known"
  /\ UNCHANGED <<at, git, exit, rest, watcher, code, cancelled, leaving, outside>>

CancelRequested ==
  /\ ~ asked
  /\ asked' = TRUE
  /\ UNCHANGED <<at, git, process, watcher, code, cancelled, leaving, stopped, early>>

-----------------------------------------------------------------------------
(* watch_cancel.                                                             *)

WatcherWakes ==
  /\ watcher = "asleep"
  /\ watcher' = "asking"
  /\ UNCHANGED <<at, git, process, code, cancelled, leaving, outside>>

\* Mutant: watch_cancel asks once.
WatcherAnswerOnce ==
  /\ watcher = "asking"
  /\ \/ asked /\ KillGroup /\ watcher' = "killed"
     \/ ~ asked /\ watcher' = "idle" /\ UNCHANGED process
  /\ UNCHANGED <<at, git, code, cancelled, leaving, outside>>

\* cancel_checker answers, or raises in its thread.
WatcherAnswer ==
  /\ watcher = "asking"
  /\ \/ asked /\ KillGroup /\ watcher' = "killed"
     \/ /\ ~ asked
        /\ watcher' = IF shell = "known" THEN "idle" ELSE "asleep"
        /\ UNCHANGED process
     \/ "db" \in Faults /\ watcher' = "broken" /\ UNCHANGED process
  /\ UNCHANGED <<at, git, code, cancelled, leaving, outside>>

\* finally: watcher.cancel()
CancelWatcher ==
  watcher' = IF watcher \in {"asleep", "asking"} THEN "cancelled" ELSE watcher

-----------------------------------------------------------------------------
(* execute_step.                                                             *)

Leave(where) ==
  /\ at' = where
  /\ UNCHANGED <<git, process, watcher, code, cancelled, leaving, outside>>

LeaveWith(c) ==
  /\ at' = "returned" /\ code' = c
  /\ UNCHANGED <<git, process, watcher, cancelled, leaving, outside>>

Broken(fault) == fault \in Faults

\* The step is refused, has nothing to do, is a health check, or is announced
\* and started; each of these emits a line.
Begin ==
  /\ at = "new"
  /\ \/ LeaveWith("nonzero")
     \/ ~ git /\ (LeaveWith("zero") \/ Leave("health"))
     \/ Leave("spawn")
     \/ Broken("db") /\ Leave("raised")

Health ==
  /\ at = "health"
  /\ \/ \E c \in {"zero", "nonzero"} : LeaveWith(c)
     \/ Broken("db") /\ Leave("raised")

Spawn ==
  /\ at = "spawn"
  /\ \/ Broken("spawn") /\ Leave("raised")
     \/ /\ at' = "wait" /\ shell' = "alive" /\ watcher' = "asleep"
        /\ UNCHANGED <<git, exit, rest, code, cancelled, leaving, outside>>

\* The finally clause, entered with the result of the try statement.
Finally(how) ==
  /\ at' = "close" /\ leaving' = how
  /\ CancelWatcher
  /\ UNCHANGED <<git, process, outside>>

\* Mutant: any watcher that is done counts as a cancellation.
GatheredByAnyWatcher ==
  /\ at = "wait" /\ shell = "known" /\ rest # "holding"
  /\ \/ /\ watcher \in {"killed", "idle"}
        /\ cancelled' = TRUE /\ code' = "130"
        /\ Finally("return")
     \/ watcher \in {"asleep", "asking"} /\ Leave("last")

\* Both pipes are at their end and proc.wait() came back.
Gathered ==
  /\ at = "wait" /\ shell = "known" /\ rest # "holding"
  /\ \/ /\ watcher = "killed"
        /\ cancelled' = TRUE /\ code' = "130"
        /\ Finally("return")
     \/ watcher \notin {"killed", "broken"} /\ Leave("last")

\* Mutant: no last look at the request.
LastCheckSkipped ==
  /\ at = "last"
  /\ code' = exit /\ UNCHANGED cancelled
  /\ Finally("return")

\* cancel_checker once more, after the child's end.
LastCheck ==
  /\ at = "last"
  /\ cancelled' = asked
  /\ code' = IF asked THEN "130" ELSE exit
  /\ Finally("return")

\* Mutant: a handler that forgets the exit code.
HandleWithoutCode(c, how) ==
  /\ KillGroup
  /\ at' = "reap" /\ cancelled' = FALSE /\ leaving' = how
  /\ UNCHANGED <<git, code, watcher, outside>>

\* The handlers kill the group and wait for the shell.
Handle(c, how) ==
  /\ KillGroup
  /\ at' = "reap" /\ code' = c /\ cancelled' = FALSE /\ leaving' = how
  /\ UNCHANGED <<git, watcher, outside>>

\* Mutant: the timer covers the child but not its output.
TimeoutOfChild == at = "wait" /\ shell # "known" /\ Handle("nonzero", "return")

Timeout == at = "wait" /\ Handle("nonzero", "return")

\* watcher.result() raises what the watcher's query raised.
WatcherFailed ==
  /\ at = "wait" /\ shell = "known" /\ rest # "holding" /\ watcher = "broken"
  /\ Handle("nonzero", "return")

\* A reader fails on a long line or on a flush, or the last query fails.  The
\* reader of the other stream reads on (LogBroker).
Failure ==
  /\ \/ at = "wait" /\ (Broken("output") \/ Broken("db"))
     \/ at = "last" /\ Broken("db")
  /\ Handle("nonzero", "return")

\* The handler's last emit may fail in its turn.
Reaped ==
  /\ at = "reap" /\ shell = "known"
  /\ UNCHANGED <<code, cancelled>>
  /\ \/ Finally(leaving)
     \/ Broken("db") /\ Finally("raise")

Close ==
  /\ at = "close"
  /\ \/ leaving = "return" /\ Leave(IF git /\ code = "zero" THEN "sha" ELSE "returned")
     \/ leaving = "abort" /\ Leave("aborted")
     \/ leaving = "raise" /\ Leave("raised")

\* git_sha swallows every failure; the step is a success all the same.
Sha == at = "sha" /\ Leave("returned")

\* Task.cancel, by a worker that shuts down.  asyncio kills a shell that
\* create_subprocess_exec has forked and not returned yet, but not its group.
Stop ==
  /\ ~ stopped /\ at \in Suspended
  /\ stopped' = TRUE
  /\ \/ /\ at \in {"health", "spawn", "close", "sha"}
        /\ at' = "aborted"
        /\ UNCHANGED <<process, watcher, code, cancelled, leaving>>
     \/ /\ at = "spawn"
        /\ at' = "aborted" /\ shell' = "known" /\ exit' = "killed"
        /\ rest' \in {"none", "quiet", "holding"}
        /\ UNCHANGED <<watcher, code, cancelled, leaving>>
     \/ /\ at \in {"wait", "last"}
        /\ KillGroup
        /\ at' = "reap" /\ leaving' = "abort"
        /\ UNCHANGED <<watcher, code, cancelled>>
     \/ /\ at = "reap"
        /\ at' = "close" /\ leaving' = "abort"
        /\ CancelWatcher
        /\ UNCHANGED <<process, code, cancelled>>
  /\ UNCHANGED <<git, asked, early>>

-----------------------------------------------------------------------------
Step  == Begin \/ Health \/ Spawn \/ Gathered \/ WatcherFailed \/ LastCheck \/ Reaped
         \/ Close \/ Sha
Watch == WatcherWakes \/ WatcherAnswer

Next ==
  \/ Step \/ Watch \/ Timeout \/ Failure \/ Stop
  \/ ShellEnds \/ Background \/ ChildNoticed \/ CancelRequested
  \/ at \in Over /\ UNCHANGED vars

\* The loop runs what is ready: the coroutine, the watcher, the news of a
\* child.  Nothing obliges the command to end.
Fairness ==
  /\ WF_vars(Step) /\ WF_vars(WatcherWakes) /\ WF_vars(WatcherAnswer)
  /\ WF_vars(ChildNoticed)

Spec == Init /\ [][Next]_vars /\ Fairness

-----------------------------------------------------------------------------
(* What a caller gets: return code, code == 130 or was_cancelled.            *)

Answer ==
  CASE at = "returned" -> IF cancelled \/ code = "130" THEN "cancel"
                          ELSE IF code = "zero" THEN "ok" ELSE "fail"
    [] at = "aborted"  -> "abort"
    [] at = "raised"   -> "raise"
    [] OTHER           -> "none"

Contract == INSTANCE StepContract WITH outcome <- Answer, interrupted <- exit = "130"

-----------------------------------------------------------------------------
(* Properties.                                                               *)

\* Whatever happens to a step, it leaves no shell running and no watcher that
\* polls for it; and what the shell started in the background outlives the
\* step only if the shell ended by itself before anyone had to kill it, or was
\* only being started when the worker stopped.
\* (kill_process_group and the finally clause; README.md:113.)
NothingLeftBehind ==
  at \in Over =>
    /\ shell # "alive" /\ watcher \notin {"asleep", "asking"}
    /\ rest # "none" => exit \in ByItself \/ (at = "aborted" /\ watcher = "off")

\* A cancellation that was asked for before the command ended is never
\* answered with a success, even when the watcher slept through it.
AskedInTime == at = "returned" /\ early => Answer # "ok"

\* "Cancelled" means that somebody asked, or that the command itself ended
\* with 130; a step that timed out or failed is no cancellation.  The step
\* keeps the contract the run of a deployment relies on.
ImplementsContract == Contract!CSpec

\* A started step comes to an end if its timer fires: no child, no background
\* process that holds the pipes and no failure of the watcher blocks it.
StepEnds == WF_vars(Timeout) => (at \in Suspended ~> at \in Over)

\* A cancellation asked for while the command runs ends the step without the
\* help of the timer, unless the watcher's query failed, or the shell ends
\* first and leaves a process behind that holds its pipes.
CancelEnds ==
  (asked /\ at = "wait" /\ shell = "alive")
    ~> (at \in Over \/ watcher = "broken" \/ (rest = "holding" /\ exit \in ByItself))
=============================================================================
