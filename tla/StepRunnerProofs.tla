-------------------------- MODULE StepRunnerProofs --------------------------
(***************************************************************************)
(* What execute_step leaves behind and answers, for any set of faults:     *)
(* type correctness, the safety invariants of StepRunner, and that it      *)
(* keeps StepContract.  Inv says where the child may be alive (Child),     *)
(* which ways into "return" have an exit code (Coded), and what an answer  *)
(* was caused by (Causes).                                                 *)
(***************************************************************************)
EXTENDS StepRunner, TLAPS

Leaving == {"close", "sha"} \cup Over

\* Before the wait there is no child; after it no shell is alive, and what is
\* left of its group ended up alone by itself, or with a shell that was only
\* being started.
Child ==
  /\ at \in {"new", "health", "spawn"} =>
       shell = "none" /\ rest = "none" /\ watcher = "off" /\ code = "none"
  /\ shell = "alive" => at = "wait"
  /\ shell \in {"none", "alive"} <=> exit = "none"
  /\ shell = "none" => rest = "none"
  /\ rest # "none" => \/ exit \in {"none"} \cup ByItself
                      \/ at = "aborted" /\ watcher = "off"
  /\ at \in Leaving => watcher \notin {"asleep", "asking"}
  /\ at \in {"wait", "last", "reap"} => shell # "none"

\* An exit code is there wherever it is returned.
Coded ==
  /\ at \in {"wait", "last"} => code = "none"
  /\ at \in {"reap", "close"} /\ leaving = "return" => code # "none"
  /\ at \in {"new", "health", "spawn", "wait", "last"} => leaving = "return"
  /\ at = "last" => shell = "known" /\ exit \in ByItself

\* What the watcher, the code and the flags were caused by.
Causes ==
  /\ watcher = "killed" => asked
  /\ at = "wait" /\ exit = "killed" => watcher = "killed"
  /\ cancelled => asked
  /\ code = "130" => asked \/ exit = "130"
  /\ leaving = "abort" \/ at = "aborted" => stopped
  /\ early => asked /\ code # "zero"
  /\ early => shell # "none"

Inv == TypeOK /\ Child /\ Coded /\ Causes

USE DEF Suspended, Over, ByItself, Leaving, process, outside

-----------------------------------------------------------------------------
\* The invariant holds before the step begins.
LEMMA InitInv == Init => Inv
  BY DEF Init, Inv, TypeOK, Child, Coded, Causes

\* Every step of the child, the watcher and the coroutine keeps it.
LEMMA NextInv == Inv /\ [Next]_vars => Inv'
<1>1. SUFFICES ASSUME Inv, [Next]_vars PROVE Inv'
  OBVIOUS
<1> USE DEF Inv
<1>2. CASE Begin
  <2>1. TypeOK'
    BY <1>1, <1>2 DEF TypeOK, Begin, LeaveWith, Leave, Broken
  <2>2. Child'
    BY <1>1, <1>2 DEF TypeOK, Child, Coded, Causes, Begin, LeaveWith, Leave,
       Broken
  <2>3. Coded'
    BY <1>1, <1>2 DEF TypeOK, Child, Coded, Causes, Begin, LeaveWith, Leave,
       Broken
  <2>4. Causes'
    BY <1>1, <1>2 DEF TypeOK, Child, Coded, Causes, Begin, LeaveWith, Leave,
       Broken
  <2>5. QED  BY <2>1, <2>2, <2>3, <2>4
<1>3. CASE Health
  <2>1. TypeOK'
    BY <1>1, <1>3 DEF TypeOK, Health, LeaveWith, Leave, Broken
  <2>2. Child'
    BY <1>1, <1>3 DEF TypeOK, Child, Coded, Causes, Health, LeaveWith, Leave,
       Broken
  <2>3. Coded'
    BY <1>1, <1>3 DEF TypeOK, Child, Coded, Causes, Health, LeaveWith, Leave,
       Broken
  <2>4. Causes'
    BY <1>1, <1>3 DEF TypeOK, Child, Coded, Causes, Health, LeaveWith, Leave,
       Broken
  <2>5. QED  BY <2>1, <2>2, <2>3, <2>4
<1>4. CASE Spawn
  <2>1. TypeOK'
    BY <1>1, <1>4 DEF TypeOK, Spawn, Leave, Broken
  <2>2. Child'
    BY <1>1, <1>4 DEF TypeOK, Child, Coded, Causes, Spawn, Leave, Broken
  <2>3. Coded'
    BY <1>1, <1>4 DEF TypeOK, Child, Coded, Causes, Spawn, Leave, Broken
  <2>4. Causes'
    BY <1>1, <1>4 DEF TypeOK, Child, Coded, Causes, Spawn, Leave, Broken
  <2>5. QED  BY <2>1, <2>2, <2>3, <2>4
<1>5. CASE Gathered
  <2>1. TypeOK'
    BY <1>1, <1>5 DEF TypeOK, Gathered, Finally, CancelWatcher, Leave
  <2>2. Child'
    BY <1>1, <1>5 DEF TypeOK, Child, Coded, Causes, Gathered, Finally,
       CancelWatcher, Leave
  <2>3. Coded'
    BY <1>1, <1>5 DEF TypeOK, Child, Coded, Causes, Gathered, Finally,
       CancelWatcher, Leave
  <2>4. Causes'
    BY <1>1, <1>5 DEF TypeOK, Child, Coded, Causes, Gathered, Finally,
       CancelWatcher, Leave
  <2>5. QED  BY <2>1, <2>2, <2>3, <2>4
<1>6. CASE WatcherFailed
  <2>1. TypeOK'
    BY <1>1, <1>6 DEF TypeOK, WatcherFailed, Handle, KillGroup
  <2>2. Child'
    BY <1>1, <1>6 DEF TypeOK, Child, Coded, Causes, WatcherFailed, Handle,
       KillGroup
  <2>3. Coded'
    BY <1>1, <1>6 DEF TypeOK, Child, Coded, Causes, WatcherFailed, Handle,
       KillGroup
  <2>4. Causes'
    BY <1>1, <1>6 DEF TypeOK, Child, Coded, Causes, WatcherFailed, Handle,
       KillGroup
  <2>5. QED  BY <2>1, <2>2, <2>3, <2>4
<1>7. CASE LastCheck
  <2>1. TypeOK'
    BY <1>1, <1>7 DEF TypeOK, Coded, LastCheck, Finally, CancelWatcher
  <2>2. Child'
    BY <1>1, <1>7 DEF TypeOK, Child, Coded, Causes, LastCheck, Finally,
       CancelWatcher
  <2>3. Coded'
    BY <1>1, <1>7 DEF TypeOK, Child, Coded, Causes, LastCheck, Finally,
       CancelWatcher
  <2>4. Causes'
    BY <1>1, <1>7 DEF TypeOK, Child, Coded, Causes, LastCheck, Finally,
       CancelWatcher
  <2>5. QED  BY <2>1, <2>2, <2>3, <2>4
<1>8. CASE Reaped
  <2>1. TypeOK'
    BY <1>1, <1>8 DEF TypeOK, Reaped, Finally, CancelWatcher
  <2>2. Child'
    BY <1>1, <1>8 DEF TypeOK, Child, Coded, Causes, Reaped, Finally,
       CancelWatcher
  <2>3. Coded'
    BY <1>1, <1>8 DEF TypeOK, Child, Coded, Causes, Reaped, Finally,
       CancelWatcher
  <2>4. Causes'
    BY <1>1, <1>8 DEF TypeOK, Child, Coded, Causes, Reaped, Finally,
       CancelWatcher
  <2>5. QED  BY <2>1, <2>2, <2>3, <2>4
<1>9. CASE Close
  <2>1. TypeOK'
    BY <1>1, <1>9 DEF TypeOK, Coded, Close, Leave
  <2>2. Child'
    BY <1>1, <1>9 DEF TypeOK, Child, Coded, Causes, Close, Leave
  <2>3. Coded'
    BY <1>1, <1>9 DEF TypeOK, Child, Coded, Causes, Close, Leave
  <2>4. Causes'
    BY <1>1, <1>9 DEF TypeOK, Child, Coded, Causes, Close, Leave
  <2>5. QED  BY <2>1, <2>2, <2>3, <2>4
<1>10. CASE Sha
  <2>1. TypeOK'
    BY <1>1, <1>10 DEF TypeOK, Sha, Leave
  <2>2. Child'
    BY <1>1, <1>10 DEF TypeOK, Child, Coded, Causes, Sha, Leave
  <2>3. Coded'
    BY <1>1, <1>10 DEF TypeOK, Child, Coded, Causes, Sha, Leave
  <2>4. Causes'
    BY <1>1, <1>10 DEF TypeOK, Child, Coded, Causes, Sha, Leave
  <2>5. QED  BY <2>1, <2>2, <2>3, <2>4
<1>11. CASE WatcherWakes
  <2>1. TypeOK'
    BY <1>1, <1>11 DEF TypeOK, WatcherWakes
  <2>2. Child'
    BY <1>1, <1>11 DEF TypeOK, Child, Coded, Causes, WatcherWakes
  <2>3. Coded'
    BY <1>1, <1>11 DEF TypeOK, Child, Coded, Causes, WatcherWakes
  <2>4. Causes'
    BY <1>1, <1>11 DEF TypeOK, Child, Coded, Causes, WatcherWakes
  <2>5. QED  BY <2>1, <2>2, <2>3, <2>4
<1>12. CASE WatcherAnswer
  <2>1. TypeOK'
    BY <1>1, <1>12 DEF TypeOK, WatcherAnswer, KillGroup
  <2>2. Child'
    BY <1>1, <1>12 DEF TypeOK, Child, Coded, Causes, WatcherAnswer, KillGroup
  <2>3. Coded'
    BY <1>1, <1>12 DEF TypeOK, Child, Coded, Causes, WatcherAnswer, KillGroup
  <2>4. Causes'
    BY <1>1, <1>12 DEF TypeOK, Child, Coded, Causes, WatcherAnswer, KillGroup
  <2>5. QED  BY <2>1, <2>2, <2>3, <2>4
<1>13. CASE Timeout
  <2>1. TypeOK'
    BY <1>1, <1>13 DEF TypeOK, Timeout, Handle, KillGroup
  <2>2. Child'
    BY <1>1, <1>13 DEF TypeOK, Child, Coded, Causes, Timeout, Handle, KillGroup
  <2>3. Coded'
    BY <1>1, <1>13 DEF TypeOK, Child, Coded, Causes, Timeout, Handle, KillGroup
  <2>4. Causes'
    BY <1>1, <1>13 DEF TypeOK, Child, Coded, Causes, Timeout, Handle, KillGroup
  <2>5. QED  BY <2>1, <2>2, <2>3, <2>4
<1>14. CASE Failure
  <2>1. TypeOK'
    BY <1>1, <1>14 DEF TypeOK, Failure, Handle, KillGroup
  <2>2. Child'
    BY <1>1, <1>14 DEF TypeOK, Child, Coded, Causes, Failure, Handle, KillGroup
  <2>3. Coded'
    BY <1>1, <1>14 DEF TypeOK, Child, Coded, Causes, Failure, Handle, KillGroup
  <2>4. Causes'
    BY <1>1, <1>14 DEF TypeOK, Child, Coded, Causes, Failure, Handle, KillGroup
  <2>5. QED  BY <2>1, <2>2, <2>3, <2>4
<1>15. CASE Stop
  <2>1. TypeOK'
    BY <1>1, <1>15 DEF TypeOK, Stop, KillGroup, CancelWatcher
  <2>2. Child'
    BY <1>1, <1>15 DEF TypeOK, Child, Coded, Causes, Stop, KillGroup,
       CancelWatcher
  <2>3. Coded'
    BY <1>1, <1>15 DEF TypeOK, Child, Coded, Causes, Stop, KillGroup,
       CancelWatcher
  <2>4. Causes'
    BY <1>1, <1>15 DEF TypeOK, Child, Coded, Causes, Stop, KillGroup,
       CancelWatcher
  <2>5. QED  BY <2>1, <2>2, <2>3, <2>4
<1>16. CASE ShellEnds
  <2>1. TypeOK'
    BY <1>1, <1>16 DEF TypeOK, ShellEnds
  <2>2. Child'
    BY <1>1, <1>16 DEF TypeOK, Child, Coded, Causes, ShellEnds
  <2>3. Coded'
    BY <1>1, <1>16 DEF TypeOK, Child, Coded, Causes, ShellEnds
  <2>4. Causes'
    BY <1>1, <1>16 DEF TypeOK, Child, Coded, Causes, ShellEnds
  <2>5. QED  BY <2>1, <2>2, <2>3, <2>4
<1>17. CASE Background
  <2>1. TypeOK'
    BY <1>1, <1>17 DEF TypeOK, Background
  <2>2. Child'
    BY <1>1, <1>17 DEF TypeOK, Child, Coded, Causes, Background
  <2>3. Coded'
    BY <1>1, <1>17 DEF TypeOK, Child, Coded, Causes, Background
  <2>4. Causes'
    BY <1>1, <1>17 DEF TypeOK, Child, Coded, Causes, Background
  <2>5. QED  BY <2>1, <2>2, <2>3, <2>4
<1>18. CASE ChildNoticed
  <2>1. TypeOK'
    BY <1>1, <1>18 DEF TypeOK, ChildNoticed
  <2>2. Child'
    BY <1>1, <1>18 DEF TypeOK, Child, Coded, Causes, ChildNoticed
  <2>3. Coded'
    BY <1>1, <1>18 DEF TypeOK, Child, Coded, Causes, ChildNoticed
  <2>4. Causes'
    BY <1>1, <1>18 DEF TypeOK, Child, Coded, Causes, ChildNoticed
  <2>5. QED  BY <2>1, <2>2, <2>3, <2>4
<1>19. CASE CancelRequested
  <2>1. TypeOK'
    BY <1>1, <1>19 DEF TypeOK, CancelRequested
  <2>2. Child'
    BY <1>1, <1>19 DEF TypeOK, Child, Coded, Causes, CancelRequested
  <2>3. Coded'
    BY <1>1, <1>19 DEF TypeOK, Child, Coded, Causes, CancelRequested
  <2>4. Causes'
    BY <1>1, <1>19 DEF TypeOK, Child, Coded, Causes, CancelRequested
  <2>5. QED  BY <2>1, <2>2, <2>3, <2>4
<1>20. CASE UNCHANGED vars
  <2>1. TypeOK'
    BY <1>1, <1>20 DEF TypeOK, vars
  <2>2. Child'
    BY <1>1, <1>20 DEF TypeOK, Child, Coded, Causes, vars
  <2>3. Coded'
    BY <1>1, <1>20 DEF TypeOK, Child, Coded, Causes, vars
  <2>4. Causes'
    BY <1>1, <1>20 DEF TypeOK, Child, Coded, Causes, vars
  <2>5. QED  BY <2>1, <2>2, <2>3, <2>4
<1>21. QED
  BY <1>1, <1>2, <1>3, <1>4, <1>5, <1>6, <1>7, <1>8, <1>9, <1>10, <1>11, <1>12,
     <1>13, <1>14, <1>15, <1>16, <1>17, <1>18, <1>19, <1>20 DEF Next, Step,
     Watch

\* The invariant of a step, in every reachable state.
LEMMA Invariance == Spec => []Inv
<1>1. Init => Inv
  BY InitInv
<1>2. Inv /\ [Next]_vars => Inv'
  BY NextInv
<1>3. QED
  BY <1>1, <1>2, PTL DEF Spec

-----------------------------------------------------------------------------
\* Every variable keeps its type, and a step that returned has an exit code,
\* whatever may fail.
THEOREM StepTypeCorrect == Spec => []TypeOK
<1>1. Inv => TypeOK
  BY DEF Inv
<1>2. QED
  BY <1>1, Invariance, PTL

\* Whatever fails, a step leaves no running shell and no polling watcher, and
\* background processes only of a shell that ended by itself, or that was only
\* being started when the worker stopped.
THEOREM NothingIsLeft == Spec => []NothingLeftBehind
<1>1. Inv => NothingLeftBehind
  BY DEF Inv, Child, NothingLeftBehind
<1>2. QED
  BY <1>1, Invariance, PTL

\* A cancellation asked for before the command ended is never answered with
\* a success.
THEOREM AskedIsAnswered == Spec => []AskedInTime
<1>1. Inv => AskedInTime
  BY DEF Inv, Causes, AskedInTime, Answer
<1>2. QED
  BY <1>1, Invariance, PTL

-----------------------------------------------------------------------------
\* The first state of a step is one of the contract.
LEMMA InitContract == Init => Contract!CInit
  BY DEF Init, Contract!CInit, Answer

\* Every step of the runner is a step of the contract or a stutter.
LEMMA StepContracted == Inv /\ [Next]_vars => [Contract!CNext]_(Contract!cvars)
<1>1. SUFFICES ASSUME Inv, [Next]_vars PROVE [Contract!CNext]_(Contract!cvars)
  OBVIOUS
<1> USE DEF Inv, Answer
<1>2. CASE Begin
  BY <1>1, <1>2 DEF TypeOK, Child, Coded, Causes, Begin, LeaveWith, Leave,
    Broken, Contract!cvars, Contract!CNext, Contract!Return
<1>3. CASE Health
  BY <1>1, <1>3 DEF TypeOK, Child, Coded, Causes, Health, LeaveWith, Leave,
    Broken, Contract!cvars, Contract!CNext, Contract!Return
<1>4. CASE Spawn
  BY <1>1, <1>4 DEF TypeOK, Child, Coded, Causes, Spawn, Leave, Broken,
    Contract!cvars, Contract!CNext, Contract!Return
<1>5. CASE Gathered
  BY <1>1, <1>5 DEF TypeOK, Child, Coded, Causes, Gathered, Finally,
    CancelWatcher, Leave, Contract!cvars
<1>6. CASE WatcherFailed
  BY <1>1, <1>6 DEF TypeOK, Child, Coded, Causes, WatcherFailed, Handle,
    KillGroup, Contract!cvars
<1>7. CASE LastCheck
  BY <1>1, <1>7 DEF TypeOK, Child, Coded, Causes, LastCheck, Finally,
    CancelWatcher, Contract!cvars
<1>8. CASE Reaped
  BY <1>1, <1>8 DEF TypeOK, Child, Coded, Causes, Reaped, Finally,
    CancelWatcher, Contract!cvars
<1>9. CASE Close
  BY <1>1, <1>9 DEF TypeOK, Child, Coded, Causes, Close, Leave,
    Contract!cvars, Contract!CNext, Contract!Return
<1>10. CASE Sha
  BY <1>1, <1>10 DEF TypeOK, Child, Coded, Causes, Sha, Leave,
    Contract!cvars, Contract!CNext, Contract!Return
<1>11. CASE WatcherWakes
  BY <1>1, <1>11 DEF TypeOK, Child, Coded, Causes, WatcherWakes,
    Contract!cvars
<1>12. CASE WatcherAnswer
  BY <1>1, <1>12 DEF TypeOK, Child, Coded, Causes, WatcherAnswer, KillGroup,
    Contract!cvars
<1>13. CASE Timeout
  BY <1>1, <1>13 DEF TypeOK, Child, Coded, Causes, Timeout, Handle,
    KillGroup, Contract!cvars
<1>14. CASE Failure
  BY <1>1, <1>14 DEF TypeOK, Child, Coded, Causes, Failure, Handle,
    KillGroup, Contract!cvars
<1>15. CASE Stop
  BY <1>1, <1>15 DEF TypeOK, Child, Coded, Causes, Stop, KillGroup,
    CancelWatcher, Contract!cvars, Contract!CNext, Contract!Stop
<1>16. CASE ShellEnds
  BY <1>1, <1>16 DEF TypeOK, Child, Coded, Causes, ShellEnds,
    Contract!cvars, Contract!CNext, Contract!Interrupt
<1>17. CASE Background
  BY <1>1, <1>17 DEF TypeOK, Child, Coded, Causes, Background,
    Contract!cvars
<1>18. CASE ChildNoticed
  BY <1>1, <1>18 DEF TypeOK, Child, Coded, Causes, ChildNoticed,
    Contract!cvars
<1>19. CASE CancelRequested
  BY <1>1, <1>19 DEF TypeOK, Child, Coded, Causes, CancelRequested,
    Contract!cvars, Contract!CNext, Contract!Ask
<1>20. CASE UNCHANGED vars
  BY <1>1, <1>20 DEF TypeOK, Child, Coded, Causes, vars, Contract!cvars
<1>21. QED
  BY <1>1, <1>2, <1>3, <1>4, <1>5, <1>6, <1>7, <1>8, <1>9, <1>10, <1>11, <1>12,
     <1>13, <1>14, <1>15, <1>16, <1>17, <1>18, <1>19, <1>20 DEF Next, Step,
     Watch

\* The step keeps the contract run() relies on: an exit code at most once,
\* "cancelled" and "abort" only with a cause, whatever fails.
THEOREM ContractKept == Spec => ImplementsContract
<1>1. Init => Contract!CInit
  BY InitContract
<1>2. Inv /\ [Next]_vars => [Contract!CNext]_(Contract!cvars)
  BY StepContracted
<1>3. QED
  BY <1>1, <1>2, Invariance, PTL DEF Spec, ImplementsContract, Contract!CSpec
=============================================================================
