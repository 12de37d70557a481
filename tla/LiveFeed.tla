------------------------------ MODULE LiveFeed ------------------------------
(***************************************************************************)
(* The WebSocket feed of a deployment (app.py, ws), a coroutine of the API *)
(* process, composed with the worker's side of the database (LogBroker).   *)
(* Every query of the feed has a snapshot of its own: the worker commits   *)
(* in between.  A client that was cut off connects again and starts over.  *)
(***************************************************************************)
EXTENDS LogBroker

CONSTANT MaxDrops  \* bound: how often a connection breaks

VARIABLES
  feed,        \* off; initial queries: job, logs; open; in a poll: polled,
               \* fetched; closed, by the feed itself
  job,         \* the deployment row as read last: status and version
  last,        \* last_status and last_state_version
  cursor,      \* last_log
  got,         \* log rows read and not sent
  shown,       \* the client: log lines,
  shownRows,   \* revision of the steps,
  drops        \* history

feedVars == <<feed, job, last, cursor, got, shown, shownRows, drops>>
vars     == <<brokerVars, feedVars>>

Row == [status |-> status, version |-> version]

TypeOK ==
  /\ BrokerTypeOK
  /\ feed \in {"off", "job", "logs", "open", "polled", "fetched", "closed"}
  /\ {job, last} \subseteq [status : {"pending", "running"} \cup Terminal, version : Nat]
  /\ cursor \in 0..Len(logs)
  /\ got \in Seq(Line) /\ shown \in Seq(Line)
  /\ shownRows \in 0..rows /\ drops \in Nat

Init ==
  /\ BrokerInit
  /\ feed = "off" /\ job = Row /\ last = Row /\ cursor = 0 /\ got = <<>>
  /\ shown = <<>> /\ shownRows = 0 /\ drops = 0

After(n) == SubSeq(logs, n + 1, Len(logs))

-----------------------------------------------------------------------------
(* The first three queries.                                                  *)

ReadJob ==
  /\ feed = "off"
  /\ feed' = "job" /\ job' = Row
  /\ UNCHANGED <<last, cursor, got, shown, shownRows, drops>>

ReadLogs ==
  /\ feed = "job"
  /\ feed' = "logs" /\ got' = logs
  /\ UNCHANGED <<job, last, cursor, shown, shownRows, drops>>

\* Mutant: the cursor is one line ahead.
ConnectedAhead ==
  /\ feed = "logs"
  /\ last' = job
  /\ shown' = got /\ got' = <<>> /\ cursor' = Len(got) + 1
  /\ shownRows' = rows
  /\ feed' = IF job.status \in Terminal THEN "closed" ELSE "open"
  /\ UNCHANGED <<job, drops>>

\* The steps; then the messages "connected" and "snapshot".
Connected ==
  /\ feed = "logs"
  /\ last' = job
  /\ shown' = got /\ got' = <<>> /\ cursor' = Len(got)
  /\ shownRows' = rows
  /\ feed' = IF job.status \in Terminal THEN "closed" ELSE "open"
  /\ UNCHANGED <<job, drops>>

-----------------------------------------------------------------------------
(* One turn of the loop: the row, the new lines, the status and the steps.   *)

\* Mutant: the feed closes as soon as it reads a final status.
PollJobAndClose ==
  /\ feed = "open"
  /\ job' = Row /\ last' = Row
  /\ feed' = IF status \in Terminal THEN "closed" ELSE "polled"
  /\ UNCHANGED <<cursor, got, shown, shownRows, drops>>

PollJob ==
  /\ feed = "open"
  /\ feed' = "polled" /\ job' = Row
  /\ UNCHANGED <<last, cursor, got, shown, shownRows, drops>>

\* Mutant: the cursor counts the messages of this turn.
PollLogsOfTurn ==
  /\ feed = "polled"
  /\ cursor' = IF After(cursor) = <<>> THEN cursor ELSE Len(After(cursor))
  /\ shown' = shown \o After(cursor)
  /\ feed' = "fetched"
  /\ UNCHANGED <<job, last, got, shownRows, drops>>

PollLogs ==
  /\ feed = "polled"
  /\ cursor' = Len(logs)
  /\ shown' = shown \o After(cursor)
  /\ feed' = "fetched"
  /\ UNCHANGED <<job, last, got, shownRows, drops>>

\* Mutant: the status is looked at again after the lines were sent.
PollStatusAgain ==
  /\ feed = "fetched"
  /\ last' = Row
  /\ shownRows' = IF version # last.version THEN rows ELSE shownRows
  /\ feed' = IF status \in Terminal THEN "closed" ELSE "open"
  /\ UNCHANGED <<job, cursor, got, shown, drops>>

\* Steps are read and sent only if the version of the row is another one.
PollStatus ==
  /\ feed = "fetched"
  /\ last' = job
  /\ shownRows' = IF job.version # last.version THEN rows ELSE shownRows
  /\ feed' = IF job.status \in Terminal THEN "closed" ELSE "open"
  /\ UNCHANGED <<job, cursor, got, shown, drops>>

\* The client goes away, a query fails or the API restarts.
Drop ==
  /\ feed \notin {"off", "closed"} /\ drops < MaxDrops
  /\ feed' = "off" /\ drops' = drops + 1
  /\ got' = <<>> /\ shown' = <<>> /\ shownRows' = 0 /\ cursor' = 0
  /\ UNCHANGED <<job, last>>

Poll     == PollJob \/ PollLogs \/ PollStatus
FeedNext == ReadJob \/ ReadLogs \/ Connected \/ Poll \/ Drop
FeedTurn == ReadJob \/ ReadLogs \/ Connected \/ Poll

Next ==
  \/ BrokerNext /\ UNCHANGED feedVars
  \/ FeedNext /\ UNCHANGED brokerVars

\* Both event loops run what is ready, timers included, and a coroutine that
\* holds the loop goes on.  The run need not end.
Fairness ==
  /\ WF_vars(FeedTurn /\ UNCHANGED brokerVars)
  /\ WF_vars(DelayedFlush /\ UNCHANGED feedVars)
  /\ WF_vars(LoopHeld /\ (FinishFlush \/ FinishCommit) /\ UNCHANGED feedVars)

Spec == Init /\ [][Next]_vars /\ Fairness

-----------------------------------------------------------------------------
(* Properties.                                                               *)

\* What the client sees is always a beginning of what is stored: no line
\* twice, none left out.  (app.py: the cursor last_log.)
ShownIsPrefix ==
  /\ Len(shown) <= Len(logs)
  /\ \A i \in DOMAIN shown : shown[i] = logs[i]

\* When the feed closes by itself, the client has the final status and every
\* line the run said, or, after a kill, every line that was stored: the feed
\* reads the row before the lines, and finish writes the lines before the row.
\* A late cancel breaks it: it ends a deployment whose run goes on.  What a
\* surviving reader says after the status is for those who ask again.
TailIsComplete ==
  feed = "closed" /\ ~ overruled =>
    last.status = status /\ (Len(shown) >= own \/ (crashed /\ shown = logs))

\* ... and the steps as they will stay, if the deployment ended by its run or
\* by a cancel in time.  recover_stale and a late cancel change step rows
\* without a new version.
StepsAreFinal ==
  feed = "closed" /\ ~ overruled /\ ~ recovered => shownRows = rows

\* Worker and feed keep the promise made to one who watches a deployment
\* (LogStream), reconnections, failed commits and a kill included.  (The
\* messages of ws in app.py; the order in LogBroker.finish.)
Stream == INSTANCE LogStream
  WITH said <- emitted, own <- own, kept <- logs, seen <- shown,
       closed <- (feed = "closed"), dead <- crashed, loose <- overruled
ImplementsStream == Stream!SSpec

\* A line the run said is shown within the timer and a turn of the feed,
\* though the run never ends and nothing else is emitted, also after a commit
\* has failed: from the next flush that succeeds on.  Excused: a kill, a late
\* cancel, and a flush that failed and was not yet tried again.
LinesArrive ==
  \A k \in 1..MaxLines :
    (own >= k /\ ~ failed) ~> (Len(shown) >= k \/ crashed \/ overruled \/ failed)

\* A run that comes to its end writes a final status.  (README.md:25.)
StatusIsWritten ==
  WF_vars((FinishFlush \/ FinishCommit) /\ UNCHANGED feedVars) =>
    (status = "running" ~> (status \in Terminal \/ crashed \/ faults > 0))
=============================================================================
