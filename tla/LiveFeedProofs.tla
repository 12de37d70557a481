--------------------------- MODULE LiveFeedProofs ---------------------------
(***************************************************************************)
(* What LogBroker and LiveFeed promise about lines and steps, for batches  *)
(* of any size, any lines, faults and broken connections, and row ids that *)
(* may miss the lines' step ids.  BInv and FInv add to the properties what *)
(* the worker holds in each phase (Broker), that a deployment that is over *)
(* and was not overruled has its run's lines stored and changes no more    *)
(* but for what a surviving reader still says (Settled), and what the feed *)
(* knows between two of its queries (Feed).                                *)
(***************************************************************************)
EXTENDS LiveFeed, SequenceTheorems, TLAPS

Reading == {"job", "logs", "polled", "fetched"}

\* The lines in memory, and the phases of the worker.
Broker ==
  /\ ~ crashed => logs \o buffer = emitted
  /\ phase = "finishing" => buffer = <<>>
  /\ phase = "idle" <=> emitted = <<>>
  /\ phase = "idle" => logs = <<>> /\ buffer = <<>> /\ reader = FALSE
  /\ own <= Len(emitted)
  /\ phase \in {"idle", "running", "finishing"} => own = Len(emitted)
  /\ phase \in {"down", "recovering"} => crashed
  /\ crashed =>
       /\ phase \in {"down", "recovering", "over"}
       /\ timer = "off" /\ buffer = <<>> /\ reader = FALSE
  /\ phase = "recovering" => status = "running" \/ (overruled /\ status = "cancelled")
  /\ status = "pending" => phase = "idle" /\ version = 0 /\ reading \subseteq {0}
  /\ overruled => status \in Terminal /\ reading = {}
  /\ ~ overruled /\ ~ recovered => rows = version

\* Over and not overruled: the run's lines are stored, or went with a killed
\* worker, and the run neither says nor marks anything any more.
Settled ==
  /\ status \in Terminal /\ ~ overruled =>
       phase \in {"idle", "down", "over"} /\ (crashed \/ Len(logs) >= own)
  /\ status = "ended" => phase \in {"down", "over"} /\ Len(logs) >= own

\* All a client can get once the deployment is settled.
Whole(tail) == Len(tail) >= own \/ (crashed /\ tail = logs)

\* What was read of a settled deployment is still so.
Feed ==
  /\ feed \in {"off", "job", "logs"} => shown = <<>>
  /\ feed = "logs" => Len(got) <= Len(logs) /\ \A i \in DOMAIN got : got[i] = logs[i]
  /\ feed \in {"open", "polled", "fetched"} => cursor = Len(shown)
  /\ feed \in Reading /\ job.status \in Terminal /\ ~ overruled =>
       /\ job.status = status
       /\ feed = "logs" => Whole(got)
       /\ feed = "fetched" => Whole(shown)
       /\ ~ recovered => job.version = version
  /\ feed \in Reading /\ ~ overruled /\ ~ recovered => job.version <= version
  /\ feed \in {"open", "polled", "fetched"} /\ ~ overruled /\ ~ recovered =>
       last.version <= shownRows
  /\ feed = "closed" => last.status \in Terminal

BInv == BrokerTypeOK /\ Broker /\ NothingLost /\ Settled

FInv == /\ TypeOK /\ ShownIsPrefix /\ Feed
        /\ TailIsComplete /\ StepsAreFinal

\* What any step of the worker and the API does to the rows the feed reads.
Grows ==
  /\ Len(logs) <= Len(logs')
  /\ \A i \in DOMAIN logs : logs'[i] = logs[i]

Moves ==
  /\ Grows /\ rows <= rows'
  /\ overruled => overruled'
  /\ recovered => recovered'
  /\ crashed => crashed' /\ logs' = logs
  /\ status \in Terminal /\ ~ overruled' => UNCHANGED <<status, version, rows, own>>
  /\ ~ overruled' /\ ~ recovered' => version <= version'

USE DEF Terminal

-----------------------------------------------------------------------------
\* A flush moves lines from the buffer to the table or leaves them: it neither
\* loses nor doubles nor reorders one.
LEMMA Flushed ==
  ASSUME NEW batch \in Seq(Line), logs \in Seq(Line), faults \in Nat,
         Flush(batch) \/ FlushFails(batch)
  PROVE  /\ logs' \in Seq(Line) /\ buffer' \in Seq(Line) /\ faults' \in Nat
         /\ failed' \in BOOLEAN
         /\ logs' \o buffer' = logs \o batch
         /\ Grows
         /\ batch = <<>> => logs' = logs /\ buffer' = <<>>
<1>1. CASE Flush(batch)
  <2>1. logs' = logs \o batch /\ buffer' = <<>> /\ faults' = faults /\ failed' = FALSE
    BY <1>1 DEF Flush
  <2>2. logs' \in Seq(Line) /\ Grows
    BY <2>1, ConcatProperties DEF Grows
  <2>3. logs' \o buffer' = logs'
    BY <2>1, <2>2, ConcatEmptySeq
  <2>4. batch = <<>> => logs' = logs
    BY <2>1, ConcatEmptySeq
  <2>5. failed' \in BOOLEAN
    BY <2>1
  <2>6. QED  BY <2>1, <2>2, <2>3, <2>4, <2>5
<1>2. CASE FlushFails(batch)
  BY <1>2 DEF FlushFails, Grows
<1>3. QED
  BY <1>1, <1>2

\* One more line behind what is stored and buffered.
LEMMA OneMore ==
  ASSUME NEW a \in Seq(Line), NEW b \in Seq(Line), NEW x \in Line
  PROVE  /\ Append(b, x) \in Seq(Line) /\ Append(b, x) # <<>>
         /\ a \o Append(b, x) = Append(a \o b, x)
<1>1. Append(b, x) = b \o <<x>> /\ <<x>> \in Seq(Line)
  BY AppendIsConcat
<1>2. Append(a \o b, x) = (a \o b) \o <<x>>
  BY ConcatProperties, AppendIsConcat
<1>3. a \o Append(b, x) = Append(a \o b, x)
  BY <1>1, <1>2, ConcatAssociative
<1>4. QED
  BY <1>3, AppendProperties

\* What is stored is the beginning of what is stored and buffered.
LEMMA StoredFirst ==
  ASSUME NEW a \in Seq(Line), NEW b \in Seq(Line), NEW c, a \o b = c
  PROVE  Len(a) <= Len(c) /\ \A i \in DOMAIN a : a[i] = c[i]
  BY ConcatProperties

\* A line that is said is the last of what is stored and buffered.
LEMMA OneSaid ==
  ASSUME NEW step \in StepIds, BrokerTypeOK, logs \o buffer = emitted, Say(step)
  PROVE  /\ logs' \in Seq(Line) /\ buffer' \in Seq(Line) /\ emitted' \in Seq(Line)
         /\ faults' \in Nat /\ failed' \in BOOLEAN /\ timer' \in {"off", "armed"}
         /\ \E x \in Line : emitted' = Append(emitted, x)
         /\ Len(emitted') = Len(emitted) + 1 /\ emitted' # <<>>
         /\ logs' \o buffer' = emitted' /\ Grows
<1> DEFINE x == [n |-> Next1, step |-> step]
           batch == Append(buffer, x)
<1>1. /\ logs \in Seq(Line) /\ buffer \in Seq(Line) /\ emitted \in Seq(Line)
      /\ faults \in Nat /\ failed \in BOOLEAN /\ Next1 \in Nat
      /\ timer \in {"off", "armed"}
  BY LenProperties DEF BrokerTypeOK, Next1
<1>2. x \in Line
  BY <1>1 DEF Line
<1> HIDE DEF x
<1>3. batch \in Seq(Line) /\ logs \o batch = Append(emitted, x)
  BY <1>1, <1>2, OneMore
<1>4. emitted' = Append(emitted, x)
  BY DEF Say, x
<1>5. emitted' \in Seq(Line) /\ Len(emitted') = Len(emitted) + 1 /\ emitted' # <<>>
  BY <1>1, <1>2, <1>4, AppendProperties
<1>6. /\ logs' \in Seq(Line) /\ buffer' \in Seq(Line)
      /\ faults' \in Nat /\ failed' \in BOOLEAN
      /\ logs' \o buffer' = logs \o batch /\ Grows
  <2>1. CASE Flush(batch) \/ FlushFails(batch)
    BY <1>1, <1>3, <2>1, Flushed
  <2>2. CASE UNCHANGED <<logs, failures>> /\ buffer' = batch
    BY <1>1, <1>3, <2>2 DEF Grows, failures
  <2>3. QED
    BY <2>1, <2>2 DEF Say, x
<1>7. timer' \in {"off", "armed"}
  BY <1>1 DEF Say, Arm
<1>8. QED
  BY <1>2, <1>3, <1>4, <1>5, <1>6, <1>7

-----------------------------------------------------------------------------
\* The broker's part of the invariant, action by action.
LEMMA BrokerInitial == BrokerInit => BInv
<1>1. SUFFICES ASSUME BrokerInit PROVE BInv
  OBVIOUS
<1>2. <<>> \in Seq(Line) /\ <<>> \o <<>> = <<>> /\ Len(<<>>) = 0
  OBVIOUS
<1>3. BrokerTypeOK
  BY <1>1, <1>2 DEF BrokerInit, BrokerTypeOK
<1>5. Broker /\ Settled
  BY <1>1, <1>2 DEF BrokerInit, Broker, Settled
<1>4. NothingLost
  BY <1>1, <1>2, StoredFirst DEF BrokerInit, NothingLost
<1>6. QED
  BY <1>3, <1>4, <1>5 DEF BInv

\* Every step of the run, the delayed flush and the API keeps the broker's part, and
\* changes rows and status only as Moves says.
LEMMA BrokerStep == BInv /\ [BrokerNext]_brokerVars => BInv' /\ Moves
<1>1. SUFFICES ASSUME BInv, [BrokerNext]_brokerVars PROVE BInv' /\ Moves
  OBVIOUS
<1> USE DEF BInv, database, memory, lines, failures, history
<1>2. /\ logs \in Seq(Line) /\ buffer \in Seq(Line) /\ emitted \in Seq(Line)
      /\ faults \in Nat /\ Next1 \in Nat /\ emitted \o <<>> = emitted
  BY <1>1, ConcatEmptySeq, LenProperties DEF BrokerTypeOK, Next1
<1>3. ASSUME NEW s \in StepIds, Emit(s) \/ EmitLate(s) PROVE BInv' /\ Moves
  <2>1. /\ ~ crashed /\ phase \in {"running", "over", "lost"} /\ Say(s)
        /\ logs \o buffer = emitted
    BY <1>1, <1>3 DEF Emit, EmitLate, Broker
  <2>2. /\ logs' \in Seq(Line) /\ buffer' \in Seq(Line) /\ emitted' \in Seq(Line)
        /\ faults' \in Nat /\ failed' \in BOOLEAN /\ timer' \in {"off", "armed"}
        /\ Len(emitted') = Len(emitted) + 1 /\ emitted' # <<>>
        /\ logs' \o buffer' = emitted' /\ Grows
    BY <1>1, <2>1, OneSaid
  <2>3. EmitRaises \in BOOLEAN /\ Len(emitted) \in Nat
    BY <1>2, LenProperties DEF EmitRaises
  <2>4. own' \in Nat /\ own' <= Len(emitted') /\ (phase = "running" => own' = Len(emitted'))
    <3>1. \/ own' = Len(emitted')
          \/ own' = own /\ phase # "running"
      BY <1>3 DEF Emit, EmitLate
    <3>2. own \in Nat /\ own <= Len(emitted)
      BY <1>1 DEF BrokerTypeOK, Broker
    <3>3. QED
      BY <2>2, <2>3, <3>1, <3>2
  <2>5. BrokerTypeOK'
    BY <1>1, <1>3, <2>2, <2>3, <2>4 DEF Emit, EmitLate, BrokerTypeOK
  <2>6. Broker'
    <3>1. UNCHANGED <<status, version, rows, phase, reading, history>>
      BY <1>3 DEF Emit, EmitLate
    <3>2. QED
      BY <1>1, <2>1, <2>2, <2>4, <3>1 DEF Broker
  <2>7. NothingLost'
    BY <2>2, StoredFirst DEF NothingLost
  <2>8. Len(logs) <= Len(logs') /\ Len(logs) \in Nat /\ Len(logs') \in Nat
    BY <1>2, <2>2, LenProperties DEF Grows
  <2>9. Settled' /\ Moves
    <3>1. /\ UNCHANGED <<status, version, rows, phase, reading, history>>
          /\ phase # "running" => own' = own
      BY <1>3 DEF Emit, EmitLate
    <3>2. phase = "running" => status # "ended" /\ (status \in Terminal => overruled)
      BY <1>1 DEF Settled
    <3>3. own \in Nat /\ rows \in Nat /\ version \in Nat
      BY <1>1 DEF BrokerTypeOK
    <3>4. Settled'
      BY <1>1, <2>8, <3>1, <3>2, <3>3 DEF Settled
    <3>5. QED
      BY <2>1, <2>2, <3>1, <3>2, <3>3, <3>4 DEF Moves
  <2>10. QED  BY <2>5, <2>6, <2>7, <2>9
<1>4. CASE DelayedFlush
  <2>1. ~ crashed /\ phase # "finishing" /\ (Flush(buffer) \/ FlushFails(buffer))
    BY <1>1, <1>4 DEF DelayedFlush, LoopHeld, Broker
  <2>2. /\ logs' \in Seq(Line) /\ buffer' \in Seq(Line) /\ faults' \in Nat
        /\ failed' \in BOOLEAN /\ logs' \o buffer' = emitted /\ Grows
        /\ buffer = <<>> => logs' = logs /\ buffer' = <<>>
    BY <1>1, <1>2, <2>1, Flushed DEF Broker
  <2>3. BrokerTypeOK'
    BY <1>1, <1>4, <2>2 DEF DelayedFlush, BrokerTypeOK
  <2>4. Broker'
    BY <1>1, <1>4, <2>1, <2>2 DEF DelayedFlush, Broker
  <2>5. NothingLost'
    BY <1>4, <2>2, StoredFirst DEF NothingLost, DelayedFlush
  <2>6. Len(logs) <= Len(logs') /\ Len(logs) \in Nat /\ Len(logs') \in Nat
    BY <1>2, <2>2, LenProperties DEF Grows
  <2>7. Settled' /\ Moves
    BY <1>1, <1>4, <2>1, <2>2, <2>6 DEF DelayedFlush, Settled, Moves, BrokerTypeOK
  <2>8. QED  BY <2>3, <2>4, <2>5, <2>7
<1>5. CASE FinishFlush
  <2> DEFINE final == [n |-> Next1, step |-> None]
             batch == Append(buffer, final)
  <2>1. final \in Line /\ batch \in Seq(Line)
    BY <1>2, OneMore DEF Line
  <2>2. /\ ~ crashed /\ phase = "running" /\ emitted' = Append(emitted, final)
        /\ own' = Len(emitted')
        /\ Flush(batch) \/ FlushFails(batch)
    BY <1>1, <1>5 DEF FinishFlush, Broker
  <2>3. /\ logs' \in Seq(Line) /\ buffer' \in Seq(Line) /\ faults' \in Nat
        /\ failed' \in BOOLEAN /\ logs' \o buffer' = logs \o batch /\ Grows
    BY <1>2, <2>1, <2>2, Flushed
  <2>4. /\ emitted' \in Seq(Line) /\ emitted' # <<>> /\ logs' \o buffer' = emitted'
        /\ Len(emitted') \in Nat
    <3>1. logs \o batch = Append(logs \o buffer, final)
      BY <1>2, <2>1, OneMore
    <3>2. logs \o buffer = emitted
      BY <1>1, <2>2 DEF Broker
    <3> HIDE DEF final, batch
    <3>3. emitted' \in Seq(Line) /\ emitted' # <<>>
      BY <1>2, <2>1, <2>2, AppendProperties
    <3>4. QED
      BY <2>2, <2>3, <3>1, <3>2, <3>3, LenProperties
  <2>5. BrokerTypeOK'
    BY <1>1, <1>5, <2>2, <2>3, <2>4 DEF FinishFlush, BrokerTypeOK
  <2>6. Broker'
    BY <1>1, <1>5, <2>2, <2>4 DEF FinishFlush, Flush, Broker
  <2>7. NothingLost'
    <3> HIDE DEF final, batch
    <3>1. /\ logs' \in Seq(Line) /\ buffer' \in Seq(Line)
          /\ logs' \o buffer' = emitted'
      BY <2>3, <2>4
    <3>2. /\ Len(logs') <= Len(emitted')
          /\ \A i \in DOMAIN logs' : logs'[i] = emitted'[i]
      BY <3>1, StoredFirst
    <3>3. QED
      BY <3>1, <3>2 DEF NothingLost
  <2>8. Settled' /\ Moves
    BY <1>1, <1>5, <2>2, <2>3 DEF FinishFlush, Settled, Moves, Broker,
       BrokerTypeOK
  <2>9. QED  BY <2>5, <2>6, <2>7, <2>8
<1>6. CASE FinishCommit
  <2>1. ~ crashed /\ buffer = <<>> /\ logs = emitted /\ UNCHANGED <<logs, buffer, emitted>>
    BY <1>1, <1>2, <1>6, ConcatEmptySeq DEF FinishCommit, Broker
  <2>2. BrokerTypeOK'
    <3>1. (/\ handling \in BOOLEAN /\ reader \in BOOLEAN
           /\ failed \in BOOLEAN /\ crashed \in BOOLEAN
           /\ recovered \in BOOLEAN /\ overruled \in BOOLEAN)'
      BY <1>1, <1>6 DEF FinishCommit, BrokerTypeOK
    <3>2. QED
      BY <1>1, <1>6, <3>1 DEF FinishCommit, BrokerTypeOK
  <2>3. Broker'
    BY <1>1, <1>6, <2>1 DEF FinishCommit, Broker
  <2>4. NothingLost' /\ Grows
    BY <1>1, <1>2, <1>6, <2>1, LenProperties DEF FinishCommit, NothingLost,
       Grows
  <2>5. Settled' /\ Moves
    BY <1>1, <1>6, <2>1, <2>4 DEF FinishCommit, Settled, Moves, Broker,
       BrokerTypeOK
  <2>6. QED  BY <2>2, <2>3, <2>4, <2>5
<1>7. CASE RunStart
  <2> DEFINE first == [n |-> 1, step |-> None]
  <2>1. first \in Line /\ <<first>> \in Seq(Line) /\ <<first>> # <<>>
    BY DEF Line
  <2>2. /\ ~ crashed /\ logs = <<>> /\ logs' = logs
        /\ buffer' = <<first>> /\ emitted' = <<first>>
    BY <1>1, <1>7 DEF RunStart, Broker
  <2>3. logs' \o buffer' = emitted' /\ logs' \in Seq(Line)
    BY <1>2, <2>1, <2>2, ConcatEmptySeq
  <2>4. BrokerTypeOK'
    BY <1>1, <1>7, <2>1, <2>2 DEF RunStart, BrokerTypeOK
  <2>5. Broker'
    BY <1>1, <1>7, <2>1, <2>2, <2>3 DEF RunStart, Broker
  <2>6. NothingLost'
    BY <2>1, <2>2, <2>3, StoredFirst DEF NothingLost
  <2>7. Settled' /\ Moves
    BY <1>1, <1>2, <1>7, <2>2 DEF RunStart, Settled, Moves, Grows, Broker,
       BrokerTypeOK
  <2>8. QED  BY <2>4, <2>5, <2>6, <2>7
<1>8. CASE MarkStep
  <2>1. BrokerTypeOK'
    BY <1>1, <1>8, EmptySeq DEF MarkStep, BrokerTypeOK
  <2>2. Broker'
    BY <1>1, <1>8 DEF MarkStep, Broker, BrokerTypeOK
  <2>3. NothingLost'
    BY <1>1, <1>8 DEF MarkStep, NothingLost
  <2>4. Settled'
    BY <1>1, <1>8 DEF MarkStep, Settled, Broker, BrokerTypeOK
  <2>5. Moves
    BY <1>1, <1>2, <1>8, LenProperties DEF MarkStep, Moves, Grows, Settled,
       Broker, BrokerTypeOK
  <2>6. QED  BY <2>1, <2>2, <2>3, <2>4, <2>5
<1>9. CASE RunRaises
  <2>1. BrokerTypeOK'
    BY <1>1, <1>9, EmptySeq DEF RunRaises, BrokerTypeOK
  <2>2. Broker'
    BY <1>1, <1>9 DEF RunRaises, Broker, BrokerTypeOK
  <2>3. NothingLost'
    BY <1>1, <1>9 DEF RunRaises, NothingLost
  <2>4. Settled'
    BY <1>1, <1>9 DEF RunRaises, Settled, Broker, BrokerTypeOK
  <2>5. Moves
    BY <1>1, <1>2, <1>9, LenProperties DEF RunRaises, Moves, Grows, Settled,
       Broker, BrokerTypeOK
  <2>6. QED  BY <2>1, <2>2, <2>3, <2>4, <2>5
<1>10. CASE Crash
  <2>1. BrokerTypeOK'
    BY <1>1, <1>10, EmptySeq DEF Crash, BrokerTypeOK
  <2>2. Broker'
    BY <1>1, <1>10 DEF Crash, Broker, BrokerTypeOK
  <2>3. NothingLost'
    BY <1>1, <1>10 DEF Crash, NothingLost
  <2>4. Settled'
    BY <1>1, <1>10 DEF Crash, Settled, Broker, BrokerTypeOK
  <2>5. Moves
    BY <1>1, <1>2, <1>10, LenProperties DEF Crash, Moves, Grows, Settled,
       Broker, BrokerTypeOK
  <2>6. QED  BY <2>1, <2>2, <2>3, <2>4, <2>5
<1>11. CASE RecoverCommit
  <2>1. BrokerTypeOK'
    <3>1. rows' \in Nat /\ status' \in {"pending", "running"} \cup Terminal
      BY <1>1, <1>11 DEF RecoverCommit, BrokerTypeOK
    <3>2. recovered' \in BOOLEAN
      BY <1>1, <1>11 DEF RecoverCommit, BrokerTypeOK
    <3>3. QED
      BY <1>1, <1>11, <3>1, <3>2 DEF RecoverCommit, BrokerTypeOK
  <2>2. Broker'
    BY <1>1, <1>11 DEF RecoverCommit, Broker, BrokerTypeOK
  <2>3. NothingLost'
    BY <1>1, <1>11 DEF RecoverCommit, NothingLost
  <2>4. Settled'
    BY <1>1, <1>11 DEF RecoverCommit, Settled, Broker, BrokerTypeOK
  <2>5. Moves
    BY <1>1, <1>2, <1>11, LenProperties DEF RecoverCommit, Moves, Grows, Settled,
       Broker, BrokerTypeOK
  <2>6. QED  BY <2>1, <2>2, <2>3, <2>4, <2>5
<1>12. CASE CancelRead
  <2>1. BrokerTypeOK'
    BY <1>1, <1>12, EmptySeq DEF CancelRead, BrokerTypeOK
  <2>2. Broker'
    BY <1>1, <1>12 DEF CancelRead, Broker, BrokerTypeOK
  <2>3. NothingLost'
    BY <1>1, <1>12 DEF CancelRead, NothingLost
  <2>4. Settled'
    BY <1>1, <1>12 DEF CancelRead, Settled, Broker, BrokerTypeOK
  <2>5. Moves
    BY <1>1, <1>2, <1>12, LenProperties DEF CancelRead, Moves, Grows, Settled,
       Broker, BrokerTypeOK
  <2>6. QED  BY <2>1, <2>2, <2>3, <2>4, <2>5
<1>13. CASE CancelCommit
  <2>1. BrokerTypeOK'
    BY <1>1, <1>13, EmptySeq DEF CancelCommit, BrokerTypeOK
  <2>2. Broker'
    BY <1>1, <1>13 DEF CancelCommit, Broker, BrokerTypeOK
  <2>3. NothingLost'
    BY <1>1, <1>13 DEF CancelCommit, NothingLost
  <2>4. Settled'
    BY <1>1, <1>13 DEF CancelCommit, Settled, Broker, BrokerTypeOK
  <2>5. Moves
    <3>1. PICK read \in reading : version' = read + 1
      BY <1>1, <1>13 DEF CancelCommit
    <3>2. ~ overruled' => version <= version'
      <4>1. ~ overruled' => status = "pending"
        BY <1>13 DEF CancelCommit
      <4>2. status = "pending" => version = 0
        BY <1>1 DEF Broker
      <4>3. read \in Nat
        BY <1>1, <3>1 DEF BrokerTypeOK
      <4>4. QED
        BY <3>1, <4>1, <4>2, <4>3
    <3>3. Grows /\ rows <= rows'
      BY <1>1, <1>2, <1>13, LenProperties DEF CancelCommit, Grows, BrokerTypeOK
    <3>4. ~ overruled /\ (status \in Terminal => overruled')
      BY <1>1, <1>13 DEF CancelCommit, Broker
    <3>5. (recovered => recovered') /\ (crashed => crashed' /\ logs' = logs)
      BY <1>1, <1>13 DEF CancelCommit
    <3>6. QED
      BY <3>2, <3>3, <3>4, <3>5 DEF Moves
  <2>6. QED  BY <2>1, <2>2, <2>3, <2>4, <2>5
<1>14. CASE UNCHANGED brokerVars
  <2>1. BrokerTypeOK'
    BY <1>1, <1>14, EmptySeq DEF brokerVars, BrokerTypeOK
  <2>2. Broker'
    BY <1>1, <1>14 DEF brokerVars, Broker, BrokerTypeOK
  <2>3. NothingLost'
    BY <1>1, <1>14 DEF brokerVars, NothingLost
  <2>4. Settled'
    BY <1>1, <1>14 DEF brokerVars, Settled, Broker, BrokerTypeOK
  <2>5. Moves
    BY <1>1, <1>2, <1>14, LenProperties DEF brokerVars, Moves, Grows, Settled,
       Broker, BrokerTypeOK
  <2>6. QED  BY <2>1, <2>2, <2>3, <2>4, <2>5
<1>15. CASE RecoverRead
  <2>1. BrokerTypeOK'
    BY <1>1, <1>15, EmptySeq DEF RecoverRead, BrokerTypeOK
  <2>2. Broker'
    BY <1>1, <1>15 DEF RecoverRead, Broker, BrokerTypeOK
  <2>3. NothingLost'
    BY <1>1, <1>15 DEF RecoverRead, NothingLost
  <2>4. Settled'
    BY <1>1, <1>15 DEF RecoverRead, Settled, Broker, BrokerTypeOK
  <2>5. Moves
    BY <1>1, <1>2, <1>15, LenProperties DEF RecoverRead, Moves, Grows, Settled,
       Broker, BrokerTypeOK
  <2>6. QED  BY <2>1, <2>2, <2>3, <2>4, <2>5
<1>16. CASE ReaderFails
  <2>1. BrokerTypeOK'
    BY <1>1, <1>16, EmptySeq DEF ReaderFails, BrokerTypeOK
  <2>2. Broker'
    BY <1>1, <1>16 DEF ReaderFails, Broker, BrokerTypeOK
  <2>3. NothingLost'
    BY <1>1, <1>16 DEF ReaderFails, NothingLost
  <2>4. Settled'
    BY <1>1, <1>16 DEF ReaderFails, Settled, Broker, BrokerTypeOK
  <2>5. Moves
    BY <1>1, <1>2, <1>16, LenProperties DEF ReaderFails, Moves, Grows, Settled,
       Broker, BrokerTypeOK
  <2>6. QED  BY <2>1, <2>2, <2>3, <2>4, <2>5
<1>17. CASE ReaderEnds
  <2>1. BrokerTypeOK'
    BY <1>1, <1>17, EmptySeq DEF ReaderEnds, BrokerTypeOK
  <2>2. Broker'
    BY <1>1, <1>17 DEF ReaderEnds, Broker, BrokerTypeOK
  <2>3. NothingLost'
    BY <1>1, <1>17 DEF ReaderEnds, NothingLost
  <2>4. Settled'
    BY <1>1, <1>17 DEF ReaderEnds, Settled, Broker, BrokerTypeOK
  <2>5. Moves
    BY <1>1, <1>2, <1>17, LenProperties DEF ReaderEnds, Moves, Grows, Settled,
       Broker, BrokerTypeOK
  <2>6. QED  BY <2>1, <2>2, <2>3, <2>4, <2>5
<1>18. QED
  BY <1>1, <1>3, <1>4, <1>5, <1>6, <1>7, <1>8, <1>9, <1>10, <1>11, <1>12,
     <1>13, <1>14, <1>15, <1>16, <1>17 DEF BrokerNext

-----------------------------------------------------------------------------
\* The feed's part.  What the client has, and the rows behind the cursor, are
\* all that is stored.
LEMMA CatchUp ==
  ASSUME NEW a \in Seq(Line), NEW b \in Seq(Line),
         Len(b) <= Len(a), \A i \in DOMAIN b : b[i] = a[i]
  PROVE  b \o SubSeq(a, Len(b) + 1, Len(a)) = a
<1> DEFINE rest == SubSeq(a, Len(b) + 1, Len(a))
<1>1. Len(a) \in Nat /\ Len(b) \in Nat /\ DOMAIN b = 1..Len(b)
  BY LenProperties
<1>2. /\ rest \in Seq(Line) /\ Len(rest) = Len(a) - Len(b)
      /\ \A i \in 1..Len(rest) : rest[i] = a[Len(b) + i]
  <2>1. CASE Len(b) = Len(a)
    BY <1>1, <2>1, SubSeqEmpty, EmptySeq
  <2>2. CASE Len(b) < Len(a)
    BY <1>1, <2>2, SubSeqProperties, LenProperties, ElementOfSeq
  <2>3. QED
    BY <1>1, <2>1, <2>2
<1> HIDE DEF rest
<1>3. b \o rest \in Seq(Line) /\ Len(b \o rest) = Len(a)
  BY <1>1, <1>2, ConcatProperties
<1>4. ASSUME NEW i \in 1..Len(b \o rest) PROVE (b \o rest)[i] = a[i]
  <2>1. (b \o rest)[i] = IF i <= Len(b) THEN b[i] ELSE rest[i - Len(b)]
    BY <1>1, <1>2, <1>3, ConcatProperties
  <2>2. CASE i <= Len(b)
    BY <1>1, <1>3, <2>1, <2>2
  <2>3. CASE ~ (i <= Len(b))
    <3>1. i - Len(b) \in 1..Len(rest)
      BY <1>1, <1>2, <1>3, <2>3
    <3>2. QED
      BY <1>1, <1>2, <1>3, <2>1, <2>3, <3>1
  <2>4. QED
    BY <2>2, <2>3
<1>5. b \o rest = a
  BY <1>3, <1>4, SeqEqual
<1>6. QED
  BY <1>5 DEF rest

\* A feed that has not begun knows nothing.
LEMMA FeedInitial == Init => FInv
<1>1. SUFFICES ASSUME Init PROVE FInv
  OBVIOUS
<1>2. BrokerTypeOK
  BY <1>1, BrokerInitial DEF Init, BInv
<1>3. <<>> \in Seq(Line) /\ Len(<<>>) = 0 /\ DOMAIN <<>> = {}
  OBVIOUS
<1>4. QED
  BY <1>1, <1>2, <1>3 DEF Init, BrokerInit, FInv, TypeOK, ShownIsPrefix, Feed,
     TailIsComplete, StepsAreFinal, Row, Reading

\* What the worker and the API do leaves the feed's knowledge true.
LEMMA FeedKept ==
  BInv /\ BInv' /\ FInv /\ Moves /\ UNCHANGED feedVars => FInv'
<1>1. SUFFICES ASSUME BInv, BInv', FInv, Moves, UNCHANGED feedVars PROVE FInv'
  OBVIOUS
<1> USE DEF Whole
<1>2. /\ logs \in Seq(Line) /\ Len(logs) \in Nat /\ Len(logs') \in Nat
      /\ shown \in Seq(Line) /\ DOMAIN shown = 1..Len(shown) /\ Len(shown) \in Nat
      /\ got \in Seq(Line) /\ DOMAIN got = 1..Len(got) /\ Len(got) \in Nat
      /\ DOMAIN logs = 1..Len(logs)
      /\ rows \in Nat /\ rows' \in Nat /\ version \in Nat /\ version' \in Nat
      /\ job.version \in Nat /\ last.version \in Nat /\ own \in Nat
  BY <1>1, LenProperties DEF BInv, BrokerTypeOK, FInv, TypeOK
<1>3. TypeOK'
  BY <1>1, <1>2 DEF BInv, FInv, TypeOK, feedVars, Moves, Grows
<1>4. ShownIsPrefix'
  BY <1>1, <1>2 DEF FInv, ShownIsPrefix, feedVars, Moves, Grows
<1>5. Feed'
  BY <1>1, <1>2 DEF FInv, Feed, Reading, feedVars, Moves, Grows
<1>6. TailIsComplete'
  BY <1>1 DEF FInv, Feed, TailIsComplete, feedVars, Moves
<1>7. StepsAreFinal'
  BY <1>1 DEF FInv, Feed, TailIsComplete, StepsAreFinal, feedVars, Moves
<1>8. QED
  BY <1>3, <1>4, <1>5, <1>6, <1>7 DEF FInv

\* The feed's own steps.
LEMMA FeedStep == BInv /\ FInv /\ FeedNext /\ UNCHANGED brokerVars => FInv'
<1>1. SUFFICES ASSUME BInv, FInv, FeedNext, UNCHANGED brokerVars PROVE FInv'
  OBVIOUS
<1> USE DEF brokerVars, database, memory, lines, failures, history, Whole
<1>2. /\ logs \in Seq(Line) /\ Len(logs) \in Nat /\ DOMAIN logs = 1..Len(logs)
      /\ shown \in Seq(Line) /\ DOMAIN shown = 1..Len(shown) /\ Len(shown) \in Nat
      /\ got \in Seq(Line) /\ DOMAIN got = 1..Len(got) /\ Len(got) \in Nat
      /\ <<>> \in Seq(Line) /\ Len(<<>>) = 0 /\ DOMAIN <<>> = {}
      /\ rows \in Nat /\ version \in Nat
      /\ job.version \in Nat /\ last.version \in Nat /\ own \in Nat
      /\ Row \in [status : {"pending", "running"} \cup Terminal, version : Nat]
  BY <1>1, LenProperties DEF BInv, BrokerTypeOK, FInv, TypeOK, Row
<1>3. BrokerTypeOK'
  BY <1>1 DEF BInv, BrokerTypeOK
<1>4. /\ ~ overruled /\ ~ recovered => rows = version
      /\ status \in Terminal /\ ~ overruled => Whole(logs)
  BY <1>1, <1>2 DEF BInv, Broker, Settled
<1>5. CASE ReadJob
  <2>1. TypeOK'
    BY <1>1, <1>2, <1>3, <1>5 DEF ReadJob, Row, FInv, TypeOK
  <2>2. ShownIsPrefix'
    BY <1>1, <1>2, <1>4, <1>5 DEF ReadJob, Row, FInv, ShownIsPrefix, Feed
  <2>3. Feed'
    BY <1>1, <1>2, <1>4, <1>5 DEF ReadJob, Row, FInv, TypeOK, Feed, Reading
  <2>4. TailIsComplete'
    BY <1>1, <1>2, <1>4, <1>5 DEF ReadJob, Row, FInv, Feed, Reading, TailIsComplete
  <2>5. StepsAreFinal'
    BY <1>1, <1>2, <1>4, <1>5 DEF ReadJob, Row, FInv, TypeOK, Feed, Reading,
       StepsAreFinal, BInv, Broker
  <2>6. QED
    BY <2>1, <2>2, <2>3, <2>4, <2>5 DEF FInv
<1>6. CASE ReadLogs
  <2>1. TypeOK'
    BY <1>1, <1>2, <1>3, <1>6 DEF ReadLogs, FInv, TypeOK
  <2>2. ShownIsPrefix'
    BY <1>1, <1>2, <1>4, <1>6 DEF ReadLogs, FInv, ShownIsPrefix, Feed
  <2>3. Feed'
    BY <1>1, <1>2, <1>4, <1>6 DEF ReadLogs, FInv, TypeOK, Feed, Reading
  <2>4. TailIsComplete'
    BY <1>1, <1>2, <1>4, <1>6 DEF ReadLogs, FInv, Feed, Reading, TailIsComplete
  <2>5. StepsAreFinal'
    BY <1>1, <1>2, <1>4, <1>6 DEF ReadLogs, FInv, TypeOK, Feed, Reading,
       StepsAreFinal, BInv, Broker
  <2>6. QED
    BY <2>1, <2>2, <2>3, <2>4, <2>5 DEF FInv
<1>7. CASE Connected
  <2>1. TypeOK'
    BY <1>1, <1>2, <1>3, <1>7 DEF Connected, FInv, TypeOK, Feed
  <2>2. ShownIsPrefix'
    BY <1>1, <1>2, <1>4, <1>7 DEF Connected, FInv, ShownIsPrefix, Feed
  <2>3. Feed'
    BY <1>1, <1>2, <1>4, <1>7 DEF Connected, FInv, TypeOK, Feed, Reading
  <2>4. TailIsComplete'
    BY <1>1, <1>2, <1>4, <1>7 DEF Connected, FInv, Feed, Reading, TailIsComplete
  <2>5. StepsAreFinal'
    BY <1>1, <1>2, <1>4, <1>7 DEF Connected, FInv, TypeOK, Feed, Reading,
       StepsAreFinal, BInv, Broker
  <2>6. QED
    BY <2>1, <2>2, <2>3, <2>4, <2>5 DEF FInv
<1>8. CASE PollJob
  <2>1. TypeOK'
    BY <1>1, <1>2, <1>3, <1>8 DEF PollJob, Row, FInv, TypeOK
  <2>2. ShownIsPrefix'
    BY <1>1, <1>2, <1>4, <1>8 DEF PollJob, Row, FInv, ShownIsPrefix, Feed
  <2>3. Feed'
    BY <1>1, <1>2, <1>4, <1>8 DEF PollJob, Row, FInv, TypeOK, Feed, Reading
  <2>4. TailIsComplete'
    BY <1>1, <1>2, <1>4, <1>8 DEF PollJob, Row, FInv, Feed, Reading, TailIsComplete
  <2>5. StepsAreFinal'
    BY <1>1, <1>2, <1>4, <1>8 DEF PollJob, Row, FInv, TypeOK, Feed, Reading,
       StepsAreFinal, BInv, Broker
  <2>6. QED
    BY <2>1, <2>2, <2>3, <2>4, <2>5 DEF FInv
<1>9. CASE PollStatus
  <2>1. TypeOK'
    BY <1>1, <1>2, <1>3, <1>9 DEF PollStatus, FInv, TypeOK
  <2>2. ShownIsPrefix'
    BY <1>1, <1>2, <1>4, <1>9 DEF PollStatus, FInv, ShownIsPrefix, Feed
  <2>3. Feed'
    BY <1>1, <1>2, <1>4, <1>9 DEF PollStatus, FInv, TypeOK, Feed, Reading
  <2>4. TailIsComplete'
    BY <1>1, <1>2, <1>4, <1>9 DEF PollStatus, FInv, Feed, Reading, TailIsComplete
  <2>5. StepsAreFinal'
    BY <1>1, <1>2, <1>4, <1>9 DEF PollStatus, FInv, TypeOK, Feed, Reading,
       StepsAreFinal, BInv, Broker
  <2>6. QED
    BY <2>1, <2>2, <2>3, <2>4, <2>5 DEF FInv
<1>10. CASE Drop
  <2>1. TypeOK'
    BY <1>1, <1>2, <1>3, <1>10 DEF Drop, FInv, TypeOK
  <2>2. ShownIsPrefix'
    BY <1>1, <1>2, <1>4, <1>10 DEF Drop, FInv, ShownIsPrefix, Feed
  <2>3. Feed'
    BY <1>1, <1>2, <1>4, <1>10 DEF Drop, FInv, TypeOK, Feed, Reading
  <2>4. TailIsComplete'
    BY <1>1, <1>2, <1>4, <1>10 DEF Drop, FInv, Feed, Reading, TailIsComplete
  <2>5. StepsAreFinal'
    BY <1>1, <1>2, <1>4, <1>10 DEF Drop, FInv, TypeOK, Feed, Reading, StepsAreFinal,
       BInv, Broker
  <2>6. QED
    BY <2>1, <2>2, <2>3, <2>4, <2>5 DEF FInv
<1>11. CASE PollLogs
  <2>1. /\ feed = "polled" /\ shown' = logs /\ cursor' = Len(logs)
        /\ feed' = "fetched" /\ UNCHANGED <<job, last, got, shownRows, drops, logs>>
    BY <1>1, <1>2, <1>4, <1>11, CatchUp DEF PollLogs, After, FInv, Feed,
       ShownIsPrefix
  <2>2. TypeOK'
    BY <1>1, <1>2, <1>3, <1>11, <2>1 DEF FInv, TypeOK
  <2>3. ShownIsPrefix'
    BY <1>1, <1>2, <1>4, <1>11, <2>1 DEF FInv, ShownIsPrefix, Feed
  <2>4. Feed'
    BY <1>1, <1>2, <1>4, <1>11, <2>1 DEF FInv, TypeOK, Feed, Reading
  <2>5. TailIsComplete'
    BY <1>1, <1>2, <1>4, <1>11, <2>1 DEF FInv, Feed, Reading, TailIsComplete
  <2>6. StepsAreFinal'
    BY <1>1, <1>2, <1>4, <1>11, <2>1 DEF FInv, TypeOK, Feed, Reading, StepsAreFinal,
       BInv, Broker
  <2>7. QED
    BY <2>2, <2>3, <2>4, <2>5, <2>6 DEF FInv
<1>12. QED
  BY <1>1, <1>5, <1>6, <1>7, <1>8, <1>9, <1>10, <1>11 DEF FeedNext, Poll

-----------------------------------------------------------------------------
\* The whole invariant.
LEMMA Invariance == Spec => [](BInv /\ FInv)
<1>1. Init => BInv /\ FInv
  BY BrokerInitial, FeedInitial DEF Init
<1>2. BInv /\ FInv /\ [Next]_vars => BInv' /\ FInv'
  <2>1. SUFFICES ASSUME BInv, FInv, [Next]_vars PROVE BInv' /\ FInv'
    OBVIOUS
  <2>2. CASE FeedNext /\ UNCHANGED brokerVars
    BY <2>1, <2>2, BrokerStep, FeedStep
  <2>3. CASE [BrokerNext]_brokerVars /\ UNCHANGED feedVars
    BY <2>1, <2>3, BrokerStep, FeedKept
  <2>4. QED
    BY <2>1, <2>2, <2>3 DEF Next, vars
<1>3. QED
  BY <1>1, <1>2, PTL DEF Spec

\* Every variable keeps its type, for any batch size, lines and faults.
THEOREM FeedTypeCorrect == Spec => []TypeOK
<1>1. BInv /\ FInv => TypeOK
  BY DEF FInv
<1>2. QED
  BY <1>1, Invariance, PTL

\* No line is lost, doubled or reordered, whatever flush fails and is tried
\* again; after a kill the table holds a beginning of what was emitted.
THEOREM NoLineLost == Spec => []NothingLost
<1>1. BInv /\ FInv => NothingLost
  BY DEF BInv
<1>2. QED
  BY <1>1, Invariance, PTL

\* A deployment that ended by its run has every line stored that was said
\* until then, whatever a surviving reader says later.
THEOREM LogsBeforeStatus == Spec => []EndedWithLogs
<1>1. BInv /\ FInv => EndedWithLogs
  BY DEF BInv, Settled, EndedWithLogs
<1>2. QED
  BY <1>1, Invariance, PTL

\* The client never sees a line twice and never misses one in between.
THEOREM PrefixShown == Spec => []ShownIsPrefix
<1>1. BInv /\ FInv => ShownIsPrefix
  BY DEF FInv
<1>2. QED
  BY <1>1, Invariance, PTL

\* A feed that closes by itself has shown the final status and every line the
\* run said, or all that a killed worker had stored, unless a late cancel
\* overruled the run.
THEOREM TailComplete == Spec => []TailIsComplete
<1>1. BInv /\ FInv => TailIsComplete
  BY DEF FInv
<1>2. QED
  BY <1>1, Invariance, PTL

\* ... and the steps as they will stay, unless the recovery ended them.
THEOREM StepsFinal == Spec => []StepsAreFinal
<1>1. BInv /\ FInv => StepsAreFinal
  BY DEF FInv
<1>2. QED
  BY <1>1, Invariance, PTL

-----------------------------------------------------------------------------
(* Worker and feed implement the stream of LogStream.                        *)

\* What a step of the worker, the recovery or a cancel is to the listener:
\* nothing, a kill, a late cancel, or lines said and kept.  A line is the run's
\* own, before the deployment is over, or a late one.
Silent == UNCHANGED <<emitted, own, logs, crashed, overruled>>
Killed == UNCHANGED <<emitted, own, logs, overruled>> /\ ~ crashed /\ crashed'
Late   == UNCHANGED <<emitted, own, logs, crashed>> /\ overruled'
Added  == \E x \in Line : emitted' = Append(emitted, x)
Said   == \/ UNCHANGED <<emitted, own>>
          \/ Added /\ own = Len(emitted) /\ own' = Len(emitted')
          \/ Added /\ own' = own

\* Every step of the worker, the recovery or a cancel is one of these.
LEMMA Spoken ==
  BInv /\ [BrokerNext]_brokerVars =>
    \/ Silent \/ Killed \/ Late
    \/ UNCHANGED <<crashed, overruled>> /\ ~ crashed /\ Said
<1>1. SUFFICES ASSUME BInv, [BrokerNext]_brokerVars
      PROVE  \/ Silent \/ Killed \/ Late
             \/ UNCHANGED <<crashed, overruled>> /\ ~ crashed /\ Said
  OBVIOUS
<1> USE DEF database, memory, lines, failures, history
<1>2. emitted \in Seq(Line) /\ Next1 \in Nat /\ BrokerTypeOK
  BY <1>1, LenProperties DEF BInv, BrokerTypeOK, Next1
<1>3. ASSUME NEW s \in StepIds, Emit(s) \/ EmitLate(s)
      PROVE  UNCHANGED <<crashed, overruled>> /\ ~ crashed /\ Said
  <2>1. /\ ~ crashed /\ UNCHANGED <<crashed, overruled>> /\ Say(s)
        /\ logs \o buffer = emitted
    BY <1>1, <1>3 DEF Emit, EmitLate, BInv, Broker
  <2>2. Added
    BY <1>2, <2>1, OneSaid DEF Added
  <2>3. \/ own = Len(emitted) /\ own' = Len(emitted')
        \/ own' = own
    BY <1>1, <1>3 DEF Emit, EmitLate, BInv, Broker
  <2>4. QED
    BY <2>1, <2>2, <2>3 DEF Said
<1>4. CASE FinishFlush
  <2> DEFINE x == [n |-> Next1, step |-> None]
  <2>1. x \in Line
    BY <1>2 DEF Line
  <2>2. Added /\ own = Len(emitted) /\ own' = Len(emitted')
    BY <1>1, <1>4, <2>1 DEF FinishFlush, BInv, Broker, Added
  <2>3. QED
    BY <1>1, <1>4, <2>2 DEF FinishFlush, BInv, Broker, Said
<1>5. CASE RunStart
  <2> DEFINE x == [n |-> 1, step |-> None]
  <2>1. x \in Line
    BY DEF Line
  <2>2. /\ emitted = <<>> /\ emitted' = <<x>> /\ ~ crashed
        /\ own = Len(emitted) /\ own' = 1
    BY <1>1, <1>5 DEF RunStart, BInv, Broker
  <2>3. emitted' = Append(emitted, x) /\ own' = Len(emitted')
    BY <2>2
  <2>4. Said
    BY <2>1, <2>2, <2>3 DEF Said, Added
  <2>5. QED
    BY <1>5, <2>2, <2>4 DEF RunStart
<1>6. CASE DelayedFlush
  BY <1>1, <1>6 DEF DelayedFlush, BInv, Broker, Said
<1>7. CASE Crash
  BY <1>7 DEF Crash, Killed
<1>8. CASE CancelCommit
  <2>1. ~ overruled
    BY <1>1, <1>8 DEF CancelCommit, BInv, Broker
  <2>2. overruled' \in BOOLEAN /\ overruled \in BOOLEAN
    BY <1>1, <1>8 DEF CancelCommit, BInv, BrokerTypeOK
  <2>3. QED
    BY <1>8, <2>1, <2>2 DEF CancelCommit, Silent, Late
<1>9. CASE \/ FinishCommit \/ MarkStep \/ RunRaises \/ CancelRead
           \/ RecoverRead \/ RecoverCommit \/ ReaderFails \/ ReaderEnds
           \/ UNCHANGED brokerVars
  BY <1>9 DEF FinishCommit, MarkStep, RunRaises, CancelRead, RecoverRead, RecoverCommit,
     ReaderFails, ReaderEnds, brokerVars, Silent
<1>10. QED
  BY <1>1, <1>3, <1>4, <1>5, <1>6, <1>7, <1>8, <1>9 DEF BrokerNext

\* A step of the worker or the API, seen by one who watches.
LEMMA StreamOfBroker ==
  BInv /\ FInv /\ [BrokerNext]_brokerVars /\ UNCHANGED feedVars =>
    [Stream!SNext]_(Stream!svars)
<1>1. SUFFICES ASSUME BInv, FInv, [BrokerNext]_brokerVars, UNCHANGED feedVars
      PROVE  [Stream!SNext]_(Stream!svars)
  OBVIOUS
<1>2. BInv' /\ Moves /\ UNCHANGED <<feed, shown>>
  BY <1>1, BrokerStep DEF feedVars
<1>3. CASE Silent
  BY <1>2, <1>3 DEF Silent, Stream!svars
<1>4. CASE Killed
  <2>1. crashed' = TRUE
    BY <1>2, <1>4 DEF Killed, BInv, BrokerTypeOK
  <2>2. Stream!Die
    BY <1>2, <1>4, <2>1 DEF Killed, Stream!Die
  <2>3. QED  BY <2>2 DEF Stream!SNext
<1>5. CASE Late
  <2>1. overruled' = TRUE
    BY <1>2, <1>5 DEF Late, BInv, BrokerTypeOK
  <2>2. Stream!Overrule
    BY <1>2, <1>5, <2>1 DEF Late, Stream!Overrule
  <2>3. QED  BY <2>2 DEF Stream!SNext
<1>6. CASE UNCHANGED <<crashed, overruled>> /\ ~ crashed /\ Said
  <2>1. feed = "closed" /\ ~ overruled => own' = own
    BY <1>1, <1>2, <1>6 DEF FInv, Feed, TailIsComplete, Moves
  <2>2. emitted \in Seq(Line) /\ Len(emitted) \in Nat /\ DOMAIN emitted = 1..Len(emitted)
    BY <1>1, LenProperties DEF BInv, BrokerTypeOK
  <2>3. Stream!Begins(emitted, emitted') /\ Len(emitted') <= Len(emitted) + 1
    <3>1. CASE emitted' = emitted
      BY <2>2, <3>1 DEF Stream!Begins
    <3>2. CASE Added
      BY <2>2, <3>2, AppendProperties DEF Added, Stream!Begins
    <3>3. QED
      BY <1>6, <3>1, <3>2 DEF Said
  <2>4. Stream!Begins(logs, logs') /\ Stream!Begins(logs', emitted')
    BY <1>2 DEF Moves, Grows, BInv, NothingLost, Stream!Begins
  <2>5. own' = own \/ (own = Len(emitted) /\ own' = Len(emitted'))
    BY <1>6 DEF Said
  <2>6. Stream!Write
    BY <1>2, <1>6, <2>1, <2>3, <2>4, <2>5 DEF Stream!Write
  <2>7. QED  BY <2>6 DEF Stream!SNext
<1>7. QED
  BY <1>1, <1>3, <1>4, <1>5, <1>6, Spoken

\* A step of the feed: a message with lines, with the end, a cut, or nothing
\* the client sees.
LEMMA StreamOfFeed ==
  BInv /\ FInv /\ FeedNext /\ UNCHANGED brokerVars => [Stream!SNext]_(Stream!svars)
<1>1. SUFFICES ASSUME BInv, FInv, FeedNext, UNCHANGED brokerVars
      PROVE  [Stream!SNext]_(Stream!svars)
  OBVIOUS
<1>2. /\ UNCHANGED <<emitted, own, logs, status, crashed, overruled>>
      /\ BInv' /\ FInv'
  BY <1>1, BrokerStep, FeedStep DEF brokerVars, database, lines, history
<1>3. /\ logs \in Seq(Line) /\ Len(logs) \in Nat /\ DOMAIN logs = 1..Len(logs)
      /\ shown \in Seq(Line) /\ Len(shown) \in Nat /\ DOMAIN shown = 1..Len(shown)
      /\ emitted \in Seq(Line) /\ crashed \in BOOLEAN
  BY <1>1, LenProperties DEF BInv, BrokerTypeOK, FInv, TypeOK
<1>4. Stream!Begins(shown', logs)
  BY <1>2 DEF FInv, ShownIsPrefix, Stream!Begins
\* A feed that closes has shown the run's lines, or all there will be.
<1>5. feed' = "closed" /\ ~ overruled => Len(shown') >= own \/ (crashed /\ shown' = logs)
  BY <1>2 DEF FInv, TailIsComplete
<1>6. ASSUME feed # "closed", Stream!Begins(shown, shown')
      PROVE  [Stream!SNext]_(Stream!svars)
  <2>1. CASE feed' = "closed"
    <3>1. Stream!Close
      BY <1>2, <1>4, <1>5, <1>6, <2>1 DEF Stream!Close
    <3>2. QED  BY <3>1 DEF Stream!SNext
  <2>2. CASE feed' # "closed"
    <3>1. Stream!Show
      BY <1>2, <1>4, <1>6, <2>2 DEF Stream!Show
    <3>2. QED  BY <3>1 DEF Stream!SNext
  <2>3. QED  BY <2>1, <2>2
<1>7. CASE ReadJob \/ ReadLogs \/ PollJob \/ PollStatus
  <2>1. feed # "closed" /\ shown' = shown
    BY <1>7 DEF ReadJob, ReadLogs, PollJob, PollStatus
  <2>2. Stream!Begins(shown, shown')
    BY <1>3, <2>1 DEF Stream!Begins
  <2>3. QED  BY <1>6, <2>1, <2>2
<1>8. CASE Connected
  <2>1. feed # "closed" /\ shown = <<>>
    BY <1>1, <1>8 DEF Connected, FInv, Feed
  <2>2. shown' \in Seq(Line) /\ Len(shown') \in Nat
    BY <1>2, LenProperties DEF FInv, TypeOK
  <2>3. Stream!Begins(shown, shown')
    BY <2>1, <2>2 DEF Stream!Begins
  <2>4. QED  BY <1>6, <2>1, <2>3
<1>9. CASE PollLogs
  <2>1. feed # "closed" /\ shown' = logs
    BY <1>1, <1>3, <1>9, CatchUp DEF PollLogs, After, FInv, Feed, ShownIsPrefix
  <2>2. Stream!Begins(shown, shown')
    BY <1>1, <2>1 DEF FInv, ShownIsPrefix, Stream!Begins
  <2>3. QED  BY <1>6, <2>1, <2>2
<1>10. CASE Drop
  <2>1. Stream!Restart
    BY <1>2, <1>10 DEF Drop, Stream!Restart
  <2>2. QED  BY <2>1 DEF Stream!SNext
<1>11. QED
  BY <1>1, <1>7, <1>8, <1>9, <1>10 DEF FeedNext, Poll

\* Whoever watches a deployment gets what LogStream promises, for batches of
\* any size, any number of failed commits and connections.
THEOREM StreamImplemented == Spec => ImplementsStream
<1>1. Init => Stream!SInit
  BY DEF Init, BrokerInit, Stream!SInit
<1>2. BInv /\ FInv /\ [Next]_vars => [Stream!SNext]_(Stream!svars)
  <2>1. SUFFICES ASSUME BInv, FInv, [Next]_vars PROVE [Stream!SNext]_(Stream!svars)
    OBVIOUS
  <2>2. CASE FeedNext /\ UNCHANGED brokerVars
    BY <2>1, <2>2, StreamOfFeed
  <2>3. CASE [BrokerNext]_brokerVars /\ UNCHANGED feedVars
    BY <2>1, <2>3, StreamOfBroker
  <2>4. QED
    BY <2>1, <2>2, <2>3 DEF Next, vars
<1>3. QED
  BY <1>1, <1>2, Invariance, PTL DEF Spec, ImplementsStream, Stream!SSpec
=============================================================================
