----------------------------- MODULE Publisher ------------------------------
(***************************************************************************)
(* The consumers of the Output WAL (internal/publisher): the DB projector  *)
(* applies its records to the database, the event publisher sends them to  *)
(* the event queue.  Each has a cursor in memory and a row in the cursors  *)
(* table.  Around them: the engine appends records, the snapshot goroutine *)
(* truncates the log, and the process may end and start again.             *)
(*                                                                         *)
(* A record is its index.  What it does to the database is to set a row    *)
(* (an order, an account, a holding, ...) to its own value, and perhaps to *)
(* insert a trade, whose primary key refuses a second insertion.           *)
(***************************************************************************)
EXTENDS Integers, FiniteSets, FiniteSetsExt

CONSTANTS
  MaxRecords,    \* bound on the records written
  BatchSize,     \* dbProjectorBatchSize, eventPublisherBatchSize
  Rows,          \* rows of the database
  RowOf(_),      \* the row a record sets
  HasTrade(_),   \* whether it inserts a trade
  MaxFaults,     \* bound on the failing calls
  MaxRestarts    \* bound on the restarts

ASSUME PublisherAssumption ==
  /\ MaxRecords \in Nat /\ BatchSize \in Nat \ {0}
  /\ \A i \in 1..MaxRecords : RowOf(i) \in Rows /\ HasTrade(i) \in BOOLEAN

VARIABLES
  last,      \* the last index of the Output WAL
  first,     \* its first index
  signal,    \* outputSignal holds a value
  wake,      \* dbSignal and eventSignal: which of them hold a value
  worker,    \* the two goroutines
  saved,     \* the cursors table
  row,       \* the record that set each row of the database last
  trades,    \* the records whose trade is in the database
  queued,    \* the records the event queue has received
  faults,
  restarts

db == <<row, trades>>
log == <<last, first>>
vars == <<log, signal, wake, worker, saved, db, queued, faults, restarts>>

Workers == {"db", "mq"}

\* Run has not loaded the cursor yet.
Starting == [pc |-> "start", cursor |-> 0, last |-> 0, end |-> 0]

Init ==
  /\ last = 0 /\ first = 1 /\ signal = FALSE
  /\ wake = [w \in Workers |-> FALSE]
  /\ worker = [w \in Workers |-> Starting]
  /\ saved = [w \in Workers |-> 0]
  /\ row = [k \in Rows |-> 0] /\ trades = {} /\ queued = {}
  /\ faults = 0 /\ restarts = 0

Fault == faults < MaxFaults /\ faults' = faults + 1
NoFault == UNCHANGED faults

-----------------------------------------------------------------------------
(* The engine and the signals.                                              *)

\* appendOutput and notifyPublisher: a full channel swallows the signal.
appendOutput ==
  /\ last < MaxRecords
  /\ last' = last + 1
  /\ signal' = TRUE
  /\ UNCHANGED <<first, wake, worker, saved, db, queued, faults, restarts>>

fanOutSignals ==
  /\ signal
  /\ signal' = FALSE
  /\ wake' = [w \in Workers |-> TRUE]
  /\ UNCHANGED <<log, worker, saved, db, queued, faults, restarts>>

\* cleanupOutputWAL, with the cursors of the table.  The mutant looks at one of them.
ProjectedOnly == saved["db"]
Floor == Min({saved["mq"], saved["db"]})

cleanupOutputWAL ==
  /\ Floor # 0 /\ first < Floor /\ Floor <= last
  /\ first' = Floor
  /\ UNCHANGED <<last, signal, wake, worker, saved, db, queued, faults, restarts>>

-----------------------------------------------------------------------------
(* What the two workers have in common: Run and the loop of drain.          *)

\* Run: a worker resumes after the record its row names (the mutant at the beginning).
\* One that cannot load the row ends, and nothing starts it again.
FromStart(w) == 0
Resume(w) == saved[w]

LoadCursor(w) ==
  /\ worker[w].pc = "start"
  /\ \/ NoFault /\ worker' = [worker EXCEPT ![w] = [@ EXCEPT !.pc = "drain", !.cursor = Resume(w)]]
     \/ Fault /\ worker' = [worker EXCEPT ![w].pc = "stopped"]
  /\ UNCHANGED <<log, signal, wake, saved, db, queued, restarts>>

ReadLast(w) ==
  /\ worker[w].pc = "drain"
  /\ worker' = [worker EXCEPT ![w] = [@ EXCEPT !.pc = "batch", !.last = last]]
  /\ UNCHANGED <<log, signal, wake, saved, db, queued, faults, restarts>>

\* The next batch, unless all is done or a record has been truncated.  The mutant
\* does not stop at the last record.
WholeBatch(w) == worker[w].cursor + BatchSize
BatchEnd(w) == Min({worker[w].cursor + BatchSize, worker[w].last})

ReadBatch(w) ==
  LET me == worker[w]
  IN /\ me.pc = "batch"
     /\ worker' = [worker EXCEPT ![w] =
          IF me.cursor < me.last /\ first <= me.cursor + 1
          THEN [me EXCEPT !.pc = "send", !.end = BatchEnd(w)]
          ELSE [me EXCEPT !.pc = "wait"]]
     /\ UNCHANGED <<log, signal, wake, saved, db, queued, faults, restarts>>

\* The select of Run: a signal, or the ticker that fires every second.
NoTicker == FALSE
Ticker == TRUE

Wake(w) ==
  /\ worker[w].pc = "wait"
  /\ \/ wake[w] /\ wake' = [wake EXCEPT ![w] = FALSE]
     \/ Ticker /\ UNCHANGED wake
  /\ worker' = [worker EXCEPT ![w].pc = "drain"]
  /\ UNCHANGED <<log, signal, saved, db, queued, faults, restarts>>

\* The end of a batch, and its failure: drain returns and the cursor stays.  The mutant
\* moves on.
Advance(w) == [worker EXCEPT ![w] = [@ EXCEPT !.pc = "batch", !.cursor = worker[w].end]]
SkipBatch(w) == [worker EXCEPT ![w] = [@ EXCEPT !.pc = "wait", !.cursor = worker[w].end]]
GiveUp(w) == [worker EXCEPT ![w].pc = "wait"]

Batch(w) == (worker[w].cursor + 1)..worker[w].end

-----------------------------------------------------------------------------
(* The DB projector.                                                        *)

\* The database after the transaction of applyBatch: each record in turn, and the
\* cursor.  In the mutant the cursor is not part of the transaction, which failed.
CursorAlone == UNCHANGED db /\ saved' = [saved EXCEPT !["db"] = worker["db"].end]
Committed ==
  LET batch == Batch("db")
  IN /\ row' = [k \in Rows |-> LET writes == {i \in batch : RowOf(i) = k}
                               IN IF writes = {} THEN row[k] ELSE Max(writes)]
     /\ trades' = trades \cup {i \in batch : HasTrade(i)}
     /\ saved' = [saved EXCEPT !["db"] = worker["db"].end]

\* applyBatch: it fails as a whole when a trade is there already or the database does;
\* a commit whose answer is lost has happened.
applyBatch ==
  /\ worker["db"].pc = "send"
  /\ \/ /\ {i \in Batch("db") : HasTrade(i)} \cap trades # {}
        /\ NoFault /\ worker' = GiveUp("db") /\ UNCHANGED <<db, saved>>
     \/ /\ {i \in Batch("db") : HasTrade(i)} \cap trades = {}
        /\ Committed
        /\ \/ NoFault /\ worker' = Advance("db")
           \/ Fault /\ worker' = GiveUp("db")
     \/ Fault /\ worker' = GiveUp("db") /\ UNCHANGED <<db, saved>>
  /\ UNCHANGED <<log, signal, wake, queued, restarts>>

-----------------------------------------------------------------------------
(* The event publisher.                                                     *)

\* PublishBatch: all confirmed, or any part of them arrived.
PublishBatch ==
  /\ worker["mq"].pc = "send"
  /\ \/ /\ NoFault
        /\ queued' = queued \cup Batch("mq")
        /\ worker' = [worker EXCEPT !["mq"].pc = "save"]
     \/ /\ Fault
        /\ \E sent \in SUBSET Batch("mq") : queued' = queued \cup sent
        /\ worker' = GiveUp("mq")
  /\ UNCHANGED <<log, signal, wake, saved, db, restarts>>

\* SaveMQPublishedCursor, a statement of its own; it too may lose its answer.
SaveMQPublishedCursor ==
  LET done == [saved EXCEPT !["mq"] = worker["mq"].end]
  IN /\ worker["mq"].pc = "save"
     /\ \/ NoFault /\ saved' = done /\ worker' = Advance("mq")
        \/ Fault /\ saved' \in {saved, done} /\ worker' = GiveUp("mq")
     /\ UNCHANGED <<log, signal, wake, db, queued, restarts>>

\* The process ends at any moment and starts again: memory and signals are lost.
Restart ==
  /\ restarts < MaxRestarts
  /\ restarts' = restarts + 1
  /\ signal' = FALSE
  /\ wake' = [w \in Workers |-> FALSE]
  /\ worker' = [w \in Workers |-> Starting]
  /\ UNCHANGED <<log, saved, db, queued, faults>>

WorkerStep(w) == LoadCursor(w) \/ ReadLast(w) \/ ReadBatch(w) \/ Wake(w)

Projector == WorkerStep("db") \/ applyBatch
EventPublisher == WorkerStep("mq") \/ PublishBatch \/ SaveMQPublishedCursor

Next ==
  \/ appendOutput \/ fanOutSignals \/ cleanupOutputWAL
  \/ \E w \in Workers : LoadCursor(w) \/ ReadLast(w) \/ ReadBatch(w) \/ Wake(w)
  \/ applyBatch \/ PublishBatch \/ SaveMQPublishedCursor
  \/ Restart

\* Both goroutines are scheduled and their tickers tick.  Nothing is assumed of the
\* signals.
Fairness == WF_vars(Projector) /\ WF_vars(EventPublisher)

Spec == Init /\ [][Next]_vars /\ Fairness

-----------------------------------------------------------------------------
(* Properties                                                               *)

\* The shape of the state; a worker never goes past the end of the log it read.
TypeOK ==
  /\ last \in 0..MaxRecords /\ first \in 1..last + 1
  /\ signal \in BOOLEAN /\ wake \in [Workers -> BOOLEAN]
  /\ worker \in [Workers -> [pc : {"start", "stopped", "drain", "batch", "send", "save", "wait"},
                             cursor : 0..last, last : 0..last, end : 0..last]]
  /\ saved \in [Workers -> 0..last]
  /\ row \in [Rows -> 0..last] /\ trades \subseteq 1..last /\ queued \subseteq 1..last

\* applyBatch: the database is always exactly what the records up to the cursor row
\* make of it, each row set by the latest of them and each trade there once, however
\* often a batch failed, lost its answer or was repeated.
DatabaseExact ==
  /\ row = [k \in Rows |-> Max({0} \cup {i \in 1..saved["db"] : RowOf(i) = k})]
  /\ trades = {i \in 1..saved["db"] : HasTrade(i)}

\* EventPublisher.drain: the event queue has received every record up to the cursor
\* row at least once.
NothingSkipped == 1..saved["mq"] \subseteq queued

\* cleanupOutputWAL: a record leaves the log only when the event queue has received it
\* and the database shows it or a later one, whichever worker is behind.
NothingLost ==
  \A i \in 1..first - 1 : /\ i \in queued
                          /\ row[RowOf(i)] >= i
                          /\ HasTrade(i) => i \in trades

\* Run, drain: no failure, lost answer or restart moves a cursor row back.
CursorsAdvance == [][\A w \in Workers : saved'[w] >= saved[w]]_vars

\* What only a restart mends: the worker's answer was lost, its cursor is behind its
\* row, and the batch it repeats can be read no more or inserts a trade again.
Stuck(w) ==
  LET behind == (worker[w].cursor + 1)..saved[w]
  IN \/ worker[w].pc = "stopped"
     \/ /\ worker[w].pc # "start"
        /\ \E i \in behind : i < first \/ (w = "db" /\ HasTrade(i))

\* Run, drain: whatever the event publisher does and whichever signals are lost, the
\* database catches up with the log again and again, unless the projector is stuck.
Projected == []<>(saved["db"] = last \/ Stuck("db"))

\* The same for the event queue, whatever the projector does.
Published == []<>(saved["mq"] = last \/ Stuck("mq"))
=============================================================================
