------------------------------ MODULE Recovery ------------------------------
(***************************************************************************)
(* The engine as a recoverable process (core/engine.go, core/handle.go):   *)
(* it consumes a broker queue, writes each request to the Input WAL, then  *)
(* applies it and writes its events to the Output WAL, then acknowledges   *)
(* it; a goroutine saves snapshots and truncates both logs; a crash loses  *)
(* everything but the logs and the database.                               *)
(*                                                                         *)
(* The ledger is the sequence of the requests applied to it: handlers are  *)
(* deterministic, so equal sequences are equal ledgers.  A request is the  *)
(* number under which the server sent it.                                  *)
(***************************************************************************)
EXTENDS Dedup, FiniteSets, FiniteSetsExt

CONSTANTS
  MaxRequests,     \* bound on the requests sent
  Undecodable,     \* requests the engine refuses with a Nack
  KindOf(_),       \* the pattern of a request
  TradesOf(_),     \* the number of trades it makes
  Prefetch,        \* rabbitMQPrefetchCount
  Retention,       \* snapshotRetention
  MaxCrashes,      \* bound on the crashes
  MaxSnapshots     \* bound on the snapshot ticks

ASSUME RecoveryAssumption ==
  /\ MaxRequests \in Nat /\ Undecodable \subseteq 1..MaxRequests
  /\ \A r \in 1..MaxRequests : KindOf(r) \in Kinds /\ TradesOf(r) \in Nat
  /\ Prefetch \in 1..Window
  /\ Retention \in Nat \ {0}

VARIABLES
  sent,        \* the number of requests sent
  queue,       \* requests the broker holds, oldest first
  taken,       \* how many of them this process took from the delivery channel
  acked,       \* and how many of those it settled; the broker has yet to learn it
  input,       \* every request ever written to the Input WAL
  inputFirst,  \* the first index still there
  output,      \* every envelope ever written to the Output WAL
  outputFirst, \* the first index still there
  engine,      \* the memory of the engine goroutine
  ticked,      \* the snapshot channel: at most one snapshot
  saver,       \* the snapshot goroutine
  snapshots,   \* the snapshots table, oldest first
  dbCursor,    \* DB_APPLIED_OUTPUT_SEQ
  mqCursor,    \* MQ_PUBLISHED_OUTPUT_SEQ
  crashes,
  ticks

broker == <<sent, queue, taken, acked>>
logs == <<input, inputFirst, output, outputFirst>>
saving == <<ticked, saver, snapshots, ticks>>
cursors == <<dbCursor, mqCursor>>
vars == <<broker, logs, engine, saving, cursors, crashes>>

Down == [pc |-> "down"]
Waiting == [pc |-> "wait"]

Init ==
  /\ sent = 0 /\ queue = <<>> /\ taken = 0 /\ acked = 0
  /\ input = <<>> /\ inputFirst = 1 /\ output = <<>> /\ outputFirst = 1
  /\ engine = Down /\ ticked = <<>> /\ saver = Waiting /\ snapshots = <<>>
  /\ dbCursor = 0 /\ mqCursor = 0 /\ crashes = 0 /\ ticks = 0

-----------------------------------------------------------------------------
(* The broker keeps a request until it learns that it was settled, and      *)
(* delivers at most Prefetch that are not.                                  *)

Send ==
  /\ sent < MaxRequests
  /\ sent' = sent + 1
  /\ queue' = Append(queue, sent + 1)
  /\ UNCHANGED <<taken, acked, logs, engine, saving, cursors, crashes>>

BrokerSettles ==
  /\ acked > 0
  /\ queue' = Tail(queue)
  /\ taken' = taken - 1
  /\ acked' = acked - 1
  /\ UNCHANGED <<sent, logs, engine, saving, cursors, crashes>>

-----------------------------------------------------------------------------
(* Start and recovery.  An engine that cannot read a record it needs stops  *)
(* with an error: pc is "failed".                                           *)

WalRecord(i) == [kind |-> KindOf(input[i]), id |-> input[i]]

\* NewEngine: loadOutputWatermark and loadDedup.
NewEngine ==
  LET last == Len(input)
  IN /\ engine = Down
     /\ engine' = IF last > 0 /\ DedupStart(last) < inputFirst
                  THEN [pc |-> "failed"]
                  ELSE [pc |-> "trade ids", request |-> 0, state |-> <<>>, inputSeq |-> 0,
                        outputAppliedSeq |-> IF output = <<>> THEN 0
                                             ELSE output[Len(output)].inputSeq,
                        lastTradeID |-> 0,
                        dedup |-> loadDedup([i \in 1..last |-> WalRecord(i)])]
     /\ UNCHANGED <<broker, logs, saving, cursors, crashes>>

\* LastTradeID: the trades table holds the trades of every envelope applied to it.
LastTradeID == Max({0} \cup UNION {{output[i].trades[j] : j \in 1..Len(output[i].trades)} :
                                   i \in 1..dbCursor})

\* initializeTradeID: the last trade of the Output WAL, or else of the database.
RecoveredTradeID ==
  LET found == {i \in outputFirst..Len(output) : output[i].trades # <<>>}
  IN IF found # {} THEN output[Max(found)].trades[Len(output[Max(found)].trades)]
     ELSE LastTradeID

initializeTradeID ==
  /\ engine.pc = "trade ids"
  /\ engine' = [engine EXCEPT !.pc = "restore", !.lastTradeID = RecoveredTradeID]
  /\ UNCHANGED <<broker, logs, saving, cursors, crashes>>

\* The head of Replay: the newest snapshot, if there is one.
RestoreSnapshot ==
  LET n == Len(snapshots)
  IN /\ engine.pc = "restore"
     /\ engine' = IF n = 0 THEN [engine EXCEPT !.pc = "replay"]
                  ELSE [engine EXCEPT !.pc = "replay", !.state = snapshots[n].state,
                                      !.inputSeq = snapshots[n].inputSeq]
     /\ UNCHANGED <<broker, logs, saving, cursors, crashes>>

\* What appendOutput and the trade ids of matchEvents depend on: the events of this
\* input are not in the Output WAL yet.  The mutant has forgotten the watermark.
AlwaysNew(seq) == TRUE
IsNew(seq) == engine.outputAppliedSeq = 0 \/ seq > engine.outputAppliedSeq

\* A handler applies request r, number seq, and writes its envelope: the part of
\* handleOrder, applyTransfer, ... that the live path and Replay share.
Apply(r, seq, pc) ==
  LET n == IF IsNew(seq) THEN TradesOf(r) ELSE 0
  IN /\ engine' = [engine EXCEPT !.pc = pc, !.inputSeq = seq, !.state = Append(@, r),
                                 !.lastTradeID = @ + n]
     /\ output' = IF ~IsNew(seq) THEN output
                  ELSE Append(output, [inputSeq |-> seq,
                                       trades |-> [j \in 1..n |-> engine.lastTradeID + j]])

ReplayRecord ==
  LET i == engine.inputSeq + 1
  IN /\ engine.pc = "replay" /\ i <= Len(input)
     /\ IF i >= inputFirst THEN Apply(input[i], i, "replay")
        ELSE engine' = [pc |-> "failed"] /\ UNCHANGED output
     /\ UNCHANGED <<broker, input, inputFirst, outputFirst, saving, cursors, crashes>>

-----------------------------------------------------------------------------
(* Truncation.  TruncateFront(i) makes i the first index; an index that is  *)
(* not in the log is refused and ignored.                                   *)

TruncateFront(first, last, i) == IF first <= i /\ i <= last THEN i ELSE first

\* cleanupInputWAL keeps what the oldest snapshot kept and loadDedup may need.
\* The mutant keeps only what Replay needs.
ReplayFloor(floor) == floor + 1
InputTarget(floor) == IF floor + 1 > Window THEN floor - Window + 1 ELSE 1

cleanupInputWAL(floor) ==
  inputFirst' = TruncateFront(inputFirst, Len(input), InputTarget(floor))

\* cleanupOutputWAL keeps the last record both consumers have finished with, for the
\* watermark.
cleanupOutputWAL ==
  LET floor == Min({dbCursor, mqCursor})
  IN outputFirst' = IF floor = 0 THEN outputFirst
                    ELSE TruncateFront(outputFirst, Len(output), floor)

\* PruneSnapshots: the newest Retention rows stay; the floor is the oldest of them.
\* The mutant prunes nothing.
KeepAll(rows) == rows
Pruned(rows) == SubSeq(rows, IF Len(rows) > Retention THEN Len(rows) - Retention + 1 ELSE 1,
                       Len(rows))

\* Run, once Replay is done: prune and truncate, then consume.  What fails in the
\* database is only logged.
BootCleanup ==
  LET rows == Pruned(snapshots)
  IN /\ engine.pc = "replay" /\ engine.inputSeq >= Len(input)
     /\ \/ /\ snapshots' = rows
           /\ IF rows = <<>> THEN UNCHANGED inputFirst ELSE cleanupInputWAL(rows[1].inputSeq)
        \/ UNCHANGED <<snapshots, inputFirst>>
     /\ cleanupOutputWAL \/ UNCHANGED outputFirst
     /\ engine' = [engine EXCEPT !.pc = "running"]
     /\ UNCHANGED <<broker, input, output, ticked, saver, ticks, cursors, crashes>>

-----------------------------------------------------------------------------
(* The engine goroutine: one delivery at a time (handle.go).                *)

\* A request that cannot be decoded is dropped (Nack without requeue), a known one is
\* acknowledged.
Settle ==
  /\ taken' = taken + 1
  /\ acked' = acked + 1
  /\ UNCHANGED <<sent, queue, logs, engine, saving, cursors, crashes>>

\* A new one goes to the Input WAL first.  The mutant acknowledges it at once.
AckFirst(r) ==
  /\ taken' = taken + 1
  /\ acked' = acked + 1
  /\ input' = Append(input, r)
  /\ engine' = [engine EXCEPT !.pc = "apply", !.request = r, !.inputSeq = Len(input) + 1,
                              !.dedup = add(@, KindOf(r), r)]
  /\ UNCHANGED <<sent, queue, inputFirst, output, outputFirst, saving, cursors, crashes>>

AppendInput(r) ==
  /\ taken' = taken + 1
  /\ input' = Append(input, r)
  /\ engine' = [engine EXCEPT !.pc = "apply", !.request = r, !.inputSeq = Len(input) + 1,
                              !.dedup = add(@, KindOf(r), r)]
  /\ UNCHANGED <<sent, queue, acked, inputFirst, output, outputFirst, saving, cursors, crashes>>

\* The mutant leaves a known request to the broker.
LeaveDuplicate(r) == r \in Undecodable
IsSettled(r) == r \in Undecodable \/ has(engine.dedup, KindOf(r), r)

handle ==
  /\ engine.pc = "running" /\ taken < Len(queue) /\ taken < Prefetch
  /\ LET r == queue[taken + 1]
     IN \/ IsSettled(r) /\ Settle
        \/ r \notin Undecodable /\ ~has(engine.dedup, KindOf(r), r) /\ AppendInput(r)

\* Then it is applied and its envelope written.
ApplyRequest ==
  /\ engine.pc = "apply"
  /\ Apply(engine.request, engine.inputSeq, "ack")
  /\ UNCHANGED <<broker, input, inputFirst, outputFirst, saving, cursors, crashes>>

Ack ==
  /\ engine.pc = "ack"
  /\ acked' = acked + 1
  /\ engine' = [engine EXCEPT !.pc = "running", !.request = 0]
  /\ UNCHANGED <<sent, queue, taken, logs, saving, cursors, crashes>>

\* A tick between two deliveries: serialise the state, unless one is still waiting.
\* The mutant numbers the snapshot one request too high.
SnapshotAhead == engine.inputSeq + 1
SnapshotSeq == engine.inputSeq

snapshot ==
  /\ engine.pc = "running" /\ ticks < MaxSnapshots
  /\ ticks' = ticks + 1
  /\ ticked' = IF ticked = <<>> THEN <<[state |-> engine.state, inputSeq |-> SnapshotSeq]>>
               ELSE ticked
  /\ UNCHANGED <<broker, logs, engine, saver, snapshots, cursors, crashes>>

-----------------------------------------------------------------------------
(* The snapshot goroutine (runSnapshotSaver); it runs once Run has started  *)
(* to consume.                                                              *)

SaverTakes ==
  /\ saver.pc = "wait" /\ ticked # <<>>
  /\ saver' = [pc |-> "save", snap |-> ticked[1], floor |-> 0]
  /\ ticked' = <<>>
  /\ UNCHANGED <<broker, logs, engine, snapshots, ticks, cursors, crashes>>

\* SaveSnapshotAndPrune, one transaction, or its failure: a commit that reports an
\* error may have happened.
SaveSnapshotAndPrune ==
  LET rows == Pruned(Append(snapshots, saver.snap))
  IN /\ saver.pc = "save"
     /\ \/ snapshots' = rows /\ saver' = [saver EXCEPT !.pc = "input", !.floor = rows[1].inputSeq]
        \/ snapshots' \in {snapshots, rows} /\ saver' = Waiting
     /\ UNCHANGED <<broker, logs, engine, ticked, ticks, cursors, crashes>>

SaverCleansInput ==
  /\ saver.pc = "input"
  /\ cleanupInputWAL(saver.floor)
  /\ saver' = [saver EXCEPT !.pc = "output"]
  /\ UNCHANGED <<broker, input, output, outputFirst, engine, ticked, snapshots, ticks, cursors,
                 crashes>>

SaverCleansOutput ==
  /\ saver.pc = "output"
  /\ cleanupOutputWAL \/ UNCHANGED outputFirst
  /\ saver' = Waiting
  /\ UNCHANGED <<broker, input, inputFirst, output, engine, ticked, snapshots, ticks, cursors,
                 crashes>>

-----------------------------------------------------------------------------
(* The consumers of the Output WAL, in the same process: all Recovery needs *)
(* of them is that a cursor passes envelopes that were really written.      *)

Started == engine.pc \notin {"down", "failed"}

Project ==
  /\ Started /\ dbCursor < Len(output)
  /\ dbCursor' \in (dbCursor + 1)..Len(output)
  /\ UNCHANGED <<broker, logs, engine, saving, mqCursor, crashes>>

Publish ==
  /\ Started /\ mqCursor < Len(output)
  /\ mqCursor' \in (mqCursor + 1)..Len(output)
  /\ UNCHANGED <<broker, logs, engine, saving, dbCursor, crashes>>

\* The process ends, by a crash or by an error of the engine (a lost connection, a
\* failed Ack, a failed write); what the broker has not seen settled it delivers again.
Crash ==
  /\ Started /\ crashes < MaxCrashes
  /\ crashes' = crashes + 1
  /\ engine' = Down /\ ticked' = <<>> /\ saver' = Waiting
  /\ taken' = 0 /\ acked' = 0
  /\ UNCHANGED <<sent, queue, logs, snapshots, ticks, cursors>>

EngineStep ==
  \/ NewEngine \/ initializeTradeID \/ RestoreSnapshot \/ ReplayRecord \/ BootCleanup
  \/ handle \/ ApplyRequest \/ Ack

Next ==
  \/ Send \/ BrokerSettles
  \/ NewEngine \/ initializeTradeID \/ RestoreSnapshot \/ ReplayRecord \/ BootCleanup
  \/ handle \/ ApplyRequest \/ Ack \/ snapshot
  \/ SaverTakes \/ SaveSnapshotAndPrune \/ SaverCleansInput \/ SaverCleansOutput
  \/ Project \/ Publish
  \/ Crash

\* The process is started again after it ended, its engine goroutine is scheduled, and
\* the broker receives the acknowledgements sent to it.
Fairness == WF_vars(EngineStep) /\ WF_vars(BrokerSettles)

Spec == Init /\ [][Next]_vars /\ Fairness

-----------------------------------------------------------------------------
(* Properties                                                               *)

RL == INSTANCE RequestLog WITH Requests <- (1..MaxRequests) \ Undecodable,
                               handled <- input, results <- output

Snapshot == [state : Seq(1..MaxRequests), inputSeq : Nat]

\* The shape of the state; at most Retention snapshots are kept.
TypeOK ==
  /\ sent \in 0..MaxRequests /\ queue \in Seq(1..sent)
  /\ acked \in 0..taken /\ taken \in 0..Min({Len(queue), Prefetch})
  /\ input \in Seq(1..sent) /\ inputFirst \in 1..Len(input) + 1
  /\ output \in Seq([inputSeq : Nat, trades : Seq(Nat)]) /\ outputFirst \in 1..Len(output) + 1
  /\ engine.pc \in {"down", "failed", "trade ids", "restore", "replay", "running", "apply", "ack"}
  /\ Started => /\ engine.request \in 0..sent /\ engine.state \in Seq(1..sent)
                /\ {engine.inputSeq, engine.outputAppliedSeq, engine.lastTradeID} \subseteq Nat
  /\ ticked \in Seq(Snapshot) /\ Len(ticked) <= 1
  /\ saver.pc \in {"wait", "save", "input", "output"}
  /\ snapshots \in Seq(Snapshot) /\ Len(snapshots) <= Retention
  /\ {dbCursor, mqCursor} \subseteq 0..Len(output)

\* Run, Replay: whenever the engine is about to take a request, its ledger is the one
\* that all requests of the Input WAL make, each applied once and in their order,
\* whatever snapshot it started from; and it is about to give the next trade the id
\* after the last one of the Output WAL.
Recovered ==
  engine.pc = "running" =>
    /\ engine.state = input
    /\ engine.inputSeq = Len(input)
    /\ \A i \in 1..Len(output) : \A j \in 1..Len(output[i].trades) :
         output[i].trades[j] <= engine.lastTradeID

\* cleanupInputWAL, SaveSnapshotAndPrune: no start of the engine asks the Input WAL for
\* a record that was truncated, whatever the engine and the snapshot goroutine were
\* doing when the process ended.
CanStart == engine.pc # "failed"

\* handle, Ack: wherever the process ends, a request that can be decoded is still with the
\* broker, or its events are in the Output WAL.
RequestsKept ==
  \A r \in (1..sent) \ Undecodable :
    \/ \E j \in 1..Len(queue) : queue[j] = r
    \/ \E i \in 1..Len(output) : input[i] = r

\* handle, Replay, appendOutput: the two logs together are those of an engine that
\* never crashed: each request at most once, in the order sent, one envelope for each,
\* trade ids consecutive.
RequestLogSpec == RL!Spec

\* handle, Ack, Replay: however often the process ends, a time comes again and again
\* when every request sent so far is settled with the broker and, unless it cannot be
\* decoded, has its events in the Output WAL.
Answered ==
  []<>(/\ queue = <<>>
       /\ \A r \in (1..sent) \ Undecodable : \E i \in 1..Len(output) : input[i] = r)
=============================================================================
