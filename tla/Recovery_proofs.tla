-------------------------- MODULE Recovery_proofs ---------------------------
(***************************************************************************)
(* Recovery is safe for any number of requests, crashes and snapshots, and *)
(* it implements RequestLog.                                               *)
(***************************************************************************)
EXTENDS RecoveryParts_proofs

\* Zenon proves every leaf that names no other prover; SMT is named for the rest.
USE ZenonT(30)

-----------------------------------------------------------------------------
(* Applying a request.                                                      *)

\* What the state says of the Output WAL stays true of a longer one.
LEMMA OutputGrows ==
  ASSUME RecoveryInv, NEW o, Longer(output, o), Len(o) <= Len(input)
  PROVE  /\ SettledInv(sent, queue, input, Len(o)) /\ TakenInv(queue, acked, input, Len(o))
         /\ CursorInv(o, outputFirst, dbCursor, mqCursor) /\ SnapshotInv(snapshots, input, o)
         /\ SavingInv(snapshots, input, o, ticked, saver)
<1>1. /\ SettledInv(sent, queue, input, Len(output)) /\ TakenInv(queue, acked, input, Len(output))
      /\ CursorInv(output, outputFirst, dbCursor, mqCursor)
      /\ SnapshotInv(snapshots, input, output)
      /\ SavingInv(snapshots, input, output, ticked, saver)
  BY DEF RecoveryInv
<1>2. Len(output) \in Nat /\ Len(output) <= Len(input) /\ input \in Seq(1..sent)
  BY LogTypes
<1>3. Longer(input, input)
  BY <1>2, LongerSame
<1>4. Len(o) \in Nat /\ Len(output) <= Len(o)
  BY DEF Longer
<1>5. SettledInv(sent, queue, input, Len(o))
  BY <1>1, <1>2, <1>3, <1>4, SettledLonger
<1>6. TakenInv(queue, acked, input, Len(o))
  BY <1>1, <1>2, <1>3, <1>4, TakenLonger
<1>7. CursorInv(o, outputFirst, dbCursor, mqCursor)
  BY <1>1, CursorLonger
<1>8. SnapshotInv(snapshots, input, o)
  BY <1>1, <1>3, SnapshotLonger
<1>9. SavingInv(snapshots, input, o, ticked, saver)
  BY <1>1, <1>3, SavingLonger
<1> QED BY <1>5, <1>6, <1>7, <1>8, <1>9

\* What Apply does to the Output WAL: nothing, or the envelope of input number seq.
Writes(seq, m, o, k) ==
  \/ ~IsNew(seq) /\ o = output /\ k = m
  \/ /\ IsNew(seq) /\ seq = Len(output) + 1 /\ OneLonger(output, o[seq], o)
     /\ o = Append(output, [inputSeq |-> seq,
                            trades |-> [j \in 1..TradesOf(input[seq]) |-> m + j]])
     /\ k = m + TradesOf(input[seq])
Wrote(m, o, k) ==
  /\ Longer(output, o) /\ Len(o) <= Len(input) /\ OutputInv(input, o) /\ Numbered(o, k) /\ k \in Nat

\* A request is given an envelope once, with trade ids that follow the last.
LEMMA EnvelopeWritten ==
  ASSUME RecoveryInv, NEW m \in Nat, Numbered(output, m), NEW seq \in 1..Len(input),
         IsNew(seq) => seq = Len(output) + 1,
         NEW o, o = IF ~IsNew(seq) THEN output
                    ELSE Append(output, [inputSeq |-> seq, trades |->
                      [j \in 1..(IF IsNew(seq) THEN TradesOf(input[seq]) ELSE 0) |-> m + j]]),
         NEW k, k = m + (IF IsNew(seq) THEN TradesOf(input[seq]) ELSE 0)
  PROVE  Writes(seq, m, o, k) /\ Wrote(m, o, k)
<1>1. /\ output \in Seq(Envelope) /\ Len(output) \in Nat /\ Len(output) <= Len(input)
      /\ Len(input) \in Nat /\ Len(input) <= Len(output) + 1 /\ input[seq] \in 1..MaxRequests
  BY LogTypes
<1>2. OutputInv(input, output)
  BY DEF RecoveryInv
<1>3. CASE ~IsNew(seq)
  <2>1. o = output /\ k = m + 0
    BY <1>3
  <2>2. k = m
    BY <2>1, SMT
  <2>3. Longer(output, o)
    BY <1>1, <2>1, LongerSame
  <2> QED BY <1>1, <1>2, <1>3, <2>1, <2>2, <2>3 DEF Writes, Wrote
<1>4. CASE IsNew(seq)
  <2>1. PICK n \in Nat : n = TradesOf(input[seq])
    BY <1>1, RecoveryAssumption
  <2>2. PICK env : env = [inputSeq |-> seq, trades |-> [j \in 1..n |-> m + j]]
    OBVIOUS
  <2>3. o = Append(output, env) /\ k = m + n /\ seq = Len(output) + 1
    BY <1>4, <2>1, <2>2
  <2>4. seq \in Nat
    BY SMT
  <2>5. env \in Envelope /\ o \in Seq(Envelope) /\ Numbered(o, m + n)
    <3>1. /\ env \in Envelope /\ Append(output, env) \in Seq(Envelope)
          /\ Numbered(Append(output, env), m + n)
      BY <1>1, <2>2, <2>4, NumberedAppend
    <3> QED BY <2>3, <3>1
  <2>6. OneLonger(output, env, o)
    BY <1>1, <2>3, <2>5, LongerAppend
  <2>7. Longer(output, o) /\ Len(o) = seq /\ o[seq] = env
    BY <2>3, <2>6 DEF OneLonger
  <2>8. Len(o) <= Len(input) /\ Len(input) <= Len(o) + 1 /\ m + n \in Nat
    BY <1>1, <2>3, <2>7, SMT
  <2>9. \A i \in 1..seq : i = seq \/ i \in 1..Len(output)
    BY <1>1, <2>3, SMT
  <2>10. env.inputSeq = seq
    BY <2>2
  <2>11. \A i \in 1..Len(o) : o[i].inputSeq = i
    BY <1>2, <2>6, <2>7, <2>9, <2>10 DEF OutputInv, OneLonger
  <2>12. OutputInv(input, o)
    BY <2>3, <2>5, <2>8, <2>11 DEF OutputInv, Envelope
  <2>13. Writes(seq, m, o, k)
    BY <1>4, <2>1, <2>2, <2>3, <2>6, <2>7 DEF Writes
  <2> QED BY <2>3, <2>5, <2>7, <2>8, <2>12, <2>13 DEF Wrote
<1> QED BY <1>3, <1>4

\* Apply adds a request to the ledger.
LEMMA PrefixNext ==
  ASSUME NEW st, NEW in, NEW n, Prefix(st, in, n), Len(in) \in Nat, n + 1 <= Len(in),
         in[n + 1] \in 1..MaxRequests
  PROVE  Prefix(Append(st, in[n + 1]), in, n + 1)
<1>1. st \in Seq(1..MaxRequests) /\ n \in Nat /\ Len(st) = n /\ \A i \in 1..n : st[i] = in[i]
  BY DEF Prefix
<1>2. PICK v : v = Append(st, in[n + 1])
  OBVIOUS
<1>3. v \in Seq(1..MaxRequests) /\ OneLonger(st, in[n + 1], v)
  BY <1>1, <1>2, LongerAppend
<1>4. \A i \in 1..(n + 1) : i = n + 1 \/ i \in 1..n
  BY <1>1, SMT
<1>5. \A i \in 1..(n + 1) : v[i] = in[i]
  BY <1>1, <1>3, <1>4 DEF OneLonger
<1>6. n + 1 \in Nat /\ Len(v) = n + 1
  BY <1>1, <1>3, SMT DEF OneLonger
<1> QED BY <1>2, <1>3, <1>5, <1>6 DEF Prefix

\* The ledger of a whole log.
LEMMA PrefixAll ==
  ASSUME NEW in \in Seq(1..MaxRequests), NEW st, Prefix(st, in, Len(in))
  PROVE  st = in
<1>1. /\ st \in Seq(1..MaxRequests) /\ Len(st) = Len(in)
      /\ \A i \in 1..Len(in) : st[i] = in[i]
  BY DEF Prefix
<1> QED BY <1>1, SMT

\* All the requests of a log are a prefix of it.
LEMMA PrefixSelf ==
  ASSUME NEW in \in Seq(1..MaxRequests)
  PROVE  Prefix(in, in, Len(in))
<1>1. Len(in) \in Nat /\ Len(in) <= Len(in)
  BY SMT
<1> QED BY <1>1 DEF Prefix

\* The part of a step that applies input number seq.
LEMMA ApplyStep ==
  ASSUME RecoveryInv, Awake, NEW r, NEW seq \in 1..Len(input), r = input[seq],
         Numbered(output, engine.lastTradeID), IsNew(seq) => seq = Len(output) + 1,
         NEW pc, Apply(r, seq, pc)
  PROVE  \E k \in Nat : /\ Writes(seq, engine.lastTradeID, output', k)
                        /\ Wrote(engine.lastTradeID, output', k)
                        /\ Fields(engine', pc, engine.request, Append(engine.state, r), seq,
                                  engine.outputAppliedSeq, k, engine.dedup)
<1> DEFINE n == IF IsNew(seq) THEN TradesOf(input[seq]) ELSE 0
<1>1. PICK k : k = engine.lastTradeID + n
  OBVIOUS
<1>2. /\ engine' = [engine EXCEPT !.pc = pc, !.inputSeq = seq, !.state = Append(@, r),
                                  !.lastTradeID = @ + n]
      /\ output' = IF ~IsNew(seq) THEN output
                   ELSE Append(output, [inputSeq |-> seq,
                                        trades |-> [j \in 1..n |-> engine.lastTradeID + j]])
  BY DEF Apply
<1>3. engine.lastTradeID \in Nat
  BY DEF Awake, Memory
<1>4. Writes(seq, engine.lastTradeID, output', k) /\ Wrote(engine.lastTradeID, output', k)
  BY <1>1, <1>2, <1>3, EnvelopeWritten
<1> HIDE DEF n
<1>5. engine' = Mem(pc, engine.request, Append(engine.state, r), seq,
                    engine.outputAppliedSeq, k, engine.dedup)
  BY <1>1, <1>2 DEF Awake, Memory, Mem
<1>6. Fields(engine', pc, engine.request, Append(engine.state, r), seq,
             engine.outputAppliedSeq, k, engine.dedup)
  BY <1>5, MemFields
<1> QED BY <1>4, <1>6 DEF Wrote

\* A step that applies a request keeps what is not about the engine.
LEMMA ApplyKeeps ==
  ASSUME RecoveryInv, NEW m, NEW k, Wrote(m, output', k),
         EngineInv(engine', input, inputFirst, output', queue, taken, acked),
         IdleInv(engine', ticked, saver),
         UNCHANGED <<broker, input, inputFirst, outputFirst, saving, cursors>>
  PROVE  RecoveryInv'
<1>1. Longer(output, output') /\ Len(output') <= Len(input) /\ OutputInv(input, output')
  BY DEF Wrote
<1>2. /\ SettledInv(sent, queue, input, Len(output')) /\ TakenInv(queue, acked, input, Len(output'))
      /\ CursorInv(output', outputFirst, dbCursor, mqCursor)
      /\ SnapshotInv(snapshots, input, output')
      /\ SavingInv(snapshots, input, output', ticked, saver)
  BY <1>1, OutputGrows
<1> QED BY <1>1, <1>2 DEF RecoveryInv, broker, saving, cursors

\* Replay: whether an input is new depends only on the length of the Output WAL.
LEMMA ReplayNew ==
  ASSUME RecoveryInv, Awake, engine.pc = "replay"
  PROVE  /\ IsNew(engine.inputSeq + 1) => engine.inputSeq = Len(output)
         /\ ~IsNew(engine.inputSeq + 1) => /\ engine.inputSeq + 1 <= Len(output)
                                           /\ engine.outputAppliedSeq = Len(output)
<1>1. /\ engine.inputSeq <= Len(output) /\ engine.outputAppliedSeq <= Len(output)
      /\ engine.outputAppliedSeq = Len(output) \/ engine.inputSeq = Len(output)
  BY DEF Awake, HoldsInv
<1>2. engine.inputSeq \in Nat /\ engine.outputAppliedSeq \in Nat /\ Len(output) \in Nat
  BY LogTypes DEF Awake, Memory
<1>3. IsNew(engine.inputSeq + 1) <=> \/ engine.outputAppliedSeq = 0
                                     \/ engine.inputSeq + 1 > engine.outputAppliedSeq
  BY DEF IsNew
<1> QED BY <1>1, <1>2, <1>3, SMT

\* replayInputWAL applies the next record, and writes its envelope if it has none.
LEMMA ReplayRecordInv == RecoveryInv /\ ReplayRecord => RecoveryInv'
<1> SUFFICES ASSUME RecoveryInv, ReplayRecord PROVE RecoveryInv'
  OBVIOUS
<1>1. /\ engine.pc = "replay" /\ engine.inputSeq + 1 <= Len(input)
      /\ UNCHANGED <<broker, input, inputFirst, outputFirst, saving, cursors>>
  BY DEF ReplayRecord
<1>2. Awake
  BY <1>1, Starts
<1>3. /\ Prefix(engine.state, input, engine.inputSeq) /\ inputFirst <= engine.inputSeq + 1
      /\ engine.outputAppliedSeq <= Len(output) /\ Numbered(output, engine.lastTradeID)
  BY <1>1, <1>2 DEF Awake, HoldsInv
<1>4. /\ Len(input) \in Nat /\ Len(output) \in Nat
      /\ \A i \in 1..Len(input) : input[i] \in 1..MaxRequests
  BY LogTypes
<1>5. inputFirst \in Nat
  BY DedupReadable
<1>6. PICK seq \in 1..Len(input) : seq = engine.inputSeq + 1
  <2>1. engine.inputSeq \in Nat
    BY <1>2 DEF Awake, Memory
  <2> QED BY <1>1, <1>4, <2>1, SMT
<1>7. seq \in Nat /\ seq >= inputFirst
  BY <1>3, <1>4, <1>5, <1>6, SMT
<1>8. Apply(input[seq], seq, "replay")
  BY <1>6, <1>7 DEF ReplayRecord
<1>9. /\ IsNew(seq) => engine.inputSeq = Len(output) /\ seq = Len(output) + 1
      /\ ~IsNew(seq) => seq <= Len(output) /\ engine.outputAppliedSeq = Len(output)
  BY <1>1, <1>2, <1>6, ReplayNew
<1>10. PICK k \in Nat :
         /\ Writes(seq, engine.lastTradeID, output', k) /\ Wrote(engine.lastTradeID, output', k)
         /\ Fields(engine', "replay", engine.request, Append(engine.state, input[seq]), seq,
                   engine.outputAppliedSeq, k, engine.dedup)
  BY <1>2, <1>3, <1>8, <1>9, ApplyStep
<1>11. Prefix(Append(engine.state, input[seq]), input, seq)
  BY <1>1, <1>3, <1>4, <1>6, PrefixNext
<1>12. Memory(engine')
  BY <1>2, <1>7, <1>10, <1>11 DEF Awake, Memory, Fields, Booting, Prefix
<1>13. inputFirst <= seq + 1
  BY <1>5, <1>7, SMT
<1>14. /\ seq <= Len(output') /\ engine.outputAppliedSeq <= Len(output')
       /\ engine.outputAppliedSeq = Len(output') \/ seq = Len(output')
  <2>1. CASE ~IsNew(seq)
    <3>1. output' = output
      BY <1>10, <2>1 DEF Writes
    <3> QED BY <1>3, <1>9, <2>1, <3>1
  <2>2. CASE IsNew(seq)
    <3>1. Len(output') = Len(output) + 1
      BY <1>10, <2>2 DEF Writes, OneLonger
    <3>2. Len(output') = seq /\ seq <= seq
      BY <1>7, <1>9, <2>2, <3>1, SMT
    <3>3. engine.outputAppliedSeq \in Nat
      BY <1>2 DEF Awake, Memory
    <3>4. engine.outputAppliedSeq <= seq
      BY <1>3, <1>4, <1>9, <2>2, <3>3, SMT
    <3> QED BY <3>2, <3>4
  <2> QED BY <2>1, <2>2
<1>15. Numbered(output', k)
  BY <1>10 DEF Wrote
<1>16. HoldsInv(engine', input, inputFirst, output')
  BY <1>10, <1>11, <1>13, <1>14, <1>15 DEF HoldsInv, Fields
<1>17. WorksInv(engine', input, queue, taken, acked)
  BY <1>1, <1>2, <1>10 DEF Awake, WorksInv, Fields, Booting
<1>18. EngineInv(engine', input, inputFirst, output', queue, taken, acked)
  BY <1>2, <1>10, <1>12, <1>16, <1>17 DEF EngineInv, Awake, Fields
<1>19. IdleInv(engine', ticked, saver)
  BY <1>1 DEF RecoveryInv, IdleInv, Consuming
<1> QED BY <1>1, <1>10, <1>18, <1>19, ApplyKeeps

\* The engine is at work on the last request of the Input WAL.
LEMMA ApplyNew ==
  ASSUME RecoveryInv, Awake, engine.pc = "apply"
  PROVE  /\ engine.inputSeq = Len(input) /\ engine.inputSeq \in 1..Len(input)
         /\ engine.inputSeq = Len(output) + 1 /\ engine.request = input[engine.inputSeq]
         /\ Prefix(engine.state, input, Len(input) - 1) /\ Numbered(output, engine.lastTradeID)
         /\ IsNew(engine.inputSeq)
<1>1. /\ Prefix(engine.state, input, Len(input) - 1) /\ engine.inputSeq = Len(input)
      /\ Len(output) + 1 = Len(input) /\ engine.outputAppliedSeq <= Len(output)
      /\ Numbered(output, engine.lastTradeID)
  BY DEF Awake, HoldsInv
<1>2. Len(input) > 0 /\ engine.request = input[Len(input)]
  BY DEF Awake, WorksInv
<1>3. Len(input) \in Nat /\ Len(output) \in Nat
  BY LogTypes
<1>4. engine.outputAppliedSeq \in Nat
  BY DEF Awake, Memory
<1>5. engine.inputSeq \in 1..Len(input)
  BY <1>1, <1>2, <1>3, SMT
<1>6. engine.inputSeq > engine.outputAppliedSeq
  BY <1>1, <1>3, <1>4, SMT
<1> QED BY <1>1, <1>2, <1>5, <1>6 DEF IsNew

\* The request just appended is applied and gets its envelope.
LEMMA ApplyRequestInv == RecoveryInv /\ ApplyRequest => RecoveryInv'
<1> SUFFICES ASSUME RecoveryInv, ApplyRequest PROVE RecoveryInv'
  OBVIOUS
<1>1. /\ engine.pc = "apply" /\ Apply(engine.request, engine.inputSeq, "ack")
      /\ UNCHANGED <<broker, input, inputFirst, outputFirst, saving, cursors>>
  BY DEF ApplyRequest
<1>2. Awake
  BY <1>1, Starts
<1>3. PICK seq \in 1..Len(input) :
        /\ seq = engine.inputSeq /\ seq = Len(input) /\ seq = Len(output) + 1
        /\ engine.request = input[seq] /\ Prefix(engine.state, input, seq - 1)
        /\ Numbered(output, engine.lastTradeID) /\ IsNew(seq)
  BY <1>1, <1>2, ApplyNew
<1>4. PICK k \in Nat :
         /\ Writes(seq, engine.lastTradeID, output', k) /\ Wrote(engine.lastTradeID, output', k)
         /\ Fields(engine', "ack", engine.request, Append(engine.state, input[seq]), seq,
                   engine.outputAppliedSeq, k, engine.dedup)
  BY <1>1, <1>2, <1>3, ApplyStep
<1>5. /\ Len(input) \in Nat /\ Len(output) \in Nat /\ input \in Seq(1..MaxRequests)
      /\ input[seq] \in 1..MaxRequests
  BY LogTypes
<1>6. seq \in Nat /\ seq <= Len(input) /\ (seq - 1) + 1 = seq
  BY <1>5, SMT
<1>7. Prefix(Append(engine.state, input[seq]), input, seq)
  <2>1. PICK n : n = seq - 1
    OBVIOUS
  <2>2. n + 1 = seq /\ Prefix(engine.state, input, n)
    BY <1>3, <1>6, <2>1
  <2> QED BY <1>5, <1>6, <2>2, PrefixNext
<1>8. Append(engine.state, input[seq]) = input
  <2>1. Prefix(Append(engine.state, input[seq]), input, Len(input))
    BY <1>3, <1>7
  <2> QED BY <1>5, <2>1, PrefixAll
<1>9. Len(output') = seq /\ engine.outputAppliedSeq <= seq
  <2>1. Len(output') = Len(output) + 1
    BY <1>3, <1>4 DEF Writes, OneLonger
  <2>2. engine.outputAppliedSeq \in Nat /\ engine.outputAppliedSeq <= Len(output)
    BY <1>2 DEF Awake, Memory, HoldsInv
  <2> QED BY <1>3, <1>5, <2>1, <2>2, SMT
<1>10. Memory(engine')
  BY <1>2, <1>4, <1>5, <1>6, <1>8 DEF Awake, Memory, Fields, Consuming
<1>11. Numbered(output', k)
  BY <1>4 DEF Wrote
<1>12. HoldsInv(engine', input, inputFirst, output')
  BY <1>3, <1>4, <1>8, <1>9, <1>11 DEF HoldsInv, Fields
<1>13. WorksInv(engine', input, queue, taken, acked)
  BY <1>1, <1>2, <1>4 DEF Awake, WorksInv, Fields, Booting
<1>14. EngineInv(engine', input, inputFirst, output', queue, taken, acked)
  BY <1>2, <1>4, <1>10, <1>12, <1>13 DEF EngineInv, Awake, Fields
<1>15. IdleInv(engine', ticked, saver)
  BY <1>4 DEF IdleInv, Consuming, Fields
<1> QED BY <1>1, <1>4, <1>14, <1>15, ApplyKeeps

\* The head of Run: prune, truncate and begin to consume.
LEMMA BootCleanupInv == RecoveryInv /\ BootCleanup => RecoveryInv'
<1> SUFFICES ASSUME RecoveryInv, BootCleanup PROVE RecoveryInv'
  OBVIOUS
<1>1. /\ engine.pc = "replay" /\ engine.inputSeq >= Len(input)
      /\ engine' = [engine EXCEPT !.pc = "running"]
      /\ UNCHANGED <<broker, input, output, ticked, saver, cursors>>
  BY DEF BootCleanup
<1>2. Awake
  BY <1>1, Starts
<1>3. /\ SnapshotInv(snapshots, input, output) /\ RowsInv(snapshots, input, output)
      /\ FirstInv(inputFirst, input, snapshots)
      /\ CursorInv(output, outputFirst, dbCursor, mqCursor) /\ IdleInv(engine, ticked, saver)
  BY DEF RecoveryInv, SnapshotInv
<1>4. /\ Len(input) \in Nat /\ Len(output) \in Nat /\ Len(output) <= Len(input)
      /\ input \in Seq(1..MaxRequests)
  BY LogTypes
<1>5. /\ Prefix(engine.state, input, engine.inputSeq) /\ engine.inputSeq <= Len(output)
      /\ engine.outputAppliedSeq <= Len(output) /\ Numbered(output, engine.lastTradeID)
  BY <1>1, <1>2 DEF Awake, HoldsInv
<1>6. engine.inputSeq = Len(input) /\ Len(output) = Len(input)
  <2>1. engine.inputSeq \in Nat
    BY <1>2 DEF Awake, Memory
  <2> QED BY <1>1, <1>4, <1>5, <2>1, SMT
<1>7. engine.state = input
  <2>1. Prefix(engine.state, input, Len(input))
    BY <1>5, <1>6
  <2> QED BY <1>4, <2>1, PrefixAll
<1>8. SnapshotInv(snapshots', input, output) /\ FirstInv(inputFirst', input, snapshots')
  <2>1. PICK rows : rows = Pruned(snapshots)
    OBVIOUS
  <2>2. /\ SnapshotInv(rows, input, output) /\ RowsInv(rows, input, output)
        /\ Advances(snapshots, rows)
    BY <1>3, <2>1, PruneRows DEF SnapshotInv
  <2>3. FirstInv(inputFirst, input, rows)
    BY <1>3, <2>2, FirstAdvances
  <2>4. CASE snapshots' = snapshots /\ inputFirst' = inputFirst
    BY <1>3, <2>4
  <2>5. CASE snapshots' = rows /\ rows = <<>> /\ inputFirst' = inputFirst
    BY <2>2, <2>3, <2>5
  <2>6. CASE snapshots' = rows /\ rows # <<>> /\ cleanupInputWAL(rows[1].inputSeq)
    <3>1. rows[1].inputSeq \in Nat
      BY <2>2, <2>6, RowType
    <3>2. rows[1].inputSeq <= rows[1].inputSeq
      BY <3>1, SMT
    <3>3. inputFirst' = TruncateFront(inputFirst, Len(input), InputTarget(rows[1].inputSeq))
      BY <2>6 DEF cleanupInputWAL
    <3>4. FirstInv(TruncateFront(inputFirst, Len(input), InputTarget(rows[1].inputSeq)), input,
                   rows)
      BY <1>4, <2>2, <2>3, <2>6, <3>1, <3>2, FirstTruncated
    <3> QED BY <2>2, <2>6, <3>3, <3>4
  <2> QED BY <2>1, <2>4, <2>5, <2>6 DEF BootCleanup
<1>9. CursorInv(output, outputFirst', dbCursor, mqCursor)
  <2>1. CASE outputFirst' = outputFirst
    BY <1>3, <2>1
  <2>2. CASE cleanupOutputWAL
    BY <1>3, <1>4, <2>2, CursorTruncated DEF cleanupOutputWAL
  <2> QED BY <2>1, <2>2 DEF BootCleanup
<1>10. ticked = <<>> /\ saver = Waiting
  BY <1>1, <1>3 DEF IdleInv, Consuming
<1>11. SavingInv(snapshots', input, output, ticked, saver)
  BY <1>10 DEF SavingInv
<1>12. engine' = Mem("running", engine.request, engine.state, engine.inputSeq,
                     engine.outputAppliedSeq, engine.lastTradeID, engine.dedup)
  BY <1>1, <1>2 DEF Awake, Memory, Mem
<1>13. Fields(engine', "running", engine.request, engine.state, engine.inputSeq,
              engine.outputAppliedSeq, engine.lastTradeID, engine.dedup)
  BY <1>12, MemFields
<1>14. Memory(engine')
  BY <1>2, <1>13 DEF Awake, Memory, Fields, Consuming
<1>15. HoldsInv(engine', input, inputFirst', output)
  BY <1>5, <1>6, <1>7, <1>13 DEF HoldsInv, Fields
<1>16. WorksInv(engine', input, queue, taken, acked)
  BY <1>1, <1>2, <1>13 DEF Awake, WorksInv, Fields, Booting
<1>17. EngineInv(engine', input, inputFirst', output, queue, taken, acked)
  BY <1>2, <1>13, <1>14, <1>15, <1>16 DEF EngineInv, Awake, Fields
<1>18. IdleInv(engine', ticked, saver)
  BY <1>10 DEF IdleInv
<1> QED BY <1>1, <1>8, <1>9, <1>11, <1>17, <1>18 DEF RecoveryInv, broker, cursors

-----------------------------------------------------------------------------
(* Consuming.                                                               *)

\* What an engine between two deliveries holds.
LEMMA Running ==
  ASSUME RecoveryInv, engine.pc = "running"
  PROVE  /\ Awake /\ engine.state = input /\ engine.inputSeq = Len(input)
         /\ Len(output) = Len(input) /\ taken = acked /\ engine.request = 0
         /\ Numbered(output, engine.lastTradeID) /\ engine.outputAppliedSeq <= Len(output)
<1>1. Awake
  BY Starts
<1> QED BY <1>1 DEF Awake, HoldsInv, WorksInv

\* handle: the next delivery.
Delivery(r) ==
  /\ r = queue[taken + 1] /\ r = sent - Len(queue) + taken + 1 /\ r \in 1..sent
  /\ taken + 1 <= Len(queue) /\ taken + 1 <= Prefetch
  /\ QueueInv(sent, queue, taken + 1, taken + 1) /\ QueueInv(sent, queue, taken + 1, acked)

\* The next delivery is the request after those taken.
LEMMA NextDelivery ==
  ASSUME RecoveryInv, taken < Len(queue), taken < Prefetch
  PROVE  Delivery(queue[taken + 1])
<1>1. QueueInv(sent, queue, taken, acked)
  BY DEF RecoveryInv
<1>2. /\ sent \in Nat /\ Len(queue) \in Nat /\ taken \in Nat /\ acked \in Nat /\ acked <= taken
  BY <1>1, QueueTypes
<1>3. /\ queue \in Seq(1..sent) /\ Len(queue) <= sent
      /\ \A j \in 1..Len(queue) : queue[j] = sent - Len(queue) + j
  BY <1>1 DEF QueueInv
<1>4. /\ taken + 1 \in 1..Len(queue) /\ taken + 1 \in Nat /\ taken + 1 <= Len(queue)
      /\ taken + 1 <= Prefetch /\ acked <= taken + 1 /\ taken + 1 <= taken + 1
      /\ sent - Len(queue) + (taken + 1) = sent - Len(queue) + taken + 1
      /\ sent - Len(queue) + taken + 1 \in 1..sent
  BY <1>2, <1>3, RecoveryAssumption, SMT
<1>5. QueueInv(sent, queue, taken + 1, taken + 1) /\ QueueInv(sent, queue, taken + 1, acked)
  BY <1>1, <1>2, <1>4 DEF QueueInv
<1> QED BY <1>3, <1>4, <1>5 DEF Delivery

\* One more delivery whose request is in the log.
LEMMA TakenNext ==
  ASSUME NEW q, NEW t \in Nat, NEW in, NEW n, TakenInv(q, t, in, n),
         q[t + 1] \in Undecodable \/ Has(in, n, q[t + 1])
  PROVE  TakenInv(q, t + 1, in, n)
<1>1. \A j \in 1..(t + 1) : j = t + 1 \/ j \in 1..t
  BY SMT
<1> QED BY <1>1 DEF TakenInv

\* A delivery that is settled without being applied: it cannot be decoded or is known.
LEMMA SettleInv ==
  ASSUME RecoveryInv, engine.pc = "running", taken < Len(queue), taken < Prefetch,
         IsSettled(queue[taken + 1]), Settle
  PROVE  RecoveryInv'
<1>1. /\ taken' = taken + 1 /\ acked' = acked + 1
      /\ UNCHANGED <<sent, queue, logs, engine, saving, cursors>>
  BY DEF Settle
<1>2. PICK r : r = queue[taken + 1] /\ Delivery(r) /\ IsSettled(r)
  BY NextDelivery
<1>3. /\ Awake /\ Len(output) = Len(input) /\ taken = acked /\ engine.request = 0
  BY Running
<1>4. /\ QueueInv(sent, queue, taken, acked) /\ InputInv(sent, input)
      /\ TakenInv(queue, acked, input, Len(output)) /\ TakenInv(queue, taken, input, Len(input))
  BY DEF RecoveryInv
<1>5. sent \in 0..MaxRequests /\ taken \in Nat
  BY <1>4, QueueTypes DEF QueueInv
<1>6. r \in Undecodable \/ Has(input, Len(input), r)
  <2>1. CASE has(engine.dedup, KindOf(r), r)
    <3>1. r \in 1..MaxRequests
      BY <1>2, <1>5, RecoveryAssumption, SMT DEF Delivery
    <3>2. KindOf(r) \in Kinds
      BY <3>1, RecoveryAssumption
    <3> QED BY <1>3, <1>4, <1>5, <2>1, <3>2, KnownLogged DEF Awake
  <2> QED BY <1>2, <2>1 DEF IsSettled
<1>7. TakenInv(queue, taken + 1, input, Len(input))
  BY <1>2, <1>4, <1>5, <1>6, TakenNext
<1>8. WorksInv(engine, input, queue, taken + 1, taken + 1)
  BY <1>3 DEF WorksInv, Booting
<1>9. EngineInv(engine, input, inputFirst, output, queue, taken + 1, taken + 1)
  BY <1>3, <1>8 DEF EngineInv, Awake
<1>10. QueueInv(sent, queue, taken + 1, taken + 1)
  BY <1>2 DEF Delivery
<1> QED BY <1>1, <1>3, <1>7, <1>9, <1>10 DEF RecoveryInv, logs, saving, cursors

\* handle: a request Engine.dedup does not know is newer than all of the Input WAL, and
\* every older one is settled or in it.
LEMMA UnknownIsNext ==
  ASSUME RecoveryInv, engine.pc = "running", NEW r, Delivery(r), r \notin Undecodable,
         ~has(engine.dedup, KindOf(r), r)
  PROVE  /\ \A i \in 1..Len(input) : input[i] < r
         /\ \A x \in 1..(r - 1) : x \in Undecodable \/ Has(input, Len(input), x)
<1>1. /\ QueueInv(sent, queue, taken, acked) /\ InputInv(sent, input)
      /\ ReachInv(sent, queue, input) /\ SettledInv(sent, queue, input, Len(output))
      /\ TakenInv(queue, taken, input, Len(input))
  BY DEF RecoveryInv
<1>2. Awake /\ Len(output) = Len(input)
  BY Running
<1>3. /\ sent \in Nat /\ Len(queue) \in Nat /\ sent - Len(queue) \in Nat /\ taken \in Nat
      /\ taken <= Len(queue) /\ sent \in 0..MaxRequests
  BY <1>1, QueueTypes DEF QueueInv
<1>4. PICK n \in Nat : n = Len(input) /\ \A i \in 1..n : input[i] \in 1..MaxRequests
  BY LogTypes
<1>5. PICK b \in Nat : b = sent - Len(queue)
  BY <1>3
<1>6. r = b + taken + 1 /\ r \in 1..sent /\ taken + 1 <= Prefetch
  BY <1>5 DEF Delivery
<1>7. Prefetch \in Int /\ Window \in Int /\ Prefetch <= Window
  BY RecoveryAssumption, WindowAssumption, SMT
<1>8. ASSUME NEW i \in 1..n, ~(input[i] < r) PROVE FALSE
  <2>1. r \in 1..input[i]
    BY <1>4, <1>6, <1>8, SMT
  <2>2. Has(input, n, r)
    BY <1>1, <1>4, <2>1 DEF InputInv
  <2>3. PICK p \in 1..n : input[p] = r
    BY <2>2 DEF Has
  <2>4. p <= n /\ n \in 1..n
    BY SMT
  <2>5. input[n] - input[p] >= n - p
    BY <1>1, <1>4, <2>4 DEF InputInv
  <2>6. input[n] <= b + Prefetch
    BY <1>1, <1>4, <1>5, <2>4 DEF ReachInv
  <2>7. input[n] \in Int
    BY <1>4, <2>4, SMT
  <2>8. p > n - Window
    BY <1>3, <1>6, <1>7, <2>3, <2>5, <2>6, <2>7, SMT
  <2>9. has(engine.dedup, KindOf(input[p]), input[p])
    BY <1>1, <1>2, <1>3, <1>4, <2>8, RecentKnown DEF Awake
  <2> QED BY <2>3, <2>9
<1>9. ASSUME NEW x \in 1..(r - 1) PROVE x \in Undecodable \/ Has(input, n, x)
  <2>1. x \in 1..b \/ x - b \in 1..taken
    BY <1>3, <1>6, SMT
  <2>2. CASE x \in 1..b
    BY <1>1, <1>2, <1>4, <1>5, <2>2 DEF SettledInv
  <2>3. CASE x - b \in 1..taken
    <3>1. x - b \in 1..Len(queue) /\ b + (x - b) = x
      BY <1>3, <1>6, <2>3, SMT
    <3>2. queue[x - b] = b + (x - b)
      BY <1>1, <1>5, <3>1 DEF QueueInv
    <3>3. queue[x - b] = x
      BY <3>1, <3>2
    <3>4. queue[x - b] \in Undecodable \/ Has(input, n, queue[x - b])
      BY <1>1, <1>4, <2>3 DEF TakenInv
    <3> QED BY <3>3, <3>4
  <2> QED BY <2>1, <2>2, <2>3
<1> QED BY <1>4, <1>8, <1>9

\* A new request is appended to the Input WAL, which then skips none.
LEMMA AppendInputInv ==
  ASSUME RecoveryInv, engine.pc = "running", taken < Len(queue), taken < Prefetch,
         NEW r, r = queue[taken + 1], r \notin Undecodable, ~has(engine.dedup, KindOf(r), r),
         AppendInput(r)
  PROVE  RecoveryInv'
<1> DEFINE v == Append(input, r)
           d == add(engine.dedup, KindOf(r), r)
<1>1. /\ taken' = taken + 1 /\ input' = v
      /\ engine' = [engine EXCEPT !.pc = "apply", !.request = r, !.inputSeq = Len(input) + 1,
                                  !.dedup = d]
      /\ UNCHANGED <<sent, queue, acked, inputFirst, output, outputFirst, saving, cursors>>
  BY DEF AppendInput
<1>2. Delivery(r)
  BY NextDelivery
<1>3. /\ Awake /\ Len(output) = Len(input) /\ taken = acked /\ engine.state = input
      /\ Numbered(output, engine.lastTradeID) /\ engine.outputAppliedSeq <= Len(output)
  BY Running
<1>4. /\ QueueInv(sent, queue, taken, acked) /\ InputInv(sent, input)
      /\ ReachInv(sent, queue, input) /\ SettledInv(sent, queue, input, Len(output))
      /\ TakenInv(queue, acked, input, Len(output)) /\ TakenInv(queue, taken, input, Len(input))
      /\ OutputInv(input, output) /\ SnapshotInv(snapshots, input, output)
      /\ FirstInv(inputFirst, input, snapshots)
      /\ SavingInv(snapshots, input, output, ticked, saver)
  BY DEF RecoveryInv
<1>5. /\ sent \in Nat /\ sent \in 0..MaxRequests /\ taken \in Nat /\ Len(queue) \in Nat
      /\ sent - Len(queue) \in Nat /\ taken <= Len(queue)
  BY <1>4, QueueTypes DEF QueueInv
<1>6. /\ output \in Seq(Envelope) /\ input \in Seq(1..MaxRequests) /\ Len(input) \in Nat
  BY LogTypes
<1>7. r \in (1..sent) \ Undecodable /\ r \in 1..MaxRequests /\ r \in Nat
  <2>1. r \in 1..sent
    BY <1>2 DEF Delivery
  <2>2. r \in 1..MaxRequests /\ r \in Nat
    BY <1>5, <2>1, RecoveryAssumption, SMT
  <2> QED BY <2>1, <2>2
<1>8. /\ \A i \in 1..Len(input) : input[i] < r
      /\ \A x \in 1..(r - 1) : x \in Undecodable \/ Has(input, Len(input), x)
  BY <1>2, UnknownIsNext
<1>9. InputInv(sent, v)
  BY <1>4, <1>5, <1>7, <1>8, InputAppend
<1>10. OneLonger(input, r, v)
  BY <1>6, <1>7, LongerAppend
<1>11. DedupOK(d, v)
  BY <1>3, <1>4, <1>5, <1>7, DedupAppend DEF Awake
<1> HIDE DEF v, d
<1>12. PICK n \in Nat : n = Len(input) /\ Len(v) = n + 1 /\ v[n + 1] = r /\ Longer(input, v)
                        /\ \A i \in 1..n : v[i] = input[i]
  BY <1>6, <1>10 DEF OneLonger
<1>13. n <= n /\ n <= n + 1 /\ n + 1 \in Nat /\ n + 1 \in 1..(n + 1) /\ n + 1 <= n + 1
       /\ (n + 1) - 1 = n /\ n + 1 > 0 /\ n <= (n + 1) + 1
       /\ \A i \in 1..(n + 1) : i = n + 1 \/ i \in 1..n
  BY SMT
<1>14. ReachInv(sent, queue, v)
  <2>1. r <= sent - Len(queue) + Prefetch
    <3>1. PICK b \in Nat : b = sent - Len(queue)
      BY <1>5
    <3>2. r = b + taken + 1 /\ taken + 1 <= Prefetch
      BY <1>2, <3>1 DEF Delivery
    <3>3. r <= b + Prefetch
      BY <1>5, <3>2, RecoveryAssumption, SMT
    <3> QED BY <3>1, <3>3
  <2> QED BY <1>4, <1>12, <1>13, <2>1 DEF ReachInv
<1>15. SettledInv(sent, queue, v, Len(output))
  BY <1>3, <1>4, <1>12, <1>13, SettledLonger
<1>16. TakenInv(queue, acked, v, Len(output))
  BY <1>3, <1>4, <1>12, <1>13, TakenLonger
<1>17. TakenInv(queue, taken + 1, v, n + 1)
  <2>1. TakenInv(queue, taken, v, n + 1)
    BY <1>4, <1>12, <1>13, TakenLonger
  <2>2. Has(v, n + 1, r)
    BY <1>12, <1>13 DEF Has
  <2> QED BY <1>5, <2>1, <2>2, TakenNext
<1>18. OutputInv(v, output)
  BY <1>3, <1>4, <1>12, <1>13 DEF OutputInv
<1>19. Longer(output, output)
  BY <1>6, LongerSame
<1>20. SnapshotInv(snapshots, v, output)
  BY <1>4, <1>12, <1>19, SnapshotLonger
<1>21. SavingInv(snapshots, v, output, ticked, saver)
  BY <1>4, <1>12, <1>19, SavingLonger
<1>22. FirstInv(inputFirst, v, snapshots)
  BY <1>4, <1>12, FirstLonger
<1>23. engine' = Mem("apply", r, input, n + 1, engine.outputAppliedSeq, engine.lastTradeID, d)
  BY <1>1, <1>3, <1>12 DEF Awake, Memory, Mem
<1>24. Fields(engine', "apply", r, input, n + 1, engine.outputAppliedSeq, engine.lastTradeID, d)
  BY <1>23, MemFields
<1>25. Memory(engine')
  BY <1>3, <1>6, <1>7, <1>13, <1>24 DEF Awake, Memory, Fields, Consuming
<1>26. Prefix(input, v, n)
  <2>1. Prefix(input, input, n)
    BY <1>6, <1>12, PrefixSelf
  <2> QED BY <1>12, <2>1, PrefixLonger
<1>27. HoldsInv(engine', v, inputFirst, output)
  BY <1>3, <1>12, <1>13, <1>24, <1>26 DEF HoldsInv, Fields
<1>28. WorksInv(engine', v, queue, taken + 1, acked)
  BY <1>3, <1>12, <1>13, <1>24 DEF WorksInv, Fields, Booting
<1>29. EngineInv(engine', v, inputFirst, output, queue, taken + 1, acked)
  BY <1>11, <1>24, <1>25, <1>27, <1>28 DEF EngineInv, Fields
<1>30. IdleInv(engine', ticked, saver)
  BY <1>24 DEF IdleInv, Fields, Consuming
<1>31. QueueInv(sent, queue, taken + 1, acked)
  BY <1>2 DEF Delivery
<1> QED BY <1>1, <1>9, <1>12, <1>14, <1>15, <1>16, <1>17, <1>18, <1>20, <1>21, <1>22, <1>29,
           <1>30, <1>31 DEF RecoveryInv, saving, cursors

\* handle settles a delivery or appends it.
LEMMA handleInv == RecoveryInv /\ handle => RecoveryInv'
<1> SUFFICES ASSUME RecoveryInv, handle PROVE RecoveryInv'
  OBVIOUS
<1>1. PICK r : /\ engine.pc = "running" /\ taken < Len(queue) /\ taken < Prefetch
               /\ r = queue[taken + 1]
               /\ \/ IsSettled(r) /\ Settle
                  \/ r \notin Undecodable /\ ~has(engine.dedup, KindOf(r), r) /\ AppendInput(r)
  BY DEF handle
<1>2. CASE IsSettled(r) /\ Settle
  BY <1>1, <1>2, SettleInv
<1>3. CASE r \notin Undecodable /\ ~has(engine.dedup, KindOf(r), r) /\ AppendInput(r)
  BY <1>1, <1>3, AppendInputInv
<1> QED BY <1>1, <1>2, <1>3

\* The acknowledgement comes after the envelope is in the Output WAL.
LEMMA AckInv == RecoveryInv /\ Ack => RecoveryInv'
<1> SUFFICES ASSUME RecoveryInv, Ack PROVE RecoveryInv'
  OBVIOUS
<1>1. /\ engine.pc = "ack" /\ acked' = acked + 1
      /\ engine' = [engine EXCEPT !.pc = "running", !.request = 0]
      /\ UNCHANGED <<sent, queue, taken, logs, saving, cursors>>
  BY DEF Ack
<1>2. Awake
  BY <1>1, Starts
<1>3. /\ engine.state = input /\ engine.inputSeq = Len(input) /\ Len(output) = Len(input)
      /\ taken = acked + 1 /\ Numbered(output, engine.lastTradeID)
      /\ engine.outputAppliedSeq <= Len(output)
  BY <1>1, <1>2 DEF Awake, HoldsInv, WorksInv
<1>4. /\ QueueInv(sent, queue, taken, acked) /\ TakenInv(queue, taken, input, Len(input))
  BY DEF RecoveryInv
<1>5. QueueInv(sent, queue, taken, acked')
  <2>1. taken \in Nat /\ taken <= taken
    BY <1>4, QueueTypes, SMT
  <2> QED BY <1>1, <1>3, <1>4, <2>1 DEF QueueInv
<1>6. TakenInv(queue, acked', input, Len(output))
  BY <1>1, <1>3, <1>4
<1>7. engine' = Mem("running", 0, engine.state, engine.inputSeq,
                    engine.outputAppliedSeq, engine.lastTradeID, engine.dedup)
  BY <1>1, <1>2 DEF Awake, Memory, Mem
<1>8. Fields(engine', "running", 0, engine.state, engine.inputSeq,
             engine.outputAppliedSeq, engine.lastTradeID, engine.dedup)
  BY <1>7, MemFields
<1>9. Memory(engine')
  <2>1. 0 \in Nat
    BY SMT
  <2> QED BY <1>2, <1>8, <2>1 DEF Awake, Memory, Fields, Consuming
<1>10. HoldsInv(engine', input, inputFirst, output)
  BY <1>3, <1>8 DEF HoldsInv, Fields
<1>11. WorksInv(engine', input, queue, taken, acked')
  BY <1>1, <1>3, <1>8 DEF WorksInv, Fields, Booting
<1>12. EngineInv(engine', input, inputFirst, output, queue, taken, acked')
  BY <1>2, <1>8, <1>9, <1>10, <1>11 DEF EngineInv, Awake, Fields
<1>13. IdleInv(engine', ticked, saver)
  BY <1>8 DEF IdleInv, Consuming, Fields
<1> QED BY <1>1, <1>5, <1>6, <1>12, <1>13 DEF RecoveryInv, logs, saving, cursors

-----------------------------------------------------------------------------
(* Snapshots.                                                               *)

\* Engine.snapshot: the ledger as it stands is newer than every snapshot.
LEMMA snapshotInv == RecoveryInv /\ snapshot => RecoveryInv'
<1> SUFFICES ASSUME RecoveryInv, snapshot PROVE RecoveryInv'
  OBVIOUS
<1> DEFINE new == [state |-> engine.state, inputSeq |-> engine.inputSeq]
<1>1. /\ engine.pc = "running" /\ ticked' = IF ticked = <<>> THEN <<new>> ELSE ticked
      /\ UNCHANGED <<broker, logs, engine, saver, snapshots, cursors>>
  BY DEF snapshot, SnapshotSeq
<1>2. /\ engine.state = input /\ engine.inputSeq = Len(input) /\ Len(output) = Len(input)
  BY <1>1, Running
<1>3. RowsInv(snapshots, input, output) /\ SavingInv(snapshots, input, output, ticked, saver)
  BY DEF RecoveryInv, SnapshotInv
<1>4. Len(input) \in Nat /\ input \in Seq(1..MaxRequests) /\ Len(input) <= Len(input)
  BY LogTypes, SMT
<1>5. new \in Snapshot /\ new.state = input /\ new.inputSeq = Len(input)
  BY <1>2, <1>4 DEF Snapshot
<1> HIDE DEF new
<1>6. Sound(new, input, output)
  BY <1>2, <1>4, <1>5, PrefixSelf DEF Sound
<1>7. \A snap : Sound(snap, input, output) => snap.inputSeq <= new.inputSeq
  BY <1>2, <1>5 DEF Sound
<1>8. Older(snapshots, new)
  BY <1>3, <1>7 DEF Older, RowsInv
<1>9. saver.pc = "save" => saver.snap.inputSeq <= new.inputSeq
  <2>1. CASE saver = Waiting
    BY <2>1 DEF Waiting
  <2>2. ASSUME NEW snap \in Snapshot, NEW pc \in {"save", "input", "output"}, NEW floor \in Nat,
               saver = [pc |-> pc, snap |-> snap, floor |-> floor],
               pc = "save" => Sound(snap, input, output)
        PROVE  saver.pc = "save" => saver.snap.inputSeq <= new.inputSeq
    <3>1. saver.pc = pc /\ saver.snap = snap
      BY <2>2
    <3> QED BY <1>7, <2>2, <3>1
  <2> QED BY <1>3, <2>1, <2>2 DEF SavingInv
<1>10. SavingInv(snapshots, input, output, <<new>>, saver)
  BY <1>3, <1>5, <1>6, <1>8, <1>9 DEF SavingInv
<1>11. SavingInv(snapshots, input, output, ticked', saver)
  BY <1>1, <1>3, <1>10
<1>12. IdleInv(engine, ticked', saver)
  BY <1>1 DEF IdleInv, Consuming
<1> QED BY <1>1, <1>11, <1>12 DEF RecoveryInv, broker, logs, cursors

\* The saver takes the snapshot that waits.
LEMMA SaverTakesInv == RecoveryInv /\ SaverTakes => RecoveryInv'
<1> SUFFICES ASSUME RecoveryInv, SaverTakes PROVE RecoveryInv'
  OBVIOUS
<1>1. /\ ticked # <<>> /\ saver' = [pc |-> "save", snap |-> ticked[1], floor |-> 0]
      /\ ticked' = <<>> /\ UNCHANGED <<broker, logs, engine, snapshots, cursors>>
  BY DEF SaverTakes
<1>2. /\ SavingInv(snapshots, input, output, ticked, saver) /\ IdleInv(engine, ticked, saver)
  BY DEF RecoveryInv
<1>3. PICK snap \in Snapshot :
        /\ ticked = <<snap>> /\ Sound(snap, input, output) /\ Older(snapshots, snap)
  BY <1>1, <1>2 DEF SavingInv
<1>4. ticked[1] = snap
  BY <1>3
<1>5. saver' = [pc |-> "save", snap |-> snap, floor |-> 0] /\ 0 \in Nat
  BY <1>1, <1>4, SMT
<1>6. SavingInv(snapshots, input, output, <<>>, saver')
  BY <1>3, <1>5 DEF SavingInv
<1>7. IdleInv(engine, <<>>, saver')
  BY <1>1, <1>2 DEF IdleInv
<1> QED BY <1>1, <1>6, <1>7 DEF RecoveryInv, broker, logs, cursors

\* What the snapshot goroutine is doing.
LEMMA SaverAt ==
  ASSUME RecoveryInv, saver.pc \in {"save", "input", "output"}
  PROVE  \E snap \in Snapshot, floor \in Nat :
           /\ saver = [pc |-> saver.pc, snap |-> snap, floor |-> floor]
           /\ saver.snap = snap /\ saver.floor = floor
           /\ saver.pc = "save" => Sound(snap, input, output) /\ Older(snapshots, snap)
           /\ saver.pc = "input" => snapshots # <<>> /\ floor <= snapshots[1].inputSeq
<1>1. SavingInv(snapshots, input, output, ticked, saver)
  BY DEF RecoveryInv
<1>2. Waiting.pc = "wait"
  BY DEF Waiting
<1>3. saver # Waiting
  BY <1>2
<1>4. PICK snap \in Snapshot, pc \in {"save", "input", "output"}, floor \in Nat :
          /\ saver = [pc |-> pc, snap |-> snap, floor |-> floor]
          /\ pc = "save" => Sound(snap, input, output) /\ Older(snapshots, snap)
          /\ pc = "input" => snapshots # <<>> /\ floor <= snapshots[1].inputSeq
  BY <1>1, <1>3 DEF SavingInv
<1>5. saver.pc = pc /\ saver.snap = snap /\ saver.floor = floor
  BY <1>4
<1> QED BY <1>4, <1>5

\* The snapshots that wait to be saved do not depend on the goroutine once it has saved.
LEMMA TickedStays ==
  ASSUME RecoveryInv, NEW rows, NEW sv, sv.pc # "save",
         \A snap :
           Older(snapshots, snap) /\ (saver.pc = "save" => saver.snap.inputSeq <= snap.inputSeq)
                   => Older(rows, snap),
         \/ sv = Waiting
         \/ \E snap \in Snapshot, pc \in {"input", "output"}, floor \in Nat :
              /\ sv = [pc |-> pc, snap |-> snap, floor |-> floor]
              /\ pc = "input" => rows # <<>> /\ floor <= rows[1].inputSeq
  PROVE  SavingInv(rows, input, output, ticked, sv)
<1>1. SavingInv(snapshots, input, output, ticked, saver)
  BY DEF RecoveryInv
<1>2. \/ ticked = <<>>
      \/ \E snap \in Snapshot : /\ ticked = <<snap>> /\ Sound(snap, input, output)
                                /\ Older(rows, snap)
  BY <1>1 DEF SavingInv
<1>3. \/ sv = Waiting
      \/ \E snap \in Snapshot, pc \in {"save", "input", "output"}, floor \in Nat :
          /\ sv = [pc |-> pc, snap |-> snap, floor |-> floor]
          /\ pc = "save" => Sound(snap, input, output) /\ Older(rows, snap)
          /\ pc = "input" => rows # <<>> /\ floor <= rows[1].inputSeq
  <2>1. "input" # "save" /\ "output" # "save"
    OBVIOUS
  <2> QED BY <2>1
<1> QED BY <1>2, <1>3 DEF SavingInv

\* SaveSnapshotAndPrune, in the three ways it can end.
LEMMA SaveSnapshotAndPruneInv == RecoveryInv /\ SaveSnapshotAndPrune => RecoveryInv'
<1> SUFFICES ASSUME RecoveryInv, SaveSnapshotAndPrune PROVE RecoveryInv'
  OBVIOUS
<1>1. PICK all, rows :
        /\ all = Append(snapshots, saver.snap) /\ rows = Pruned(all)
        /\ saver.pc = "save"
        /\ \/ /\ snapshots' = rows
              /\ saver' = [saver EXCEPT !.pc = "input", !.floor = rows[1].inputSeq]
           \/ snapshots' \in {snapshots, rows} /\ saver' = Waiting
        /\ UNCHANGED <<broker, logs, engine, ticked, cursors>>
  BY DEF SaveSnapshotAndPrune
<1>2. PICK snap \in Snapshot, floor \in Nat :
        /\ saver = [pc |-> saver.pc, snap |-> snap, floor |-> floor]
        /\ saver.snap = snap /\ Sound(snap, input, output) /\ Older(snapshots, snap)
  BY <1>1, SaverAt
<1>3. /\ SnapshotInv(snapshots, input, output) /\ RowsInv(snapshots, input, output)
      /\ FirstInv(inputFirst, input, snapshots) /\ IdleInv(engine, ticked, saver)
  BY DEF RecoveryInv, SnapshotInv
<1>4. /\ RowsInv(all, input, output) /\ Advances(snapshots, all) /\ all # <<>>
      /\ \A x : Older(snapshots, x) /\ snap.inputSeq <= x.inputSeq => Older(all, x)
  BY <1>1, <1>2, <1>3, AppendRows
<1>5. /\ SnapshotInv(rows, input, output) /\ Advances(all, rows)
      /\ \A x : Older(all, x) => Older(rows, x)
  BY <1>1, <1>4, PruneRows
<1>6. /\ rows # <<>> /\ rows[1].inputSeq \in Nat /\ rows[1].inputSeq <= rows[1].inputSeq
  <2>1. rows # <<>>
    BY <1>4, <1>5 DEF Advances
  <2>2. rows[1].inputSeq \in Nat
    BY <1>5, <2>1, RowType DEF SnapshotInv
  <2> QED BY <2>1, <2>2, SMT
<1>7. FirstInv(inputFirst, input, rows)
  <2>1. FirstInv(inputFirst, input, all)
    BY <1>3, <1>4, FirstAdvances
  <2> QED BY <1>4, <1>5, <2>1, FirstAdvances DEF SnapshotInv
<1>8. \A x : Older(snapshots, x) /\ (saver.pc = "save" => saver.snap.inputSeq <= x.inputSeq)
             => Older(rows, x)
  BY <1>1, <1>2, <1>4, <1>5
<1>9. engine.pc \in Consuming
  <2>1. Waiting.pc = "wait"
    BY DEF Waiting
  <2>2. saver # Waiting
    BY <1>1, <2>1
  <2> QED BY <1>3, <2>2 DEF IdleInv
<1>10. IdleInv(engine, ticked, saver')
  BY <1>9 DEF IdleInv
<1>11. Waiting.pc # "save"
  BY DEF Waiting
<1>12. CASE snapshots' = rows /\ saver' = [saver EXCEPT !.pc = "input", !.floor = rows[1].inputSeq]
  <2>1. saver' = [pc |-> "input", snap |-> snap, floor |-> rows[1].inputSeq]
    BY <1>2, <1>12
  <2>2. saver'.pc # "save"
    BY <2>1
  <2>3. SavingInv(rows, input, output, ticked, saver')
    BY <1>6, <1>8, <2>1, <2>2, TickedStays
  <2> QED BY <1>1, <1>5, <1>7, <1>10, <1>12, <2>3 DEF RecoveryInv, broker, logs, cursors
<1>13. CASE snapshots' = rows /\ saver' = Waiting
  <2>1. SavingInv(rows, input, output, ticked, Waiting)
    BY <1>8, <1>11, TickedStays
  <2> QED BY <1>1, <1>5, <1>7, <1>10, <1>13, <2>1 DEF RecoveryInv, broker, logs, cursors
<1>14. CASE snapshots' = snapshots /\ saver' = Waiting
  <2>1. SavingInv(snapshots, input, output, ticked, Waiting)
    BY <1>11, TickedStays
  <2> QED BY <1>1, <1>10, <1>14, <2>1 DEF RecoveryInv, broker, logs, cursors
<1> QED BY <1>1, <1>12, <1>13, <1>14

\* The Input WAL loses only what the oldest snapshot and the duplicate check do not need.
LEMMA SaverCleansInputInv == RecoveryInv /\ SaverCleansInput => RecoveryInv'
<1> SUFFICES ASSUME RecoveryInv, SaverCleansInput PROVE RecoveryInv'
  OBVIOUS
<1>1. /\ saver.pc = "input" /\ saver' = [saver EXCEPT !.pc = "output"]
      /\ inputFirst' = TruncateFront(inputFirst, Len(input), InputTarget(saver.floor))
      /\ UNCHANGED <<broker, input, output, outputFirst, engine, ticked, snapshots, cursors>>
  BY DEF SaverCleansInput, cleanupInputWAL
<1>2. PICK snap \in Snapshot, floor \in Nat :
        /\ saver = [pc |-> saver.pc, snap |-> snap, floor |-> floor]
        /\ saver.floor = floor /\ snapshots # <<>> /\ floor <= snapshots[1].inputSeq
  BY <1>1, SaverAt
<1>3. /\ RowsInv(snapshots, input, output) /\ FirstInv(inputFirst, input, snapshots)
      /\ IdleInv(engine, ticked, saver)
      /\ EngineInv(engine, input, inputFirst, output, queue, taken, acked)
  BY DEF RecoveryInv, SnapshotInv
<1>4. Len(input) \in Nat
  BY LogTypes
<1>5. FirstInv(inputFirst', input, snapshots)
  BY <1>1, <1>2, <1>3, <1>4, FirstTruncated
<1>6. engine.pc \in Consuming
  <2>1. Waiting.pc = "wait"
    BY DEF Waiting
  <2>2. saver # Waiting
    BY <1>1, <2>1
  <2> QED BY <1>3, <2>2 DEF IdleInv
<1>7. IdleInv(engine, ticked, saver')
  BY <1>6 DEF IdleInv
<1>8. EngineInv(engine, input, inputFirst', output, queue, taken, acked)
  <2>1. engine.pc # "replay"
    BY <1>6 DEF Consuming
  <2>2. HoldsInv(engine, input, inputFirst, output) => HoldsInv(engine, input, inputFirst', output)
    BY <2>1 DEF HoldsInv
  <2> QED BY <1>3, <2>2 DEF EngineInv
<1>9. saver' = [pc |-> "output", snap |-> snap, floor |-> floor]
  <2>1. saver = [pc |-> "input", snap |-> snap, floor |-> floor]
    BY <1>1, <1>2
  <2> QED BY <1>1, <2>1
<1>10. saver'.pc # "save"
  BY <1>9
<1>11. SavingInv(snapshots, input, output, ticked, saver')
  <2>1. "output" # "input"
    OBVIOUS
  <2> QED BY <1>9, <1>10, <2>1, TickedStays
<1> QED BY <1>1, <1>5, <1>7, <1>8, <1>11 DEF RecoveryInv, broker, cursors

\* The Output WAL loses only what both consumers have passed.
LEMMA SaverCleansOutputInv == RecoveryInv /\ SaverCleansOutput => RecoveryInv'
<1> SUFFICES ASSUME RecoveryInv, SaverCleansOutput PROVE RecoveryInv'
  OBVIOUS
<1>1. /\ saver.pc = "output" /\ saver' = Waiting
      /\ cleanupOutputWAL \/ outputFirst' = outputFirst
      /\ UNCHANGED <<broker, input, inputFirst, output, engine, ticked, snapshots, cursors>>
  BY DEF SaverCleansOutput
<1>2. /\ CursorInv(output, outputFirst, dbCursor, mqCursor) /\ IdleInv(engine, ticked, saver)
  BY DEF RecoveryInv
<1>3. Len(output) \in Nat
  BY LogTypes
<1>4. CursorInv(output, outputFirst', dbCursor, mqCursor)
  <2>1. CASE outputFirst' = outputFirst
    BY <1>2, <2>1
  <2>2. CASE cleanupOutputWAL
    BY <1>2, <1>3, <2>2, CursorTruncated DEF cleanupOutputWAL
  <2> QED BY <1>1, <2>1, <2>2
<1>5. Waiting.pc # "save"
  BY DEF Waiting
<1>6. SavingInv(snapshots, input, output, ticked, Waiting)
  BY <1>1, <1>5, TickedStays
<1>7. IdleInv(engine, ticked, saver')
  BY <1>1, <1>2 DEF IdleInv
<1> QED BY <1>1, <1>4, <1>6, <1>7 DEF RecoveryInv, broker, cursors

-----------------------------------------------------------------------------
(* The results.                                                             *)

\* Every step keeps the invariant.
LEMMA RecoveryNext == RecoveryInv /\ [Next]_vars => RecoveryInv'
<1> SUFFICES ASSUME RecoveryInv, [Next]_vars PROVE RecoveryInv'
  OBVIOUS
<1>1. CASE UNCHANGED vars
  BY <1>1 DEF vars, broker, logs, saving, cursors, RecoveryInv
<1>2. CASE Next
  BY <1>2, SendInv, BrokerSettlesInv, NewEngineInv, initializeTradeIDInv, RestoreSnapshotInv,
     ReplayRecordInv, BootCleanupInv, handleInv, ApplyRequestInv, AckInv, snapshotInv,
     SaverTakesInv, SaveSnapshotAndPruneInv, SaverCleansInputInv, SaverCleansOutputInv,
     ProjectInv, PublishInv, CrashInv DEF Next
<1> QED BY <1>1, <1>2

\* Engine, handle, Replay, runSnapshotSaver: the invariant of the recoverable engine.
THEOREM RecoveryInvariant == Spec => []RecoveryInv
BY RecoveryInit, RecoveryNext, PTL DEF Spec

\* The state of a started engine, in the types of the program.
LEMMA EngineTypes ==
  ASSUME RecoveryInv, Awake
  PROVE  /\ engine.request \in 0..sent /\ engine.state \in Seq(1..sent)
         /\ {engine.inputSeq, engine.outputAppliedSeq, engine.lastTradeID} \subseteq Nat
<1>1. /\ sent \in Nat /\ input \in Seq(1..sent) /\ Len(input) \in Nat
  BY LogTypes
<1>2. /\ engine.pc \in Booting \cup Consuming /\ engine.state \in Seq(1..MaxRequests)
      /\ engine.inputSeq \in Nat /\ engine.outputAppliedSeq \in Nat /\ engine.lastTradeID \in Nat
  BY DEF Awake, Memory
<1>3. engine.request \in 0..sent
  <2>1. 0 \in 0..sent /\ \A x \in 1..sent : x \in 0..sent
    BY <1>1, SMT
  <2>2. engine.request = 0 \/ (Len(input) > 0 /\ engine.request = input[Len(input)])
    BY <1>2 DEF Awake, WorksInv, Consuming
  <2>3. Len(input) > 0 => input[Len(input)] \in 1..sent
    BY <1>1, SMT
  <2> QED BY <2>1, <2>2, <2>3
<1>4. \E n : Prefix(engine.state, input, n) \/ engine.state = <<>> \/ engine.state = input
  BY <1>2 DEF Awake, HoldsInv, Booting, Consuming
<1>5. engine.state \in Seq(1..sent)
  <2>1. ASSUME NEW n, Prefix(engine.state, input, n) PROVE engine.state \in Seq(1..sent)
    <3>1. /\ n \in Nat /\ n <= Len(input) /\ Len(engine.state) = n
          /\ \A i \in 1..n : engine.state[i] = input[i]
      BY <2>1 DEF Prefix
    <3>2. \A i \in 1..n : i \in 1..Len(input)
      BY <1>1, <3>1, SMT
    <3>3. \A i \in 1..Len(input) : input[i] \in 1..sent
      BY <1>1, SMT
    <3>4. \A i \in 1..Len(engine.state) : engine.state[i] \in 1..sent
      BY <3>1, <3>2, <3>3
    <3> QED BY <1>2, <3>4, SeqIn
  <2>2. <<>> \in Seq(1..sent)
    BY SMT
  <2> QED BY <1>1, <1>4, <2>1, <2>2
<1> QED BY <1>2, <1>3, <1>5

\* The invariant gives the types.
LEMMA RecoveryInvTypes == RecoveryInv => TypeOK
<1> SUFFICES ASSUME RecoveryInv PROVE TypeOK
  OBVIOUS
<1>1. /\ QueueInv(sent, queue, taken, acked) /\ CursorInv(output, outputFirst, dbCursor, mqCursor)
      /\ SnapshotInv(snapshots, input, output) /\ FirstInv(inputFirst, input, snapshots)
      /\ SavingInv(snapshots, input, output, ticked, saver)
      /\ EngineInv(engine, input, inputFirst, output, queue, taken, acked)
  BY DEF RecoveryInv
<1>2. input \in Seq(1..sent) /\ output \in Seq(Envelope)
  BY LogTypes
<1>3. sent \in 0..MaxRequests /\ queue \in Seq(1..sent)
  BY <1>1 DEF QueueInv
<1>4. acked \in 0..taken /\ taken \in 0..Min({Len(queue), Prefetch})
  <2>1. /\ taken \in Nat /\ acked \in Nat /\ acked <= taken /\ taken <= Len(queue)
        /\ Len(queue) \in Nat
    BY <1>1, QueueTypes
  <2>2. taken <= Prefetch
    BY <1>1 DEF QueueInv
  <2>3. Prefetch \in Nat
    BY RecoveryAssumption, SMT
  <2>4. PICK m \in Nat : m = Min({Len(queue), Prefetch}) /\ (m = Len(queue) \/ m = Prefetch)
    BY <2>1, <2>3, MinIs
  <2>5. taken <= m
    BY <2>1, <2>2, <2>4
  <2>6. acked \in 0..taken /\ taken \in 0..m
    BY <2>1, <2>5, SMT
  <2> QED BY <2>4, <2>6
<1>5. inputFirst \in 1..Len(input) + 1 /\ outputFirst \in 1..Len(output) + 1
      /\ {dbCursor, mqCursor} \subseteq 0..Len(output)
  BY <1>1 DEF FirstInv, CursorInv
<1>6. snapshots \in Seq(Snapshot) /\ Len(snapshots) <= Retention
  BY <1>1 DEF SnapshotInv, RowsInv
<1>7. ticked \in Seq(Snapshot) /\ Len(ticked) <= 1
  <2>1. CASE ticked = <<>>
    BY <2>1, SMT
  <2>2. ASSUME NEW snap \in Snapshot, ticked = <<snap>> PROVE <1>7
    <3>1. PICK S : S = Snapshot
      OBVIOUS
    <3>2. <<snap>> \in Seq(S) /\ Len(<<snap>>) = 1 /\ 1 <= 1
      BY <3>1, SMT
    <3> QED BY <2>2, <3>1, <3>2
  <2> QED BY <1>1, <2>1, <2>2 DEF SavingInv
<1>8. saver.pc \in {"wait", "save", "input", "output"}
  <2>1. Waiting.pc = "wait"
    BY DEF Waiting
  <2>2. ASSUME NEW snap, NEW pc \in {"save", "input", "output"}, NEW floor,
               saver = [pc |-> pc, snap |-> snap, floor |-> floor]
        PROVE  <1>8
    <3>1. saver.pc = pc
      BY <2>2
    <3> QED BY <3>1
  <2> QED BY <1>1, <2>1, <2>2 DEF SavingInv
<1>9. engine.pc \in {"down", "failed", "trade ids", "restore", "replay", "running", "apply", "ack"}
  <2>1. Down.pc = "down"
    BY DEF Down
  <2> QED BY <1>1, <2>1 DEF EngineInv, Memory, Booting, Consuming
<1>10. Started =>
         /\ engine.request \in 0..sent /\ engine.state \in Seq(1..sent)
         /\ {engine.inputSeq, engine.outputAppliedSeq, engine.lastTradeID} \subseteq Nat
  BY Starts, EngineTypes DEF Started
<1> QED BY <1>2, <1>3, <1>4, <1>5, <1>6, <1>7, <1>8, <1>9, <1>10 DEF TypeOK, Envelope

\* The shape of the state of the recoverable engine.
THEOREM RecoveryTypeCorrect == Spec => []TypeOK
BY RecoveryInvariant, RecoveryInvTypes, PTL

\* The invariant gives Recovered.
LEMMA InvRecovered == RecoveryInv => Recovered
<1> SUFFICES ASSUME RecoveryInv, engine.pc = "running"
             PROVE  /\ engine.state = input /\ engine.inputSeq = Len(input)
                    /\ \A i \in 1..Len(output) : \A j \in 1..Len(output[i].trades) :
                         output[i].trades[j] <= engine.lastTradeID
  BY DEF Recovered
<1>1. /\ engine.state = input /\ engine.inputSeq = Len(input)
      /\ Numbered(output, engine.lastTradeID)
  BY Running
<1>2. output \in Seq(Envelope)
  BY LogTypes
<1>3. /\ engine.lastTradeID \in Nat
      /\ \A i \in 1..Len(output) : \A j \in 1..Len(output[i].trades) :
           output[i].trades[j] \in 1..engine.lastTradeID
  BY <1>1, <1>2, NumberedLe
<1>4. \A x \in 1..engine.lastTradeID : x <= engine.lastTradeID
  BY <1>3, SMT
<1> QED BY <1>1, <1>3, <1>4

\* Run, Replay: for any number of requests and crashes and any window, an engine that
\* takes a request holds the ledger of the whole Input WAL and knows the last trade id.
THEOREM RecoversLedger == Spec => []Recovered
BY RecoveryInvariant, InvRecovered, PTL

\* The invariant gives CanStart.
LEMMA InvCanStart == RecoveryInv => CanStart
<1>1. Down.pc = "down"
  BY DEF Down
<1> QED BY <1>1 DEF RecoveryInv, EngineInv, Memory, Booting, Consuming, CanStart

\* cleanupInputWAL, loadDedup, Replay: no truncation ever takes away a record that a
\* later start reads.
THEOREM EngineCanStart == Spec => []CanStart
BY RecoveryInvariant, InvCanStart, PTL

\* The invariant gives RequestsKept.
LEMMA InvRequestsKept == RecoveryInv => RequestsKept
<1> SUFFICES ASSUME RecoveryInv, NEW r \in (1..sent) \ Undecodable
             PROVE  \/ \E j \in 1..Len(queue) : queue[j] = r
                    \/ \E i \in 1..Len(output) : input[i] = r
  BY DEF RequestsKept
<1>1. QueueInv(sent, queue, taken, acked) /\ SettledInv(sent, queue, input, Len(output))
  BY DEF RecoveryInv
<1>2. sent \in Nat /\ Len(queue) \in Nat
  BY <1>1, QueueTypes
<1>3. PICK b \in Nat : b = sent - Len(queue)
  BY <1>1, QueueTypes
<1>4. r \in 1..b \/ (r - b \in 1..Len(queue) /\ b + (r - b) = r)
  BY <1>2, <1>3, SMT
<1>5. CASE r \in 1..b
  BY <1>1, <1>3, <1>5 DEF SettledInv, Has
<1>6. CASE r - b \in 1..Len(queue) /\ b + (r - b) = r
  BY <1>1, <1>3, <1>6 DEF QueueInv
<1> QED BY <1>4, <1>5, <1>6

\* handle, Ack: whenever the process ends, a request is with the broker or its events are
\* in the Output WAL.
THEOREM LosesNothing == Spec => []RequestsKept
BY RecoveryInvariant, InvRequestsKept, PTL

\* A step that writes an envelope answers the next request of RequestLog.
LEMMA WritesAnswer ==
  ASSUME RecoveryInv, NEW seq \in 1..Len(input), NEW m, Numbered(output, m), NEW k,
         Writes(seq, m, output', k), input' = input
  PROVE  RL!Answer \/ UNCHANGED <<input, output>>
<1>1. output \in Seq(Envelope) /\ Len(input) \in Nat
  BY LogTypes
<1>2. CASE output' = output
  BY <1>2
<1>3. CASE /\ seq = Len(output) + 1
           /\ output' = Append(output, [inputSeq |-> seq,
                                        trades |-> [j \in 1..TradesOf(input[seq]) |-> m + j]])
  <2>1. RL!NextTrades(TradesOf(input[seq])) = [j \in 1..TradesOf(input[seq]) |-> m + j]
    BY <1>1, NextTradesAre
  <2>2. seq <= Len(input)
    BY <1>1, SMT
  <2> QED BY <1>3, <2>1, <2>2 DEF RL!Answer
<1> QED BY <1>2, <1>3 DEF Writes

\* A step appends one request, or the envelope of the next one, or changes neither log.
LEMMA RequestLogStep == RecoveryInv /\ [Next]_vars => [RL!Next]_<<input, output>>
<1> SUFFICES ASSUME RecoveryInv, [Next]_vars PROVE RL!Next \/ UNCHANGED <<input, output>>
  OBVIOUS
<1>1. CASE handle
  <2>1. PICK r : /\ engine.pc = "running" /\ taken < Len(queue) /\ taken < Prefetch
                 /\ r = queue[taken + 1]
                 /\ \/ Settle
                    \/ r \notin Undecodable /\ ~has(engine.dedup, KindOf(r), r) /\ AppendInput(r)
    BY <1>1 DEF handle
  <2>2. CASE Settle
    BY <2>2 DEF Settle, logs
  <2>3. CASE r \notin Undecodable /\ ~has(engine.dedup, KindOf(r), r) /\ AppendInput(r)
    <3>1. Delivery(r)
      BY <2>1, NextDelivery
    <3>2. \A i \in 1..Len(input) : input[i] < r
      BY <2>1, <2>3, <3>1, UnknownIsNext
    <3>3. r \in (1..MaxRequests) \ Undecodable
      <4>1. sent \in Nat /\ sent \in 0..MaxRequests /\ r \in 1..sent
        BY <3>1, LogTypes DEF Delivery
      <4>2. r \in 1..MaxRequests
        BY <4>1, RecoveryAssumption, SMT
      <4> QED BY <2>3, <4>2
    <3>4. input' = Append(input, r) /\ output' = output
      BY <2>3 DEF AppendInput
    <3>5. RL!Handle
      BY <3>2, <3>3, <3>4 DEF RL!Handle
    <3> QED BY <3>5 DEF RL!Next
  <2> QED BY <2>1, <2>2, <2>3
<1>2. CASE ReplayRecord
  <2>1. /\ engine.pc = "replay" /\ engine.inputSeq + 1 <= Len(input) /\ input' = input
    BY <1>2 DEF ReplayRecord
  <2>2. Awake
    BY <2>1, Starts
  <2>3. inputFirst <= engine.inputSeq + 1 /\ Numbered(output, engine.lastTradeID)
    BY <2>1, <2>2 DEF Awake, HoldsInv
  <2>4. Len(input) \in Nat /\ inputFirst \in Nat /\ engine.inputSeq \in Nat
    BY <2>2, LogTypes, DedupReadable DEF Awake, Memory
  <2>5. PICK seq \in 1..Len(input) : seq = engine.inputSeq + 1 /\ seq >= inputFirst
    BY <2>1, <2>3, <2>4, SMT
  <2>6. Apply(input[seq], seq, "replay")
    BY <1>2, <2>5 DEF ReplayRecord
  <2>7. IsNew(seq) => seq = Len(output) + 1
    BY <2>1, <2>2, <2>5, ReplayNew
  <2>8. \E k \in Nat : Writes(seq, engine.lastTradeID, output', k)
    BY <2>2, <2>3, <2>6, <2>7, ApplyStep
  <2>9. RL!Answer \/ UNCHANGED <<input, output>>
    BY <2>1, <2>3, <2>8, WritesAnswer
  <2> QED BY <2>9 DEF RL!Next
<1>3. CASE ApplyRequest
  <2>1. /\ engine.pc = "apply" /\ Apply(engine.request, engine.inputSeq, "ack") /\ input' = input
    BY <1>3 DEF ApplyRequest
  <2>2. Awake
    BY <2>1, Starts
  <2>3. PICK seq \in 1..Len(input) :
          /\ seq = engine.inputSeq /\ seq = Len(output) + 1 /\ engine.request = input[seq]
          /\ Numbered(output, engine.lastTradeID)
    BY <2>1, <2>2, ApplyNew
  <2>4. \E k \in Nat : Writes(seq, engine.lastTradeID, output', k)
    BY <2>1, <2>2, <2>3, ApplyStep
  <2>5. RL!Answer \/ UNCHANGED <<input, output>>
    BY <2>1, <2>3, <2>4, WritesAnswer
  <2> QED BY <2>5 DEF RL!Next
<1>4. CASE \/ Send \/ BrokerSettles \/ NewEngine \/ initializeTradeID \/ RestoreSnapshot
           \/ Ack \/ snapshot \/ SaverTakes \/ SaveSnapshotAndPrune \/ Project \/ Publish \/ Crash
           \/ UNCHANGED vars
  BY <1>4 DEF Send, BrokerSettles, NewEngine, initializeTradeID, RestoreSnapshot, Ack, snapshot,
     SaverTakes, SaveSnapshotAndPrune, Project, Publish, Crash, vars, logs
<1>5. CASE BootCleanup \/ SaverCleansInput \/ SaverCleansOutput
  BY <1>5 DEF BootCleanup, SaverCleansInput, SaverCleansOutput
<1> QED BY <1>1, <1>2, <1>3, <1>4, <1>5 DEF Next

\* handle, Replay, appendOutput: whatever crashes, the Input and the Output WAL are those
\* of an engine that handles each request at most once, in the order sent, and writes one
\* envelope for each, with consecutive trade ids.
THEOREM RefinesRequestLog == Spec => RequestLogSpec
<1>1. Init => RL!Init
  BY DEF Init, RL!Init
<1> QED BY <1>1, RecoveryInvariant, RequestLogStep, PTL DEF Spec, RequestLogSpec, RL!Spec
=============================================================================
