------------------------ MODULE RecoveryParts_proofs ------------------------
(***************************************************************************)
(* The invariant of Recovery in parts that each depend on a few variables, *)
(* how the parts change, and the steps of the broker, of the consumers and *)
(* of a start.                                                             *)
(***************************************************************************)
EXTENDS Recovery, Dedup_proofs

\* Zenon proves every leaf that names no other prover; SMT is named for the rest.
USE ZenonT(30)

-----------------------------------------------------------------------------
(* The invariant of Recovery, in parts that each depend on a few variables. *)

\* st is what the first n requests of in make of an empty ledger.
Prefix(st, in, n) ==
  /\ st \in Seq(1..MaxRequests) /\ n \in Nat /\ n <= Len(in) /\ Len(st) = n
  /\ \A i \in 1..n : st[i] = in[i]

\* m trade ids are handed out in out, from 1 on and without a gap; u[i] of them up to i.
NumberedBy(u, out) ==
  /\ u \in [0..Len(out) -> Nat] /\ u[0] = 0
  /\ \A i \in 1..Len(out) :
       /\ u[i] = u[i - 1] + Len(out[i].trades)
       /\ \A j \in 1..Len(out[i].trades) : out[i].trades[j] = u[i - 1] + j
Numbered(out, m) == \E u \in [0..Len(out) -> Nat] : NumberedBy(u, out) /\ u[Len(out)] = m

\* The broker holds the last requests sent; the process took the first of them.
QueueInv(s, q, t, a) ==
  /\ s \in 0..MaxRequests /\ q \in Seq(1..s) /\ Len(q) <= s
  /\ \A j \in 1..Len(q) : q[j] = s - Len(q) + j
  /\ t \in Nat /\ a \in Nat /\ a <= t /\ t <= Len(q) /\ t <= Prefetch

Has(in, n, r) == \E i \in 1..n : in[i] = r

\* The Input WAL holds decodable requests in the order sent, and skips none.
InputInv(s, in) ==
  /\ in \in Seq((1..s) \ Undecodable)
  /\ \A i, j \in 1..Len(in) : i <= j => in[j] - in[i] >= j - i
  /\ \A i \in 1..Len(in) : \A r \in 1..in[i] : r \in Undecodable \/ Has(in, Len(in), r)

\* It is at most Prefetch requests ahead of the first that the broker holds.
ReachInv(s, q, in) == \A i \in 1..Len(in) : in[i] <= s - Len(q) + Prefetch

\* What the broker was told is settled has its events in the Output WAL.
SettledInv(s, q, in, n) == \A r \in 1..(s - Len(q)) : r \in Undecodable \/ Has(in, n, r)
TakenInv(q, t, in, n) == \A j \in 1..t : q[j] \in Undecodable \/ Has(in, n, q[j])

OutputInv(in, out) ==
  /\ out \in Seq([inputSeq : Nat, trades : Seq(Nat)])
  /\ Len(out) <= Len(in) /\ Len(in) <= Len(out) + 1
  /\ \A i \in 1..Len(out) : out[i].inputSeq = i
  /\ \E m \in Nat : Numbered(out, m)

CursorInv(out, first, db, mq) ==
  /\ db \in 0..Len(out) /\ mq \in 0..Len(out)
  /\ first \in 1..Len(out) + 1 /\ (first = 1 \/ first <= db)

\* A snapshot is the ledger of a prefix of the Input WAL whose events are written.
Sound(snap, in, out) ==
  /\ snap \in Snapshot /\ snap.inputSeq <= Len(out) /\ Prefix(snap.state, in, snap.inputSeq)

RowsInv(rows, in, out) ==
  /\ rows \in Seq(Snapshot)
  /\ \A i \in 1..Len(rows) : Sound(rows[i], in, out)
  /\ \A i, j \in 1..Len(rows) : i <= j => rows[i].inputSeq <= rows[j].inputSeq
SnapshotInv(rows, in, out) == RowsInv(rows, in, out) /\ Len(rows) <= Retention

\* The Input WAL still has what a start from the oldest snapshot reads.
FirstInv(first, in, rows) ==
  /\ first \in 1..Len(in) + 1
  /\ first = 1 \/ (rows # <<>> /\ first <= InputTarget(rows[1].inputSeq))

\* rows is older than snap.
Older(rows, snap) == \A i \in 1..Len(rows) : rows[i].inputSeq <= snap.inputSeq

\* The snapshots on their way into the table are newer than those in it.
SavingInv(rows, in, out, tick, sv) ==
  /\ \/ tick = <<>>
     \/ \E snap \in Snapshot : /\ tick = <<snap>> /\ Sound(snap, in, out) /\ Older(rows, snap)
                               /\ sv.pc = "save" => sv.snap.inputSeq <= snap.inputSeq
  /\ \/ sv = Waiting
     \/ \E snap \in Snapshot, pc \in {"save", "input", "output"}, floor \in Nat :
          /\ sv = [pc |-> pc, snap |-> snap, floor |-> floor]
          /\ pc = "save" => Sound(snap, in, out) /\ Older(rows, snap)
          /\ pc = "input" => rows # <<>> /\ floor <= rows[1].inputSeq

\* Engine.dedup knows the last Window records of the Input WAL.
WalOf(in) == [i \in 1..Len(in) |-> [kind |-> KindOf(in[i]), id |-> in[i]]]
DedupOK(d, in) == \E first : Known(1..MaxRequests, d, WalOf(in), first)

Booting == {"trade ids", "restore", "replay"}
Consuming == {"running", "apply", "ack"}

\* The memory of an engine that has started.
Mem(p, r, st, i, o, m, d) ==
  [pc |-> p, request |-> r, state |-> st, inputSeq |-> i, outputAppliedSeq |-> o,
   lastTradeID |-> m, dedup |-> d]
Memory(e) ==
  /\ e = Mem(e.pc, e.request, e.state, e.inputSeq, e.outputAppliedSeq, e.lastTradeID, e.dedup)
  /\ e.pc \in Booting \cup Consuming /\ e.request \in Nat /\ e.state \in Seq(1..MaxRequests)
  /\ e.inputSeq \in Nat /\ e.outputAppliedSeq \in Nat /\ e.lastTradeID \in Nat

\* What it holds, at each of its places.
HoldsInv(e, in, inFirst, out) ==
  /\ e.outputAppliedSeq <= Len(out)
  /\ e.pc # "trade ids" => Numbered(out, e.lastTradeID)
  /\ e.pc \in {"trade ids", "restore"} =>
       e.inputSeq = 0 /\ e.state = <<>> /\ e.outputAppliedSeq = Len(out)
  /\ e.pc = "replay" => /\ Prefix(e.state, in, e.inputSeq) /\ inFirst <= e.inputSeq + 1
                        /\ e.inputSeq <= Len(out)
                        /\ e.outputAppliedSeq = Len(out) \/ e.inputSeq = Len(out)
  /\ e.pc \in {"running", "ack"} => e.state = in /\ e.inputSeq = Len(in) /\ Len(out) = Len(in)
  /\ e.pc = "apply" => /\ Prefix(e.state, in, Len(in) - 1) /\ e.inputSeq = Len(in)
                       /\ Len(out) + 1 = Len(in)

\* The delivery it works on.
WorksInv(e, in, q, t, a) ==
  /\ e.pc \in Booting => t = 0 /\ a = 0 /\ e.request = 0
  /\ e.pc = "running" => t = a /\ e.request = 0
  /\ e.pc \in {"apply", "ack"} => /\ t = a + 1 /\ e.request = q[t]
                                  /\ Len(in) > 0 /\ e.request = in[Len(in)]

EngineInv(e, in, inFirst, out, q, t, a) ==
  \/ e = Down /\ t = 0 /\ a = 0
  \/ Memory(e) /\ DedupOK(e.dedup, in) /\ HoldsInv(e, in, inFirst, out) /\ WorksInv(e, in, q, t, a)

\* Snapshots are taken and saved only while the engine consumes.
IdleInv(e, tick, sv) == e.pc \notin Consuming => tick = <<>> /\ sv = Waiting

RecoveryInv ==
  /\ QueueInv(sent, queue, taken, acked)
  /\ InputInv(sent, input) /\ ReachInv(sent, queue, input)
  /\ SettledInv(sent, queue, input, Len(output))
  /\ TakenInv(queue, acked, input, Len(output)) /\ TakenInv(queue, taken, input, Len(input))
  /\ OutputInv(input, output) /\ CursorInv(output, outputFirst, dbCursor, mqCursor)
  /\ SnapshotInv(snapshots, input, output) /\ FirstInv(inputFirst, input, snapshots)
  /\ SavingInv(snapshots, input, output, ticked, saver)
  /\ EngineInv(engine, input, inputFirst, output, queue, taken, acked)
  /\ IdleInv(engine, ticked, saver)

-----------------------------------------------------------------------------
(* Trade ids.                                                               *)

Envelope == [inputSeq : Nat, trades : Seq(Nat)]

\* The counts never fall.
LEMMA CountsGrow ==
  ASSUME NEW out \in Seq(Envelope), NEW u, NumberedBy(u, out)
  PROVE  \A i, k \in 0..Len(out) : i <= k => u[i] <= u[k]
<1>1. PICK n \in Nat : n = Len(out)
  BY SMT
<1>2. /\ \A i \in 0..n : u[i] \in Nat
      /\ \A i \in 1..n : u[i] = u[i - 1] + Len(out[i].trades)
  BY <1>1 DEF NumberedBy
<1>3. \A i \in 1..n : Len(out[i].trades) \in Nat
  <2>1. \A i \in 1..n : out[i] \in Envelope
    BY <1>1, SMT
  <2> QED BY <2>1, SMT DEF Envelope
<1> TAKE i \in 0..Len(out)
<1> DEFINE T == {k \in Nat : k <= n /\ i <= k /\ ~(u[i] <= u[k])}
<1>4. T = {}
  <2> SUFFICES ASSUME T # {} PROVE FALSE
    OBVIOUS
  <2>1. PICK k \in T : \A y \in T : k <= y
    BY Least
  <2>2. k \in Nat /\ k <= n /\ i <= k /\ ~(u[i] <= u[k])
    OBVIOUS
  <2>3. i \in 0..n
    BY <1>1
  <2>4. k # i
    <3>1. u[i] \in Nat
      BY <1>2, <2>3
    <3> QED BY <2>2, <3>1, SMT
  <2>5. /\ k - 1 \in Nat /\ k - 1 <= n /\ i <= k - 1 /\ ~(k <= k - 1)
        /\ k \in 1..n /\ k - 1 \in 0..n /\ k \in 0..n
    BY <2>2, <2>3, <2>4, SMT
  <2>6. k - 1 \notin T
    BY <2>1, <2>5
  <2>7. u[i] <= u[k - 1]
    BY <2>5, <2>6
  <2>8. u[k] = u[k - 1] + Len(out[k].trades)
    BY <1>2, <2>5
  <2>9. Len(out[k].trades) \in Nat /\ u[k - 1] \in Nat /\ u[i] \in Nat
    BY <1>2, <1>3, <2>3, <2>5
  <2>10. PICK l \in Nat : u[k] = u[k - 1] + l
    BY <2>8, <2>9
  <2>11. PICK x \in Nat, y \in Nat : x = u[i] /\ y = u[k - 1]
    BY <2>9
  <2>12. x <= y + l
    BY <2>7, <2>11, SMT
  <2> QED BY <2>2, <2>10, <2>11, <2>12
<1> TAKE k \in 0..Len(out)
<1>5. k \in Nat /\ k <= n
  BY <1>1, SMT
<1> QED BY <1>4, <1>5

\* Every trade id is one of those handed out.
LEMMA NumberedLe ==
  ASSUME NEW out \in Seq(Envelope), NEW m, Numbered(out, m)
  PROVE  /\ m \in Nat
         /\ \A i \in 1..Len(out) : \A j \in 1..Len(out[i].trades) :
              out[i].trades[j] \in 1..m
<1>1. PICK u \in [0..Len(out) -> Nat] : NumberedBy(u, out) /\ u[Len(out)] = m
  BY DEF Numbered
<1>2. PICK n \in Nat : n = Len(out)
  BY SMT
<1>3. m \in Nat
  <2>1. n \in 0..n
    BY SMT
  <2> QED BY <1>1, <1>2, <2>1
<1>4. ASSUME NEW i \in 1..n, NEW j \in 1..Len(out[i].trades) PROVE out[i].trades[j] \in 1..m
  <2>1. i \in 0..n /\ n \in 0..n /\ i <= n /\ i - 1 \in 0..n
    BY SMT
  <2>2. u[i] <= m
    BY <1>1, <1>2, <2>1, CountsGrow
  <2>3. /\ u[i] = u[i - 1] + Len(out[i].trades)
        /\ out[i].trades[j] = u[i - 1] + j
    BY <1>1, <1>2 DEF NumberedBy
  <2>4. u[i] \in Nat /\ u[i - 1] \in Nat
    BY <1>1, <1>2, <2>1
  <2>5. out[i] \in Envelope
    BY <1>2, SMT
  <2>6. Len(out[i].trades) \in Nat
    BY <2>5, SMT DEF Envelope
  <2>7. PICK a \in Nat, b \in Nat : a = u[i - 1] /\ b = Len(out[i].trades)
    BY <2>4, <2>6
  <2>8. a + b <= m /\ j \in 1..b
    BY <2>2, <2>3, <2>7
  <2>9. a + j \in 1..m
    BY <1>3, <2>8, SMT
  <2> QED BY <2>3, <2>7, <2>9
<1> QED BY <1>2, <1>3, <1>4

\* The last trade of out is the last one of envelope k, and its id is m.
TopAt(out, k, m) ==
  /\ out[k].trades # <<>> /\ Len(out[k].trades) \in 1..Len(out[k].trades)
  /\ out[k].trades[Len(out[k].trades)] = m
  /\ \A i \in (k + 1)..Len(out) : out[i].trades = <<>>
TradesNothing(out) == \A i \in 1..Len(out) : out[i].trades = <<>>

\* The last trade id is the last of the last envelope that has any.
LEMMA NumberedTop ==
  ASSUME NEW out \in Seq(Envelope), NEW m, Numbered(out, m)
  PROVE  (m = 0 /\ TradesNothing(out)) \/ \E k \in 1..Len(out) : TopAt(out, k, m)
<1>1. PICK u \in [0..Len(out) -> Nat] : NumberedBy(u, out) /\ u[Len(out)] = m
  BY DEF Numbered
<1>2. PICK n \in Nat : n = Len(out)
  BY SMT
<1>3. /\ n \in 0..n /\ m \in Nat /\ u[n] = m /\ u[0] = 0
      /\ \A i \in 0..n : u[i] \in Nat
      /\ \A i \in 1..n : u[i] = u[i - 1] + Len(out[i].trades)
      /\ \A i \in 1..n : \A j \in 1..Len(out[i].trades) : out[i].trades[j] = u[i - 1] + j
  <2>1. n \in 0..n
    BY SMT
  <2> QED BY <1>1, <1>2, <2>1 DEF NumberedBy
<1>4. \A i \in 1..n : out[i].trades \in Seq(Nat) /\ Len(out[i].trades) \in Nat
  <2>1. \A i \in 1..n : out[i] \in Envelope
    BY <1>2, SMT
  <2> QED BY <2>1, SMT DEF Envelope
<1>5. \A i, k \in 0..n : i <= k => u[i] <= u[k]
  BY <1>1, <1>2, CountsGrow
<1> DEFINE T == {k \in Nat : k <= n /\ u[k] = m}
<1>6. PICK k \in T : \A y \in T : k <= y
  <2>1. n \in T
    BY <1>3, SMT
  <2> QED BY <2>1, Least
<1>7. k \in Nat /\ k <= n /\ u[k] = m
  OBVIOUS
<1>8. ASSUME NEW i \in (k + 1)..n PROVE out[i].trades = <<>>
  <2>1. /\ i \in 0..n /\ i - 1 \in 0..n /\ k \in 0..n /\ n \in 0..n /\ k <= i - 1 /\ i <= n
        /\ i \in 1..n /\ i - 1 <= i
    BY <1>7, SMT
  <2>2. u[k] <= u[i - 1] /\ u[i - 1] <= u[i] /\ u[i] <= u[n]
    BY <1>5, <2>1
  <2>3. u[i] \in Nat /\ u[i - 1] \in Nat /\ u[i] = u[i - 1] + Len(out[i].trades)
    BY <1>3, <2>1
  <2>4. out[i].trades \in Seq(Nat) /\ Len(out[i].trades) \in Nat
    BY <1>4, <2>1
  <2>5. Len(out[i].trades) = 0
    <3>1. PICK x \in Nat, l \in Nat : x = u[i - 1] /\ l = Len(out[i].trades)
      BY <2>3, <2>4
    <3>2. m <= x /\ x + l <= m /\ m \in Nat
      BY <1>3, <1>7, <2>2, <2>3, <3>1
    <3>3. l = 0
      BY <3>2, SMT
    <3> QED BY <3>1, <3>3
  <2> QED BY <2>4, <2>5, SMT
<1>9. CASE k = 0
  <2>1. m = 0 /\ \A i \in 1..n : i \in (k + 1)..n
    BY <1>3, <1>7, <1>9, SMT
  <2> QED BY <1>2, <1>8, <2>1 DEF TradesNothing
<1>10. CASE k # 0
  <2>1. k \in 1..n /\ k - 1 \in Nat /\ k - 1 <= n /\ ~(k <= k - 1) /\ k - 1 \in 0..n
    BY <1>7, <1>10, SMT
  <2>2. u[k - 1] # m
    BY <1>6, <2>1
  <2>3. u[k] = u[k - 1] + Len(out[k].trades) /\ u[k - 1] \in Nat /\ Len(out[k].trades) \in Nat
    BY <1>3, <1>4, <2>1
  <2> HIDE DEF T
  <2>4. Len(out[k].trades) \in 1..Len(out[k].trades)
    <3>1. PICK x \in Nat, l \in Nat : x = u[k - 1] /\ l = Len(out[k].trades)
      BY <2>3
    <3>2. m = x + l /\ x # m
      BY <1>7, <2>2, <2>3, <3>1
    <3>3. l \in 1..l
      BY <3>2, SMT
    <3> QED BY <3>1, <3>3
  <2>5. out[k].trades[Len(out[k].trades)] = u[k - 1] + Len(out[k].trades)
    BY <1>3, <2>1, <2>4
  <2>6. out[k].trades # <<>>
    BY <1>4, <2>1, <2>4, SMT
  <2> QED BY <1>2, <1>7, <1>8, <2>1, <2>3, <2>4, <2>5, <2>6 DEF TopAt
<1> QED BY <1>9, <1>10

\* One more envelope, with the next n trade ids.
LEMMA NumberedAppend ==
  ASSUME NEW out \in Seq(Envelope), NEW m \in Nat, Numbered(out, m), NEW n \in Nat,
         NEW seq \in Nat,
         NEW env, env = [inputSeq |-> seq, trades |-> [j \in 1..n |-> m + j]]
  PROVE  /\ env \in Envelope /\ Append(out, env) \in Seq(Envelope)
         /\ Numbered(Append(out, env), m + n)
<1>1. PICK u \in [0..Len(out) -> Nat] : NumberedBy(u, out) /\ u[Len(out)] = m
  BY DEF Numbered
<1>2. PICK l \in Nat : l = Len(out)
  BY SMT
<1>3. /\ u \in [0..l -> Nat] /\ u[l] = m /\ u[0] = 0
      /\ \A i \in 1..l : /\ u[i] = u[i - 1] + Len(out[i].trades)
                          /\ \A j \in 1..Len(out[i].trades) : out[i].trades[j] = u[i - 1] + j
  BY <1>1, <1>2 DEF NumberedBy
<1>4. PICK t : t = [j \in 1..n |-> m + j]
  OBVIOUS
<1>5. t \in Seq(Nat) /\ Len(t) = n /\ \A j \in 1..n : t[j] = m + j
  BY <1>4, SMT
<1>6. env.trades = t /\ env \in Envelope
  BY <1>4, <1>5, SMT DEF Envelope
<1>7. PICK o : o = Append(out, env)
  OBVIOUS
<1>8. /\ o \in Seq(Envelope) /\ Len(o) = l + 1 /\ o[l + 1] = env
      /\ \A i \in 1..l : o[i] = out[i]
  BY <1>2, <1>6, <1>7, SMT
<1>9. PICK v : v = [i \in 0..(l + 1) |-> IF i = l + 1 THEN m + n ELSE u[i]]
  OBVIOUS
<1>10. /\ l + 1 \in 0..(l + 1) /\ 0 \in 0..(l + 1) /\ 0 # l + 1 /\ m + n \in Nat
       /\ \A i \in 0..(l + 1) : i # l + 1 => i \in 0..l
       /\ \A i \in 0..l : i # l + 1 /\ i \in 0..(l + 1)
       /\ \A i \in 1..(l + 1) : i - 1 \in 0..l /\ (i # l + 1 => i \in 1..l)
       /\ \A i \in 1..l : i \in 0..l /\ i - 1 \in 0..l
       /\ (l + 1) - 1 = l /\ l \in 0..l
  BY SMT
<1>11. v \in [0..(l + 1) -> Nat] /\ v[0] = 0 /\ v[l + 1] = m + n /\ \A i \in 0..l : v[i] = u[i]
  BY <1>3, <1>9, <1>10
<1>12. ASSUME NEW i \in 1..(l + 1)
       PROVE  /\ v[i] = v[i - 1] + Len(o[i].trades)
              /\ \A j \in 1..Len(o[i].trades) : o[i].trades[j] = v[i - 1] + j
  <2>1. CASE i = l + 1
    <3>1. v[i - 1] = m /\ o[i].trades = t
      BY <1>3, <1>6, <1>8, <1>10, <1>11, <2>1
    <3>2. v[i] = m + n
      BY <1>11, <2>1
    <3> QED BY <1>5, <3>1, <3>2
  <2>2. CASE i # l + 1
    <3>1. i \in 1..l /\ i \in 0..l /\ i - 1 \in 0..l
      BY <1>10, <2>2
    <3>2. v[i] = u[i] /\ v[i - 1] = u[i - 1] /\ o[i] = out[i]
      BY <1>8, <1>11, <3>1
    <3> QED BY <1>3, <3>1, <3>2
  <2> QED BY <2>1, <2>2
<1>13. NumberedBy(v, o)
  BY <1>8, <1>11, <1>12 DEF NumberedBy
<1> QED BY <1>6, <1>7, <1>8, <1>11, <1>13 DEF Numbered

\* Max picks the greatest element.
LEMMA MaxIs ==
  ASSUME NEW S, S \subseteq Int, NEW x \in S, \A y \in S : x >= y
  PROVE  Max(S) = x
<1>1. \A y \in S : (\A z \in S : y >= z) => y = x
  BY SMT
<1> QED BY <1>1 DEF Max

\* Min of two numbers is the smaller.
LEMMA MinIs ==
  ASSUME NEW a \in Nat, NEW b \in Nat
  PROVE  /\ Min({a, b}) \in Nat /\ Min({a, b}) <= a /\ Min({a, b}) <= b
         /\ Min({a, b}) = a \/ Min({a, b}) = b
<1>1. \E x \in {a, b} : \A y \in {a, b} : x <= y
  BY SMT
<1>2. Min({a, b}) \in {a, b} /\ \A y \in {a, b} : Min({a, b}) <= y
  BY <1>1 DEF Min
<1> QED BY <1>2

\* initializeTradeID finds the last trade id, wherever the Output WAL was cut.
LEMMA RecoveredIs ==
  ASSUME output \in Seq(Envelope), CursorInv(output, outputFirst, dbCursor, mqCursor),
         NEW m, Numbered(output, m)
  PROVE  RecoveredTradeID = m
<1> DEFINE found == {i \in outputFirst..Len(output) : output[i].trades # <<>>}
           ids == UNION {{output[i].trades[j] : j \in 1..Len(output[i].trades)} :
                         i \in 1..dbCursor}
<1>1. PICK n \in Nat : n = Len(output)
  BY SMT
<1>2. /\ dbCursor \in 0..n /\ outputFirst \in 1..(n + 1)
      /\ outputFirst = 1 \/ outputFirst <= dbCursor
  BY <1>1 DEF CursorInv
<1>3. m \in Nat /\ \A i \in 1..n : \A j \in 1..Len(output[i].trades) : output[i].trades[j] \in 1..m
  BY <1>1, NumberedLe
<1>4. /\ \A i \in outputFirst..n : i \in 1..n
      /\ \A i \in 1..dbCursor : i \in 1..n
  BY <1>2, SMT
<1>5. \A x \in {0} \cup ids : x \in Int /\ m >= x
  <2>1. ASSUME NEW x \in ids PROVE x \in 1..m
    <3>1. PICK i \in 1..dbCursor : x \in {output[i].trades[j] : j \in 1..Len(output[i].trades)}
      OBVIOUS
    <3> QED BY <1>3, <1>4, <3>1
  <2>2. \A x \in 1..m : x \in Int /\ m >= x
    BY <1>3, SMT
  <2>3. 0 \in Int /\ m >= 0
    BY <1>3, SMT
  <2> QED BY <2>1, <2>2, <2>3
<1>6. found = {} /\ m \in {0} \cup ids => RecoveredTradeID = m
  <2> SUFFICES ASSUME found = {}, m \in {0} \cup ids PROVE RecoveredTradeID = m
    OBVIOUS
  <2>1. RecoveredTradeID = LastTradeID
    BY DEF RecoveredTradeID
  <2>2. LastTradeID = Max({0} \cup ids)
    BY DEF LastTradeID
  <2> HIDE DEF ids
  <2>3. Max({0} \cup ids) = m
    <3>1. PICK S : S = {0} \cup ids
      OBVIOUS
    <3>2. S \subseteq Int /\ m \in S /\ \A y \in S : m >= y
      BY <1>5, <3>1
    <3> QED BY <3>1, <3>2, MaxIs
  <2> QED BY <2>1, <2>2, <2>3
<1>7. CASE m = 0 /\ TradesNothing(output)
  <2>1. found = {}
    BY <1>1, <1>4, <1>7 DEF TradesNothing
  <2> QED BY <1>6, <1>7, <2>1
<1>8. ASSUME NEW k \in 1..n, TopAt(output, k, m) PROVE RecoveredTradeID = m
  <2>0. /\ output[k].trades # <<>> /\ Len(output[k].trades) \in 1..Len(output[k].trades)
        /\ output[k].trades[Len(output[k].trades)] = m
        /\ \A i \in (k + 1)..n : output[i].trades = <<>>
    BY <1>1, <1>8 DEF TopAt
  <2>1. CASE outputFirst <= k
    <3>1. k \in outputFirst..n
      BY <1>2, <2>1, SMT
    <3>2. k \in found
      BY <1>1, <2>0, <3>1
    <3>3. ASSUME NEW i \in found PROVE k >= i /\ i \in Int
      <4>1. i \in outputFirst..n /\ output[i].trades # <<>>
        BY <1>1
      <4>2. i \notin (k + 1)..n
        BY <2>0, <4>1
      <4> QED BY <1>2, <4>1, <4>2, SMT
    <3>4. PICK S : S = found
      OBVIOUS
    <3>5. Max(S) = k
      <4>1. S \subseteq Int /\ k \in S /\ \A y \in S : k >= y
        BY <3>2, <3>3, <3>4
      <4> QED BY <4>1, MaxIs
    <3>6. S # {}
      BY <3>2, <3>4
    <3>7. RecoveredTradeID = output[Max(S)].trades[Len(output[Max(S)].trades)]
      BY <3>4, <3>6 DEF RecoveredTradeID
    <3> QED BY <2>0, <3>5, <3>7
  <2>2. CASE ~(outputFirst <= k)
    <3>1. k \in 1..dbCursor /\ \A i \in outputFirst..n : i \in (k + 1)..n
      BY <1>2, <2>2, SMT
    <3>2. found = {}
      BY <1>1, <2>0, <3>1
    <3>3. m \in {output[k].trades[j] : j \in 1..Len(output[k].trades)}
      BY <2>0
    <3>4. m \in ids
      BY <3>1, <3>3
    <3> QED BY <1>6, <3>2, <3>4
  <2> QED BY <2>1, <2>2
<1> QED BY <1>1, <1>7, <1>8, NumberedTop

\* The trade ids of RequestLog are the same ones.
LEMMA NextTradesAre ==
  ASSUME output \in Seq(Envelope), NEW m, Numbered(output, m), NEW n
  PROVE  RL!NextTrades(n) = [j \in 1..n |-> m + j]
<1>1. PICK u \in [0..Len(output) -> Nat] : NumberedBy(u, output) /\ u[Len(output)] = m
  BY DEF Numbered
<1>2. PICK l \in Nat : l = Len(output)
  BY SMT
<1> DEFINE Counts(f) == f = [i \in 0..Len(output) |->
                               IF i = 0 THEN 0 ELSE f[i - 1] + Len(output[i].trades)]
<1>3. /\ u \in [0..l -> Nat] /\ u[l] = m /\ u[0] = 0
      /\ \A i \in 1..l : u[i] = u[i - 1] + Len(output[i].trades)
  BY <1>1, <1>2 DEF NumberedBy
<1>4. \A i \in 0..l : i # 0 => i \in 1..l
  BY SMT
<1>5. Counts(u)
  <2>1. u = [i \in 0..l |-> u[i]]
    BY <1>3
  <2>2. \A i \in 0..l : u[i] = IF i = 0 THEN 0 ELSE u[i - 1] + Len(output[i].trades)
    BY <1>3, <1>4
  <2> QED BY <1>2, <2>1, <2>2
<1>6. PICK f : f = CHOOSE g : Counts(g)
  OBVIOUS
<1>7. Counts(f)
  BY <1>5, <1>6
<1>8. \A i \in 0..l : f[i] = IF i = 0 THEN 0 ELSE f[i - 1] + Len(output[i].trades)
  BY <1>2, <1>7
<1> HIDE DEF Counts
<1> DEFINE T == {i \in Nat : i <= l /\ f[i] # u[i]}
<1>9. T = {}
  <2> SUFFICES ASSUME T # {} PROVE FALSE
    OBVIOUS
  <2>1. PICK i \in T : \A y \in T : i <= y
    BY Least
  <2>2. i \in Nat /\ i <= l /\ f[i] # u[i]
    OBVIOUS
  <2>3. CASE i = 0
    <3>1. 0 \in 0..l
      BY SMT
    <3> QED BY <1>3, <1>8, <2>2, <2>3, <3>1
  <2>4. CASE i # 0
    <3>1. i \in 1..l /\ i \in 0..l /\ i - 1 \in Nat /\ i - 1 <= l /\ ~(i <= i - 1)
      BY <2>2, <2>4, SMT
    <3>2. f[i - 1] = u[i - 1]
      BY <2>1, <3>1
    <3>3. f[i] = f[i - 1] + Len(output[i].trades)
      BY <1>8, <2>4, <3>1
    <3>4. u[i] = u[i - 1] + Len(output[i].trades)
      BY <1>3, <3>1
    <3> QED BY <2>2, <3>2, <3>3, <3>4
  <2> QED BY <2>3, <2>4
<1>10. f[l] = m
  <2>1. l \in Nat /\ l <= l
    BY SMT
  <2> QED BY <1>3, <1>9, <2>1
<1>11. RL!NextTrades(n) = [j \in 1..n |-> f[l] + j]
  <2>1. RL!NextTrades(n) = [j \in 1..n |-> (CHOOSE g : Counts(g))[Len(output)] + j]
    BY DEF RL!NextTrades, Counts
  <2>2. (CHOOSE g : Counts(g))[Len(output)] = f[l]
    BY <1>2, <1>6
  <2> QED BY <2>1, <2>2
<1> QED BY <1>10, <1>11

-----------------------------------------------------------------------------
(* Logs only grow.                                                          *)

Longer(in, v) ==
  /\ Len(in) \in Nat /\ Len(v) \in Nat /\ Len(in) <= Len(v)
  /\ \A i \in 1..Len(in) : v[i] = in[i]

\* A log is an extension of itself.
LEMMA LongerSame ==
  ASSUME NEW S, NEW in \in Seq(S)
  PROVE  Longer(in, in)
BY SMT DEF Longer

OneLonger(in, r, v) ==
  /\ Len(v) = Len(in) + 1 /\ Len(in) \in Nat /\ v[Len(in) + 1] = r
  /\ \A i \in 1..Len(in) : v[i] = in[i]
  /\ Longer(in, v)

\* An append extends a log by one record.
LEMMA LongerAppend ==
  ASSUME NEW S, NEW in \in Seq(S), NEW r \in S
  PROVE  Append(in, r) \in Seq(S) /\ OneLonger(in, r, Append(in, r))
<1>1. /\ Append(in, r) \in Seq(S) /\ Len(Append(in, r)) = Len(in) + 1 /\ Len(in) \in Nat
      /\ Append(in, r)[Len(in) + 1] = r
      /\ \A i \in 1..Len(in) : Append(in, r)[i] = in[i]
  BY SMT
<1>2. Len(in) + 1 \in Nat /\ Len(in) <= Len(in) + 1
  BY <1>1, SMT
<1> QED BY <1>1, <1>2 DEF Longer, OneLonger

\* What a log has, an extension of it has.
LEMMA HasLonger ==
  ASSUME NEW in, NEW v, Longer(in, v), NEW n \in Nat, n <= Len(in), NEW k \in Nat, n <= k,
         NEW r, Has(in, n, r)
  PROVE  Has(v, k, r)
<1>1. PICK i \in 1..n : in[i] = r
  BY DEF Has
<1>2. i \in 1..Len(in) /\ i \in 1..k
  BY SMT DEF Longer
<1> QED BY <1>1, <1>2 DEF Has, Longer

\* What is settled stays in the logs as they grow.
LEMMA SettledLonger ==
  ASSUME NEW s, NEW q, NEW in, NEW v, Longer(in, v), NEW n \in Nat, n <= Len(in),
         NEW k \in Nat, n <= k, SettledInv(s, q, in, n)
  PROVE  SettledInv(s, q, v, k)
BY HasLonger DEF SettledInv

\* What was taken stays in the logs as they grow.
LEMMA TakenLonger ==
  ASSUME NEW q, NEW t, NEW in, NEW v, Longer(in, v), NEW n \in Nat, n <= Len(in),
         NEW k \in Nat, n <= k, TakenInv(q, t, in, n)
  PROVE  TakenInv(q, t, v, k)
BY HasLonger DEF TakenInv

\* The effect of a prefix does not depend on what is appended later.
LEMMA PrefixLonger ==
  ASSUME NEW st, NEW in, NEW v, Longer(in, v), NEW n, Prefix(st, in, n)
  PROVE  Prefix(st, v, n)
<1>1. n \in Nat /\ n <= Len(v) /\ \A i \in 1..n : i \in 1..Len(in)
  BY SMT DEF Prefix, Longer
<1> QED BY <1>1 DEF Prefix, Longer

\* A sound snapshot stays sound as the logs grow.
LEMMA SoundLonger ==
  ASSUME NEW snap, NEW in, NEW v, Longer(in, v), NEW out, NEW o, Longer(out, o),
         Sound(snap, in, out)
  PROVE  Sound(snap, v, o)
<1>1. snap \in Snapshot /\ snap.inputSeq <= Len(out) /\ Prefix(snap.state, in, snap.inputSeq)
  BY DEF Sound
<1>2. Prefix(snap.state, v, snap.inputSeq)
  BY <1>1, PrefixLonger
<1>3. snap.inputSeq \in Nat
  BY <1>1 DEF Prefix
<1>4. snap.inputSeq <= Len(o)
  BY <1>1, <1>3, SMT DEF Longer
<1> QED BY <1>1, <1>2, <1>4 DEF Sound

\* And so do the rows of the snapshot table.
LEMMA SnapshotLonger ==
  ASSUME NEW rows, NEW in, NEW v, Longer(in, v), NEW out, NEW o, Longer(out, o),
         SnapshotInv(rows, in, out)
  PROVE  SnapshotInv(rows, v, o)
BY SoundLonger DEF SnapshotInv, RowsInv

\* And so do the snapshots on their way to it.
LEMMA SavingLonger ==
  ASSUME NEW rows, NEW in, NEW v, Longer(in, v), NEW out, NEW o, Longer(out, o),
         NEW tick, NEW sv, SavingInv(rows, in, out, tick, sv)
  PROVE  SavingInv(rows, v, o, tick, sv)
<1>1. \A snap : Sound(snap, in, out) => Sound(snap, v, o)
  BY SoundLonger
<1> QED BY <1>1 DEF SavingInv

\* What is left of the Input WAL still begins where a snapshot allows.
LEMMA FirstLonger ==
  ASSUME NEW first, NEW in, NEW v, Longer(in, v), NEW rows, FirstInv(first, in, rows)
  PROVE  FirstInv(first, v, rows)
<1>1. first \in 1..Len(v) + 1
  BY SMT DEF FirstInv, Longer
<1> QED BY <1>1 DEF FirstInv

\* The cursors of the consumers stay within a log that grows.
LEMMA CursorLonger ==
  ASSUME NEW out, NEW o, Longer(out, o), NEW first, NEW db, NEW mq, CursorInv(out, first, db, mq)
  PROVE  CursorInv(o, first, db, mq)
<1>1. db \in 0..Len(o) /\ mq \in 0..Len(o) /\ first \in 1..Len(o) + 1
  BY SMT DEF CursorInv, Longer
<1> QED BY <1>1 DEF CursorInv

\* The Input WAL takes the next request.
LEMMA InputAppend ==
  ASSUME NEW s \in Nat, NEW in, InputInv(s, in), NEW r \in (1..s) \ Undecodable,
         \A i \in 1..Len(in) : in[i] < r,
         \A x \in 1..(r - 1) : x \in Undecodable \/ Has(in, Len(in), x)
  PROVE  InputInv(s, Append(in, r))
<1>1. in \in Seq((1..s) \ Undecodable)
  BY DEF InputInv
<1>0. PICK n \in Nat : n = Len(in)
  BY <1>1, SMT
<1>2. PICK v : v = Append(in, r) /\ n = Len(in)
  BY <1>0
<1>3. /\ v \in Seq((1..s) \ Undecodable) /\ Len(v) = n + 1 /\ v[n + 1] = r
      /\ \A i \in 1..n : v[i] = in[i]
      /\ Longer(in, v)
  <2>1. PICK S : S = (1..s) \ Undecodable
    OBVIOUS
  <2>2. in \in Seq(S) /\ r \in S
    BY <1>1, <2>1
  <2>3. v \in Seq(S) /\ OneLonger(in, r, v)
    BY <1>2, <2>2, LongerAppend
  <2> QED BY <1>2, <2>1, <2>3 DEF OneLonger
<1>4. \A i \in 1..n : in[i] \in Int /\ in[i] < r
  BY <1>1, <1>2, SMT
<1>5. \A i, j \in 1..n : i <= j => in[j] - in[i] >= j - i
  BY <1>2 DEF InputInv
<1>6. \A i \in 1..(n + 1) : i = n + 1 \/ i \in 1..n
  BY SMT
<1>7. ASSUME NEW i \in 1..(n + 1), NEW j \in 1..(n + 1), i <= j PROVE v[j] - v[i] >= j - i
  <2>1. CASE i = n + 1
    <3>1. j = i
      BY <1>7, <2>1, SMT
    <3>2. v[i] \in Int
      BY <1>3, <2>1, SMT
    <3> QED BY <3>1, <3>2, SMT
  <2>2. CASE i \in 1..n /\ j = n + 1
    <3>1. n \in 1..n /\ i <= n
      BY <2>2, SMT
    <3>2. in[n] - in[i] >= n - i /\ in[n] < r /\ in[n] \in Int /\ in[i] \in Int
      BY <1>4, <1>5, <2>2, <3>1
    <3>3. r - in[i] >= n + 1 - i
      BY <2>2, <3>2, SMT
    <3>4. v[j] = r /\ v[i] = in[i]
      BY <1>3, <2>2
    <3>5. r \in Int /\ in[i] \in Int
      BY <1>4, <2>2, SMT
    <3> QED BY <2>2, <3>3, <3>4, <3>5, SMT
  <2>3. CASE i \in 1..n /\ j \in 1..n
    BY <1>3, <1>5, <1>7, <2>3
  <2> QED BY <1>6, <2>1, <2>2, <2>3
<1>8. ASSUME NEW i \in 1..(n + 1), NEW x \in 1..v[i]
      PROVE  x \in Undecodable \/ Has(v, n + 1, x)
  <2>1. n <= Len(in) /\ n <= n + 1 /\ n + 1 \in Nat
    BY <1>2, SMT
  <2>2. CASE i = n + 1
    <3>1. CASE x = r
      <4>1. n + 1 \in 1..(n + 1)
        BY SMT
      <4> QED BY <1>3, <3>1, <4>1 DEF Has
    <3>2. CASE x # r
      <4>1. x \in 1..(r - 1)
        BY <1>3, <2>2, <3>2, SMT
      <4>2. x \in Undecodable \/ Has(in, n, x)
        BY <1>2, <4>1
      <4> QED BY <1>3, <2>1, <4>2, HasLonger
    <3> QED BY <3>1, <3>2
  <2>3. CASE i \in 1..n
    <3>1. v[i] = in[i]
      BY <1>3, <2>3
    <3>2. x \in Undecodable \/ Has(in, n, x)
      BY <1>2, <2>3, <3>1 DEF InputInv
    <3> QED BY <1>3, <2>1, <3>2, HasLonger
  <2> QED BY <1>6, <2>2, <2>3
<1> QED BY <1>2, <1>3, <1>7, <1>8 DEF InputInv

-----------------------------------------------------------------------------
(* The duplicate check and the Input WAL.                                   *)

Recorded(s, in, w) ==
  /\ Len(in) \in Nat /\ Len(w) = Len(in) /\ w \in Seq(Records(1..MaxRequests))
  /\ \A i \in 1..Len(in) : /\ in[i] \in 1..s /\ in[i] \in 1..MaxRequests
                           /\ w[i] = [kind |-> KindOf(in[i]), id |-> in[i]]
                           /\ w[i].kind = KindOf(in[i]) /\ w[i].id = in[i]

\* The Input WAL as a log of records the duplicate check can load.
LEMMA WalType ==
  ASSUME NEW s \in 0..MaxRequests, NEW in, InputInv(s, in)
  PROVE  Recorded(s, in, WalOf(in))
<1>1. in \in Seq((1..s) \ Undecodable)
  BY DEF InputInv
<1>2. PICK n \in Nat : n = Len(in)
  BY <1>1, SMT
<1>3. \A i \in 1..n : in[i] \in 1..s /\ in[i] \in 1..MaxRequests
  <2>1. \A i \in 1..n : in[i] \in 1..s
    BY <1>1, <1>2, SMT
  <2>2. \A x \in 1..s : x \in 1..MaxRequests
    BY RecoveryAssumption, SMT
  <2> QED BY <2>1, <2>2
<1>4. \A i \in 1..n : [kind |-> KindOf(in[i]), id |-> in[i]] \in Records(1..MaxRequests)
  BY <1>3, RecoveryAssumption DEF Records
<1>5. WalOf(in) = [i \in 1..n |-> [kind |-> KindOf(in[i]), id |-> in[i]]]
  BY <1>2 DEF WalOf
<1>6. WalOf(in) \in Seq(Records(1..MaxRequests)) /\ Len(WalOf(in)) = n
  BY <1>4, <1>5, SMT
<1>7. ASSUME NEW i \in 1..n
      PROVE  /\ WalOf(in)[i] = [kind |-> KindOf(in[i]), id |-> in[i]]
             /\ WalOf(in)[i].kind = KindOf(in[i]) /\ WalOf(in)[i].id = in[i]
  <2>1. WalOf(in)[i] = [kind |-> KindOf(in[i]), id |-> in[i]]
    BY <1>5
  <2> QED BY <2>1, SMT
<1> QED BY <1>2, <1>3, <1>6, <1>7 DEF Recorded

\* A request of the last Window records is known.
LEMMA RecentKnown ==
  ASSUME NEW s \in 0..MaxRequests, NEW in, InputInv(s, in), NEW d, DedupOK(d, in),
         NEW i \in 1..Len(in), i > Len(in) - Window
  PROVE  has(d, KindOf(in[i]), in[i])
<1>0. Recorded(s, in, WalOf(in))
  BY WalType
<1>1. PICK first : Known(1..MaxRequests, d, WalOf(in), first)
  BY DEF DedupOK
<1>2. /\ Len(in) \in Nat /\ Len(WalOf(in)) = Len(in) /\ in[i] \in 1..MaxRequests
      /\ WalOf(in)[i].kind = KindOf(in[i]) /\ WalOf(in)[i].id = in[i]
  BY <1>0 DEF Recorded
<1>3. KindOf(in[i]) \in Kinds
  BY <1>2, RecoveryAssumption
<1>4. ~has(d, KindOf(in[i]), in[i]) => Len(in) + 1 - i > Window
  BY <1>1, <1>2, <1>3, UnknownFar
<1> QED BY <1>2, <1>4, WindowAssumption, SMT

\* A request that is known is in the Input WAL.
LEMMA KnownLogged ==
  ASSUME NEW s \in 0..MaxRequests, NEW in, InputInv(s, in), NEW d, DedupOK(d, in),
         NEW k \in Kinds, NEW r, has(d, k, r)
  PROVE  Has(in, Len(in), r)
<1>0. Recorded(s, in, WalOf(in))
  BY WalType
<1>1. PICK first : Known(1..MaxRequests, d, WalOf(in), first)
  BY DEF DedupOK
<1>2. PICK n \in Nat : n = Len(in)
  BY <1>0 DEF Recorded
<1>3. Len(WalOf(in)) = n
  BY <1>2, <1>0 DEF Recorded
<1>4. first \in Nat \ {0} /\ first \in Nat /\ Tracks(d[k], WalOf(in), k, first, n)
  BY <1>1, <1>3 DEF Known
<1>5. r \in d[k].seen
  BY DEF has
<1>6. InLog(WalOf(in), k, first, n, r)
  BY <1>4, <1>5, TracksKnown
<1>7. PICK i \in first..n : WalOf(in)[i].id = r
  BY <1>6 DEF InLog
<1>8. i \in 1..n
  BY <1>4, SMT
<1>9. in[i] = r
  BY <1>2, <1>7, <1>8, <1>0 DEF Recorded
<1> QED BY <1>2, <1>8, <1>9 DEF Has

\* handle: the request goes into the Input WAL and into Engine.dedup.
LEMMA DedupAppend ==
  ASSUME NEW s \in 0..MaxRequests, NEW in, InputInv(s, in), NEW d, DedupOK(d, in),
         NEW r \in (1..s) \ Undecodable, ~has(d, KindOf(r), r)
  PROVE  DedupOK(add(d, KindOf(r), r), Append(in, r))
<1>0. Recorded(s, in, WalOf(in))
  BY WalType
<1>1. PICK first : Known(1..MaxRequests, d, WalOf(in), first)
  BY DEF DedupOK
<1>2. r \in 1..MaxRequests
  BY RecoveryAssumption, SMT
<1>3. KindOf(r) \in Kinds
  BY <1>2, RecoveryAssumption
<1>4. PICK rec : rec = [kind |-> KindOf(r), id |-> r]
  OBVIOUS
<1>5. Known(1..MaxRequests, add(d, KindOf(r), r), Append(WalOf(in), rec), first)
  BY <1>1, <1>2, <1>3, <1>4, KnownNext
<1>6. Append(WalOf(in), rec) = WalOf(Append(in, r))
  <2>1. PICK S : S = (1..s) \ Undecodable
    OBVIOUS
  <2>2. in \in Seq(S) /\ r \in S
    BY <2>1 DEF InputInv
  <2>3. PICK v : v = Append(in, r)
    OBVIOUS
  <2>4. v \in Seq(S) /\ OneLonger(in, r, v)
    BY <2>2, <2>3, LongerAppend
  <2>5. PICK n \in Nat : n = Len(in)
    BY <1>0 DEF Recorded
  <2>6. /\ Len(v) = n + 1 /\ v[n + 1] = r
        /\ \A i \in 1..n : v[i] = in[i]
    BY <2>4, <2>5 DEF OneLonger
  <2>7. /\ WalOf(in) \in Seq(Records(1..MaxRequests)) /\ Len(WalOf(in)) = n
        /\ \A i \in 1..n : WalOf(in)[i] = [kind |-> KindOf(in[i]), id |-> in[i]]
    BY <2>5, <1>0 DEF Recorded
  <2>8. rec \in Records(1..MaxRequests)
    BY <1>2, <1>3, <1>4 DEF Records
  <2>9. PICK x : x = Append(WalOf(in), rec)
    OBVIOUS
  <2>10. PICK w : w = WalOf(in)
    OBVIOUS
  <2>11. /\ x = [i \in 1..(n + 1) |-> x[i]] /\ x[n + 1] = rec /\ \A i \in 1..n : x[i] = w[i]
    <3>1. x \in Seq(Records(1..MaxRequests)) /\ OneLonger(w, rec, x)
      BY <2>7, <2>8, <2>9, <2>10, LongerAppend
    <3>2. x = [i \in 1..Len(x) |-> x[i]]
      BY <3>1, SMT
    <3> QED BY <2>7, <2>10, <3>1, <3>2 DEF OneLonger
  <2>12. \A i \in 1..(n + 1) : x[i] = [kind |-> KindOf(v[i]), id |-> v[i]]
    <3> TAKE i \in 1..(n + 1)
    <3>1. i = n + 1 \/ i \in 1..n
      BY SMT
    <3>2. CASE i = n + 1
      BY <1>4, <2>6, <2>11, <3>2
    <3>3. CASE i \in 1..n
      <4>1. x[i] = [kind |-> KindOf(in[i]), id |-> in[i]]
        BY <2>7, <2>10, <2>11, <3>3
      <4>2. v[i] = in[i]
        BY <2>6, <3>3
      <4> QED BY <4>1, <4>2
    <3> QED BY <3>1, <3>2, <3>3
  <2>13. WalOf(v) = [i \in 1..(n + 1) |-> [kind |-> KindOf(v[i]), id |-> v[i]]]
    BY <2>6 DEF WalOf
  <2> QED BY <2>3, <2>9, <2>11, <2>12, <2>13
<1> QED BY <1>5, <1>6 DEF DedupOK

\* NewEngine: loadDedup of the whole Input WAL.
LEMMA DedupLoad ==
  ASSUME NEW s \in 0..MaxRequests, NEW in, InputInv(s, in)
  PROVE  DedupOK(loadDedup(WalOf(in)), in)
<1>0. Recorded(s, in, WalOf(in))
  BY WalType
<1>1. PICK n \in Nat : n = Len(in)
  BY <1>0 DEF Recorded
<1>2. PICK w : w = WalOf(in)
  OBVIOUS
<1>3. /\ w \in Seq(Records(1..MaxRequests)) /\ Len(w) = n
      /\ \A i \in 1..n : w[i].id = in[i] /\ in[i] \in 1..s
  BY <1>1, <1>2, <1>0 DEF Recorded
<1>4. DedupStart(n) \in Nat \ {0} /\ DedupStart(n) <= DedupStart(n)
  <2>1. DedupStart(n) \in Nat \ {0}
    BY StartWithin
  <2> QED BY <2>1, SMT
<1>5. ASSUME NEW i \in 1..n, NEW j \in 1..n, i < j PROVE w[i] # w[j]
  <2>1. in[j] - in[i] >= j - i
    <3>1. i <= j
      BY <1>5, SMT
    <3> QED BY <1>1, <3>1 DEF InputInv
  <2>2. in[i] \in Int /\ in[j] \in Int
    BY <1>3, SMT
  <2>3. in[i] # in[j]
    BY <1>5, <2>1, <2>2, SMT
  <2> QED BY <1>3, <2>3
<1>6. \A i, j \in DedupStart(n)..n : i \in 1..n /\ j \in 1..n /\ (i # j => i < j \/ j < i)
  BY <1>4, SMT
<1>7. \A i, j \in DedupStart(n)..n : i # j => w[i] # w[j]
  BY <1>5, <1>6
<1>8. /\ loadDedup(w) = [k \in Kinds |-> loadDedup(w)[k]]
      /\ \A k \in Kinds : Tracks(loadDedup(w)[k], w, k, DedupStart(n), n)
  BY <1>3, <1>7, LoadTracks
<1>9. Known(1..MaxRequests, loadDedup(w), w, DedupStart(n))
  BY <1>3, <1>4, <1>8 DEF Known
<1> QED BY <1>2, <1>9 DEF DedupOK

-----------------------------------------------------------------------------
(* Snapshots and truncation.                                                *)

\* cleanupInputWAL never asks for more than loadDedup can spare.
LEMMA TargetBounds ==
  ASSUME NEW f \in Nat
  PROVE  /\ InputTarget(f) \in Nat /\ 1 <= InputTarget(f) /\ InputTarget(f) <= f + 1
         /\ \A g \in Nat : f <= g => InputTarget(f) <= InputTarget(g)
         /\ \A n \in Nat : f <= n => InputTarget(f) <= DedupStart(n)
BY WindowAssumption, SMT DEF InputTarget, DedupStart

\* Rows are snapshots, and their positions are numbers.
LEMMA RowType ==
  ASSUME NEW rows, NEW in, NEW out, RowsInv(rows, in, out)
  PROVE  /\ Len(rows) \in Nat
         /\ \A i \in 1..Len(rows) : rows[i] \in Snapshot /\ rows[i].inputSeq \in Nat
         /\ rows # <<>> => 1 \in 1..Len(rows) /\ rows[1].inputSeq \in Nat
<1>1. rows \in Seq(Snapshot)
  BY DEF RowsInv
<1>2. Len(rows) \in Nat /\ \A i \in 1..Len(rows) : rows[i] \in Snapshot
  BY <1>1, SMT
<1>3. \A i \in 1..Len(rows) : rows[i].inputSeq \in Nat
  BY <1>2, SMT DEF Snapshot
<1>4. rows # <<>> => 1 \in 1..Len(rows)
  BY <1>1, <1>2, SMT
<1> QED BY <1>2, <1>3, <1>4

\* rows2 took the place of rows: its oldest snapshot is no older.
Advances(rows, rows2) ==
  rows # <<>> => rows2 # <<>> /\ rows[1].inputSeq <= rows2[1].inputSeq

\* PruneSnapshots keeps the newest rows, one at least.
LEMMA PruneRows ==
  ASSUME NEW rows, NEW in, NEW out, RowsInv(rows, in, out)
  PROVE  /\ SnapshotInv(Pruned(rows), in, out) /\ Advances(rows, Pruned(rows))
         /\ \A snap : Older(rows, snap) => Older(Pruned(rows), snap)
<1>1. /\ rows \in Seq(Snapshot)
      /\ \A i \in 1..Len(rows) : Sound(rows[i], in, out)
      /\ \A i, j \in 1..Len(rows) : i <= j => rows[i].inputSeq <= rows[j].inputSeq
  BY DEF RowsInv
<1>2. PICK n \in Nat : n = Len(rows)
  BY <1>1, SMT
<1>3. Retention \in Nat /\ Retention >= 1
  BY RecoveryAssumption, SMT
<1> DEFINE o == IF n > Retention THEN n - Retention ELSE 0
<1>4. o \in Nat /\ n - o \in Nat /\ n - o <= Retention /\ (n > 0 => o < n)
  BY <1>3, SMT
<1>5. PICK p : p = Pruned(rows)
  OBVIOUS
<1>6. p = SubSeq(rows, o + 1, n)
  <2>1. p = SubSeq(rows, IF n > Retention THEN n - Retention + 1 ELSE 1, n)
    BY <1>2, <1>5 DEF Pruned
  <2>2. (IF n > Retention THEN n - Retention + 1 ELSE 1) = o + 1
    BY <1>3, SMT
  <2> QED BY <2>1, <2>2
<1> HIDE DEF o
<1>7. /\ p \in Seq(Snapshot) /\ Len(p) = n - o
      /\ \A i \in 1..(n - o) : p[i] = rows[i + o]
  BY <1>1, <1>2, <1>4, <1>6, SMT
<1>8. \A i \in 1..(n - o) : i + o \in 1..n
  BY <1>4, SMT
<1>9. \A i, j \in 1..(n - o) : i <= j => i + o <= j + o
  BY <1>4, SMT
<1>10. \A i \in 1..Len(p) : Sound(p[i], in, out)
  BY <1>1, <1>2, <1>7, <1>8
<1>11. ASSUME NEW i \in 1..Len(p), NEW j \in 1..Len(p), i <= j
       PROVE  p[i].inputSeq <= p[j].inputSeq
  <2>1. p[i] = rows[i + o] /\ p[j] = rows[j + o] /\ i + o \in 1..n /\ j + o \in 1..n
    BY <1>7, <1>8
  <2>2. i + o <= j + o
    BY <1>7, <1>9, <1>11
  <2> QED BY <1>1, <1>2, <2>1, <2>2
<1>12. SnapshotInv(p, in, out)
  BY <1>4, <1>7, <1>10, <1>11 DEF SnapshotInv, RowsInv
<1>13. Advances(rows, p)
  <2> SUFFICES ASSUME rows # <<>> PROVE p # <<>> /\ rows[1].inputSeq <= p[1].inputSeq
    BY DEF Advances
  <2>1. n > 0
    BY <1>1, <1>2, SMT
  <2>2. 1 \in 1..n /\ 1 \in 1..(n - o) /\ 1 + o \in 1..n /\ 1 <= 1 + o
    BY <1>4, <2>1, SMT
  <2>3. p[1] = rows[1 + o]
    BY <1>7, <2>2
  <2>4. rows[1].inputSeq <= rows[1 + o].inputSeq
    BY <1>1, <1>2, <2>2
  <2>5. p # <<>>
    BY <1>7, <2>2, SMT
  <2> QED BY <2>3, <2>4, <2>5
<1>14. \A snap : Older(rows, snap) => Older(p, snap)
  BY <1>2, <1>7, <1>8 DEF Older
<1> QED BY <1>5, <1>12, <1>13, <1>14

\* SaveSnapshot.
LEMMA AppendRows ==
  ASSUME NEW rows, NEW in, NEW out, RowsInv(rows, in, out), NEW snap,
         Sound(snap, in, out), Older(rows, snap)
  PROVE  /\ RowsInv(Append(rows, snap), in, out) /\ Advances(rows, Append(rows, snap))
         /\ Append(rows, snap) # <<>>
         /\ \A x : Older(rows, x) /\ snap.inputSeq <= x.inputSeq => Older(Append(rows, snap), x)
<1>1. /\ rows \in Seq(Snapshot) /\ snap \in Snapshot
      /\ \A i \in 1..Len(rows) : Sound(rows[i], in, out)
      /\ \A i, j \in 1..Len(rows) : i <= j => rows[i].inputSeq <= rows[j].inputSeq
  BY DEF RowsInv, Sound
<1>2. PICK n \in Nat : n = Len(rows)
  BY <1>1, SMT
<1>3. PICK p : p = Append(rows, snap)
  OBVIOUS
<1>4. p \in Seq(Snapshot) /\ OneLonger(rows, snap, p)
  BY <1>1, <1>3, LongerAppend
<1>5. /\ Len(p) = n + 1 /\ p[n + 1] = snap
      /\ \A i \in 1..n : p[i] = rows[i]
  BY <1>2, <1>4 DEF OneLonger
<1>6. \A i \in 1..(n + 1) : i = n + 1 \/ i \in 1..n
  BY SMT
<1>7. \A i \in 1..(n + 1) : Sound(p[i], in, out)
  BY <1>1, <1>2, <1>5, <1>6
<1>8. snap.inputSeq \in Nat
  BY <1>1, SMT DEF Snapshot
<1>9. ASSUME NEW i \in 1..(n + 1), NEW j \in 1..(n + 1), i <= j
      PROVE  p[i].inputSeq <= p[j].inputSeq
  <2>1. CASE j \in 1..n
    <3>1. i \in 1..n
      BY <1>9, <2>1, SMT
    <3> QED BY <1>1, <1>2, <1>5, <1>9, <2>1, <3>1
  <2>2. CASE j = n + 1 /\ i \in 1..n
    BY <1>2, <1>5, <2>2 DEF Older
  <2>3. CASE j = n + 1 /\ i = n + 1
    <3>1. snap.inputSeq <= snap.inputSeq
      BY <1>8, SMT
    <3> QED BY <1>5, <2>3, <3>1
  <2> QED BY <1>6, <2>1, <2>2, <2>3
<1>10. RowsInv(p, in, out)
  BY <1>4, <1>5, <1>7, <1>9 DEF RowsInv
<1>11. p # <<>>
  BY <1>4, <1>5, SMT
<1>12. Advances(rows, p)
  <2> SUFFICES ASSUME rows # <<>> PROVE rows[1].inputSeq <= p[1].inputSeq
    BY <1>11 DEF Advances
  <2>1. 1 \in 1..n /\ 1 <= 1
    BY <1>1, <1>2, SMT
  <2> QED BY <1>1, <1>2, <1>5, <2>1
<1>13. \A x : Older(rows, x) /\ snap.inputSeq <= x.inputSeq => Older(p, x)
  BY <1>2, <1>5, <1>6 DEF Older
<1> QED BY <1>3, <1>10, <1>11, <1>12, <1>13

\* Newer snapshots allow what older ones did.
LEMMA FirstAdvances ==
  ASSUME NEW first, NEW in, NEW rows, FirstInv(first, in, rows), NEW out, RowsInv(rows, in, out),
         NEW rows2, RowsInv(rows2, in, out), Advances(rows, rows2)
  PROVE  FirstInv(first, in, rows2)
<1>1. CASE first = 1
  BY <1>1 DEF FirstInv
<1>2. CASE first # 1
  <2>1. rows # <<>> /\ first <= InputTarget(rows[1].inputSeq) /\ first \in 1..Len(in) + 1
    BY <1>2 DEF FirstInv
  <2>2. rows2 # <<>> /\ rows[1].inputSeq <= rows2[1].inputSeq
    BY <2>1 DEF Advances
  <2>3. rows[1].inputSeq \in Nat /\ rows2[1].inputSeq \in Nat
    BY <2>1, <2>2, RowType
  <2>4. /\ InputTarget(rows[1].inputSeq) <= InputTarget(rows2[1].inputSeq)
        /\ InputTarget(rows[1].inputSeq) \in Nat /\ InputTarget(rows2[1].inputSeq) \in Nat
    BY <2>2, <2>3, TargetBounds
  <2>5. first <= InputTarget(rows2[1].inputSeq)
    BY <2>1, <2>4, SMT
  <2> QED BY <2>1, <2>2, <2>5 DEF FirstInv
<1> QED BY <1>1, <1>2

\* cleanupInputWAL.
LEMMA FirstTruncated ==
  ASSUME NEW first, NEW in, NEW rows, FirstInv(first, in, rows), Len(in) \in Nat,
         NEW out, RowsInv(rows, in, out),
         rows # <<>>, NEW floor \in Nat, floor <= rows[1].inputSeq
  PROVE  FirstInv(TruncateFront(first, Len(in), InputTarget(floor)), in, rows)
<1>1. rows[1].inputSeq \in Nat
  BY RowType
<1>2. /\ InputTarget(floor) \in Nat /\ 1 <= InputTarget(floor)
      /\ InputTarget(floor) <= InputTarget(rows[1].inputSeq)
  BY <1>1, TargetBounds
<1>3. CASE first <= InputTarget(floor) /\ InputTarget(floor) <= Len(in)
  <2>1. TruncateFront(first, Len(in), InputTarget(floor)) = InputTarget(floor)
    BY <1>3 DEF TruncateFront
  <2>2. InputTarget(floor) \in 1..Len(in) + 1
    BY <1>2, <1>3, SMT
  <2> QED BY <1>2, <2>1, <2>2 DEF FirstInv
<1>4. CASE ~(first <= InputTarget(floor) /\ InputTarget(floor) <= Len(in))
  BY <1>4 DEF TruncateFront
<1> QED BY <1>3, <1>4

\* cleanupOutputWAL.
LEMMA CursorTruncated ==
  ASSUME NEW out, NEW first, NEW db, NEW mq, CursorInv(out, first, db, mq), Len(out) \in Nat
  PROVE  CursorInv(out, IF Min({db, mq}) = 0 THEN first
                        ELSE TruncateFront(first, Len(out), Min({db, mq})), db, mq)
<1>1. db \in 0..Len(out) /\ mq \in 0..Len(out)
  BY DEF CursorInv
<1>2. db \in Nat /\ mq \in Nat
  BY <1>1, SMT
<1>3. PICK f : f = Min({db, mq})
  OBVIOUS
<1>4. f \in Nat /\ f <= db
  BY <1>2, <1>3, MinIs
<1>5. CASE f # 0 /\ first <= f /\ f <= Len(out)
  <2>1. TruncateFront(first, Len(out), f) = f
    BY <1>5 DEF TruncateFront
  <2>2. f \in 1..Len(out) + 1
    BY <1>4, <1>5, SMT
  <2> QED BY <1>1, <1>3, <1>4, <1>5, <2>1, <2>2 DEF CursorInv
<1>6. CASE ~(f # 0 /\ first <= f /\ f <= Len(out))
  BY <1>3, <1>6 DEF TruncateFront
<1> QED BY <1>5, <1>6

-----------------------------------------------------------------------------
(* The broker.                                                              *)

\* The types of the broker's part of the state.
LEMMA QueueTypes ==
  ASSUME NEW s, NEW q, NEW t, NEW a, QueueInv(s, q, t, a)
  PROVE  /\ s \in Nat /\ Len(q) \in Nat /\ s - Len(q) \in Nat /\ t \in Nat /\ a \in Nat
         /\ a <= t /\ t <= Len(q) /\ MaxRequests \in Nat /\ s <= MaxRequests
BY RecoveryAssumption, SMT DEF QueueInv

\* The broker takes request s + 1.
LEMMA QueueSend ==
  ASSUME NEW s, NEW q, NEW t, NEW a, QueueInv(s, q, t, a), s < MaxRequests
  PROVE  /\ QueueInv(s + 1, Append(q, s + 1), t, a)
         /\ (s + 1) - Len(Append(q, s + 1)) = s - Len(q)
         /\ \A j \in 1..t : Append(q, s + 1)[j] = q[j]
<1>1. /\ s \in Nat /\ Len(q) \in Nat /\ t \in Nat /\ a \in Nat /\ MaxRequests \in Nat
      /\ a <= t /\ t <= Len(q) /\ s <= MaxRequests
  BY QueueTypes
<1>2. /\ q \in Seq(1..s) /\ Len(q) <= s /\ t <= Prefetch
      /\ \A j \in 1..Len(q) : q[j] = s - Len(q) + j
  BY DEF QueueInv
<1>3. PICK n \in Nat : n = Len(q)
  BY <1>1
<1>4. PICK v : v = Append(q, s + 1)
  OBVIOUS
<1>5. q \in Seq(1..(s + 1)) /\ s + 1 \in 1..(s + 1)
  <2>1. \A x \in 1..s : x \in 1..(s + 1)
    BY <1>1, SMT
  <2> QED BY <1>1, <1>2, <2>1, SMT
<1>6. v \in Seq(1..(s + 1)) /\ OneLonger(q, s + 1, v)
  BY <1>4, <1>5, LongerAppend
<1>7. Len(v) = n + 1 /\ v[n + 1] = s + 1 /\ \A j \in 1..n : v[j] = q[j]
  BY <1>3, <1>6 DEF OneLonger
<1>8. (s + 1) - (n + 1) = s - n /\ s - n + (n + 1) = s + 1 /\ n + 1 <= s + 1 /\ t <= n + 1
  BY <1>1, <1>2, <1>3, SMT
<1>9. \A j \in 1..(n + 1) : j = n + 1 \/ j \in 1..n
  BY SMT
<1>10. \A j \in 1..(n + 1) : v[j] = s - n + j
  BY <1>2, <1>3, <1>7, <1>8, <1>9
<1>11. s + 1 \in 0..MaxRequests
  BY <1>1, SMT
<1>12. QueueInv(s + 1, v, t, a)
  BY <1>1, <1>2, <1>6, <1>7, <1>8, <1>10, <1>11 DEF QueueInv
<1>13. \A j \in 1..t : j \in 1..n
  BY <1>1, <1>3, SMT
<1> QED BY <1>3, <1>4, <1>7, <1>8, <1>12, <1>13

\* The broker forgets its oldest request.
LEMMA QueueSettle ==
  ASSUME NEW s, NEW q, NEW t, NEW a, QueueInv(s, q, t, a), a > 0
  PROVE  /\ QueueInv(s, Tail(q), t - 1, a - 1)
         /\ Len(Tail(q)) = Len(q) - 1 /\ s - Len(Tail(q)) = s - Len(q) + 1
         /\ q[1] = s - Len(q) + 1 /\ 1 \in 1..a
         /\ \A j \in 1..(Len(q) - 1) : Tail(q)[j] = q[j + 1]
<1>1. /\ s \in Nat /\ Len(q) \in Nat /\ t \in Nat /\ a \in Nat
      /\ a <= t /\ t <= Len(q)
  BY QueueTypes
<1>2. /\ q \in Seq(1..s) /\ Len(q) <= s /\ t <= Prefetch /\ s \in 0..MaxRequests
      /\ \A j \in 1..Len(q) : q[j] = s - Len(q) + j
  BY DEF QueueInv
<1>3. PICK n \in Nat : n = Len(q)
  BY <1>1
<1>4. n >= 1
  BY <1>1, <1>3, SMT
<1>5. PICK v : v = Tail(q)
  OBVIOUS
<1>6. q # <<>>
  BY <1>2, <1>3, <1>4, SMT
<1>7. v \in Seq(1..s) /\ Len(v) = n - 1 /\ \A j \in 1..(n - 1) : v[j] = q[j + 1]
  BY <1>2, <1>3, <1>5, <1>6, SMT
<1>8. \A j \in 1..(n - 1) : j + 1 \in 1..n /\ s - n + (j + 1) = s - (n - 1) + j
  BY <1>1, SMT
<1>9. \A j \in 1..(n - 1) : v[j] = s - (n - 1) + j
  BY <1>2, <1>3, <1>7, <1>8
<1>10. /\ t - 1 \in Nat /\ a - 1 \in Nat /\ a - 1 <= t - 1 /\ t - 1 <= n - 1 /\ t - 1 <= Prefetch
       /\ n - 1 <= s /\ 1 \in 1..a /\ 1 \in 1..n /\ s - (n - 1) = s - n + 1
  <2>1. n <= s /\ t <= Prefetch /\ Prefetch \in 1..Window
    BY <1>2, <1>3, RecoveryAssumption
  <2> QED BY <1>1, <1>3, <2>1, WindowAssumption, SMT
<1>11. QueueInv(s, v, t - 1, a - 1)
  BY <1>2, <1>7, <1>9, <1>10 DEF QueueInv
<1> QED BY <1>2, <1>3, <1>5, <1>7, <1>10, <1>11

\* The Input WAL does not depend on what is sent later.
LEMMA InputSend ==
  ASSUME NEW s \in Nat, NEW in, InputInv(s, in)
  PROVE  InputInv(s + 1, in)
<1>1. PICK S : S = (1..s) \ Undecodable
  OBVIOUS
<1>2. PICK T : T = (1..(s + 1)) \ Undecodable
  OBVIOUS
<1>3. in \in Seq(S)
  BY <1>1 DEF InputInv
<1>4. S \subseteq T
  BY <1>1, <1>2, SMT
<1>5. in \in Seq(T)
  BY <1>3, <1>4, SMT
<1> QED BY <1>2, <1>5 DEF InputInv

\* TakenInv reads only the requests taken.
LEMMA TakenSame ==
  ASSUME NEW q, NEW v, NEW t, \A j \in 1..t : v[j] = q[j], NEW in, NEW n, TakenInv(q, t, in, n)
  PROVE  TakenInv(v, t, in, n)
BY DEF TakenInv

\* The first delivery leaves the queue.
LEMMA TakenTail ==
  ASSUME NEW q, NEW v, NEW t \in Nat, t <= Len(q), Len(q) \in Nat, NEW in, NEW n,
         \A j \in 1..(Len(q) - 1) : v[j] = q[j + 1], TakenInv(q, t, in, n)
  PROVE  TakenInv(v, t - 1, in, n)
<1>1. \A j \in 1..(t - 1) : j \in 1..(Len(q) - 1) /\ j + 1 \in 1..t
  BY SMT
<1> QED BY <1>1 DEF TakenInv

\* What the engine works on does not change when the queue moves.
Moves(q, t, a, v, u, b) ==
  /\ t = 0 /\ a = 0 => u = 0 /\ b = 0
  /\ t = a => u = b
  /\ t = a + 1 => u = b + 1 /\ v[u] = q[t]

\* EngineInv reads little of the queue.
LEMMA EngineQueue ==
  ASSUME NEW e, NEW in, NEW first, NEW out, NEW q, NEW t, NEW a,
         EngineInv(e, in, first, out, q, t, a), NEW v, NEW u, NEW b, Moves(q, t, a, v, u, b)
  PROVE  EngineInv(e, in, first, out, v, u, b)
<1>1. CASE e = Down /\ t = 0 /\ a = 0
  BY <1>1 DEF EngineInv, Moves
<1>2. CASE Memory(e) /\ DedupOK(e.dedup, in) /\ HoldsInv(e, in, first, out)
           /\ WorksInv(e, in, q, t, a)
  <2>1. WorksInv(e, in, v, u, b)
    BY <1>2 DEF WorksInv, Moves
  <2> QED BY <1>2, <2>1 DEF EngineInv
<1> QED BY <1>1, <1>2 DEF EngineInv, Moves

\* A request sent changes the end of the queue only.
LEMMA SendInv == RecoveryInv /\ Send => RecoveryInv'
<1> SUFFICES ASSUME RecoveryInv, Send PROVE RecoveryInv'
  OBVIOUS
<1>1. /\ sent < MaxRequests /\ sent' = sent + 1 /\ queue' = Append(queue, sent + 1)
      /\ UNCHANGED <<taken, acked, logs, engine, saving, cursors>>
  BY DEF Send
<1>2. /\ QueueInv(sent, queue, taken, acked)
      /\ InputInv(sent, input) /\ ReachInv(sent, queue, input)
      /\ SettledInv(sent, queue, input, Len(output))
      /\ TakenInv(queue, acked, input, Len(output)) /\ TakenInv(queue, taken, input, Len(input))
      /\ EngineInv(engine, input, inputFirst, output, queue, taken, acked)
  BY DEF RecoveryInv
<1>3. sent \in Nat /\ taken \in Nat /\ acked \in Nat /\ acked <= taken
  BY <1>2, QueueTypes
<1>4. /\ QueueInv(sent', queue', taken, acked) /\ sent' - Len(queue') = sent - Len(queue)
      /\ \A j \in 1..taken : queue'[j] = queue[j]
  BY <1>1, <1>2, QueueSend
<1>5. InputInv(sent', input)
  BY <1>1, <1>2, <1>3, InputSend
<1>6. ReachInv(sent', queue', input) /\ SettledInv(sent', queue', input, Len(output))
  BY <1>2, <1>4 DEF ReachInv, SettledInv
<1>7. TakenInv(queue', taken, input, Len(input))
  BY <1>2, <1>4, TakenSame
<1>8. TakenInv(queue', acked, input, Len(output))
  <2>1. \A j \in 1..acked : j \in 1..taken
    BY <1>3, SMT
  <2> QED BY <1>2, <1>4, <2>1, TakenSame
<1>9. EngineInv(engine, input, inputFirst, output, queue', taken, acked)
  <2>1. taken = acked + 1 => taken \in 1..taken
    BY <1>3, SMT
  <2>2. Moves(queue, taken, acked, queue', taken, acked)
    BY <1>4, <2>1 DEF Moves
  <2> QED BY <1>2, <2>2, EngineQueue
<1> QED BY <1>1, <1>4, <1>5, <1>6, <1>7, <1>8, <1>9 DEF RecoveryInv, logs, saving, cursors

\* The broker drops the first request once it is acknowledged.
LEMMA BrokerSettlesInv == RecoveryInv /\ BrokerSettles => RecoveryInv'
<1> SUFFICES ASSUME RecoveryInv, BrokerSettles PROVE RecoveryInv'
  OBVIOUS
<1>1. /\ acked > 0 /\ queue' = Tail(queue) /\ taken' = taken - 1 /\ acked' = acked - 1
      /\ UNCHANGED <<sent, logs, engine, saving, cursors>>
  BY DEF BrokerSettles
<1>2. /\ QueueInv(sent, queue, taken, acked)
      /\ InputInv(sent, input) /\ ReachInv(sent, queue, input)
      /\ SettledInv(sent, queue, input, Len(output))
      /\ TakenInv(queue, acked, input, Len(output)) /\ TakenInv(queue, taken, input, Len(input))
      /\ EngineInv(engine, input, inputFirst, output, queue, taken, acked)
  BY DEF RecoveryInv
<1>3. /\ sent \in Nat /\ taken \in Nat /\ acked \in Nat /\ acked <= taken /\ taken <= Len(queue)
      /\ Len(queue) \in Nat /\ sent - Len(queue) \in Nat
  BY <1>2, QueueTypes
<1>4. /\ QueueInv(sent, queue', taken', acked') /\ sent - Len(queue') = sent - Len(queue) + 1
      /\ queue[1] = sent - Len(queue) + 1 /\ 1 \in 1..acked
      /\ \A j \in 1..(Len(queue) - 1) : queue'[j] = queue[j + 1]
  BY <1>1, <1>2, QueueSettle
<1>5. PICK b \in Nat : b = sent - Len(queue)
  BY <1>3
<1>6. ReachInv(sent, queue', input)
  <2> SUFFICES ASSUME NEW i \in 1..Len(input) PROVE input[i] <= sent - Len(queue') + Prefetch
    BY DEF ReachInv
  <2>1. input[i] <= b + Prefetch
    BY <1>2, <1>5 DEF ReachInv
  <2>2. input[i] \in Int
    BY <1>2, <1>3, SMT DEF InputInv
  <2>3. input[i] <= b + 1 + Prefetch
    BY <2>1, <2>2, RecoveryAssumption, WindowAssumption, SMT
  <2> QED BY <1>4, <1>5, <2>3
<1>7. SettledInv(sent, queue', input, Len(output))
  <2> SUFFICES ASSUME NEW r \in 1..(b + 1) PROVE r \in Undecodable \/ Has(input, Len(output), r)
    BY <1>4, <1>5 DEF SettledInv
  <2>1. r \in 1..b \/ r = b + 1
    BY SMT
  <2>2. CASE r \in 1..b
    BY <1>2, <1>5, <2>2 DEF SettledInv
  <2>3. CASE r = b + 1
    BY <1>2, <1>4, <1>5, <2>3 DEF TakenInv
  <2> QED BY <2>1, <2>2, <2>3
<1>8. TakenInv(queue', taken', input, Len(input))
  BY <1>1, <1>2, <1>3, <1>4, TakenTail
<1>9. TakenInv(queue', acked', input, Len(output))
  <2>1. acked <= Len(queue)
    BY <1>3, SMT
  <2> QED BY <1>1, <1>2, <1>3, <1>4, <2>1, TakenTail
<1>10. EngineInv(engine, input, inputFirst, output, queue', taken', acked')
  <2>1. /\ ~(taken = 0 /\ acked = 0)
        /\ taken = acked => taken - 1 = acked - 1
        /\ taken = acked + 1 => /\ taken - 1 = (acked - 1) + 1 /\ (taken - 1) + 1 = taken
                                /\ taken - 1 \in 1..(Len(queue) - 1)
    BY <1>1, <1>3, SMT
  <2>2. Moves(queue, taken, acked, queue', taken', acked')
    BY <1>1, <1>4, <2>1 DEF Moves
  <2> QED BY <1>2, <2>2, EngineQueue
<1> QED BY <1>1, <1>2, <1>4, <1>6, <1>7, <1>8, <1>9, <1>10 DEF RecoveryInv, logs, saving, cursors

-----------------------------------------------------------------------------
(* The start, the consumers of the Output WAL and the end of the process.   *)

\* The invariant holds at the first start.
LEMMA RecoveryInit == Init => RecoveryInv
<1> SUFFICES ASSUME Init PROVE RecoveryInv
  OBVIOUS
<1>1. /\ sent = 0 /\ queue = <<>> /\ taken = 0 /\ acked = 0
      /\ input = <<>> /\ inputFirst = 1 /\ output = <<>> /\ outputFirst = 1
      /\ engine = Down /\ ticked = <<>> /\ saver = Waiting /\ snapshots = <<>>
      /\ dbCursor = 0 /\ mqCursor = 0
  BY DEF Init
<1>2. /\ Len(<<>>) = 0 /\ \A S : <<>> \in Seq(S)
      /\ \A x \in 1..0 : FALSE
  BY SMT
<1>3. QueueInv(sent, queue, taken, acked)
  <2>1. /\ 0 \in 0..MaxRequests /\ 0 <= 0 /\ 0 <= Prefetch /\ 0 \in Nat
    BY RecoveryAssumption, SMT
  <2> QED BY <1>1, <1>2, <2>1 DEF QueueInv
<1>4. InputInv(sent, input) /\ ReachInv(sent, queue, input)
  BY <1>1, <1>2 DEF InputInv, ReachInv
<1>5. /\ SettledInv(sent, queue, input, Len(output))
      /\ TakenInv(queue, acked, input, Len(output)) /\ TakenInv(queue, taken, input, Len(input))
  <2>1. 0 - 0 = 0
    BY SMT
  <2> QED BY <1>1, <1>2, <2>1 DEF SettledInv, TakenInv
<1>6. OutputInv(input, output)
  <2>1. 0 <= 0 /\ 0 <= 0 + 1 /\ 0 \in Nat /\ 0 \in 0..0 /\ 0..0 = {0}
    BY SMT
  <2>2. PICK u : u = [i \in 0..0 |-> 0]
    OBVIOUS
  <2>3. u \in [0..0 -> Nat] /\ u[0] = 0
    BY <2>1, <2>2
  <2>4. Numbered(output, 0)
    BY <1>1, <1>2, <2>3 DEF Numbered, NumberedBy
  <2> QED BY <1>1, <1>2, <2>1, <2>4 DEF OutputInv
<1>7. CursorInv(output, outputFirst, dbCursor, mqCursor)
  <2>1. 0 \in 0..0 /\ 1 \in 1..(0 + 1)
    BY SMT
  <2> QED BY <1>1, <1>2, <2>1 DEF CursorInv
<1>8. SnapshotInv(snapshots, input, output) /\ FirstInv(inputFirst, input, snapshots)
  <2>1. 1 \in 1..(0 + 1) /\ 0 <= Retention
    BY RecoveryAssumption, SMT
  <2> QED BY <1>1, <1>2, <2>1 DEF SnapshotInv, RowsInv, FirstInv
<1>9. /\ SavingInv(snapshots, input, output, ticked, saver)
      /\ EngineInv(engine, input, inputFirst, output, queue, taken, acked)
      /\ IdleInv(engine, ticked, saver)
  BY <1>1 DEF SavingInv, EngineInv, IdleInv
<1> QED BY <1>1, <1>3, <1>4, <1>5, <1>6, <1>7, <1>8, <1>9 DEF RecoveryInv

\* The database consumer moves its cursor within the Output WAL.
LEMMA ProjectInv == RecoveryInv /\ Project => RecoveryInv'
<1> SUFFICES ASSUME RecoveryInv, Project PROVE RecoveryInv'
  OBVIOUS
<1>1. /\ dbCursor' \in (dbCursor + 1)..Len(output)
      /\ UNCHANGED <<broker, logs, engine, saving, mqCursor>>
  BY DEF Project
<1>2. OutputInv(input, output) /\ CursorInv(output, outputFirst, dbCursor, mqCursor)
  BY DEF RecoveryInv
<1>3. Len(output) \in Nat
  BY <1>2, SMT DEF OutputInv
<1>4. dbCursor' \in 0..Len(output) /\ (outputFirst = 1 \/ outputFirst <= dbCursor')
  BY <1>1, <1>2, <1>3, SMT DEF CursorInv
<1>5. CursorInv(output, outputFirst, dbCursor', mqCursor)
  BY <1>2, <1>4 DEF CursorInv
<1> QED BY <1>1, <1>5 DEF RecoveryInv, broker, logs, saving

\* The broker consumer moves its cursor within the Output WAL.
LEMMA PublishInv == RecoveryInv /\ Publish => RecoveryInv'
<1> SUFFICES ASSUME RecoveryInv, Publish PROVE RecoveryInv'
  OBVIOUS
<1>1. /\ mqCursor' \in (mqCursor + 1)..Len(output)
      /\ UNCHANGED <<broker, logs, engine, saving, dbCursor>>
  BY DEF Publish
<1>2. OutputInv(input, output) /\ CursorInv(output, outputFirst, dbCursor, mqCursor)
  BY DEF RecoveryInv
<1>3. Len(output) \in Nat
  BY <1>2, SMT DEF OutputInv
<1>4. mqCursor' \in 0..Len(output)
  BY <1>1, <1>2, <1>3, SMT DEF CursorInv
<1>5. CursorInv(output, outputFirst, dbCursor, mqCursor')
  BY <1>2, <1>4 DEF CursorInv
<1> QED BY <1>1, <1>5 DEF RecoveryInv, broker, logs, saving

\* A crash keeps what is on disk, and the broker gets back what was taken.
LEMMA CrashInv == RecoveryInv /\ Crash => RecoveryInv'
<1> SUFFICES ASSUME RecoveryInv, Crash PROVE RecoveryInv'
  OBVIOUS
<1>1. /\ engine' = Down /\ ticked' = <<>> /\ saver' = Waiting /\ taken' = 0 /\ acked' = 0
      /\ UNCHANGED <<sent, queue, logs, snapshots, cursors>>
  BY DEF Crash
<1>2. QueueInv(sent, queue, taken, acked)
  BY DEF RecoveryInv
<1>3. QueueInv(sent, queue, 0, 0)
  <2>1. Len(queue) \in Nat
    BY <1>2, QueueTypes
  <2>2. 0 \in Nat /\ 0 <= 0 /\ 0 <= Len(queue) /\ 0 <= Prefetch
    BY <2>1, RecoveryAssumption, SMT
  <2> QED BY <1>2, <2>2 DEF QueueInv
<1>4. \A in, n : TakenInv(queue, 0, in, n)
  <2>1. \A j \in 1..0 : FALSE
    BY SMT
  <2> QED BY <2>1 DEF TakenInv
<1>5. SavingInv(snapshots, input, output, <<>>, Waiting)
  BY DEF SavingInv
<1>6. EngineInv(Down, input, inputFirst, output, queue, 0, 0)
  BY DEF EngineInv
<1>7. IdleInv(Down, <<>>, Waiting)
  BY DEF IdleInv
<1> QED BY <1>1, <1>3, <1>4, <1>5, <1>6, <1>7 DEF RecoveryInv, logs, cursors

-----------------------------------------------------------------------------
(* The start of the engine.                                                 *)

Fields(e, p, r, st, i, o, m, d) ==
  /\ e.pc = p /\ e.request = r /\ e.state = st /\ e.inputSeq = i
  /\ e.outputAppliedSeq = o /\ e.lastTradeID = m /\ e.dedup = d
  /\ e = Mem(e.pc, e.request, e.state, e.inputSeq, e.outputAppliedSeq, e.lastTradeID, e.dedup)

\* The fields of the engine's memory.
LEMMA MemFields ==
  ASSUME NEW p, NEW r, NEW st, NEW i, NEW o, NEW m, NEW d
  PROVE  Fields(Mem(p, r, st, i, o, m, d), p, r, st, i, o, m, d)
BY DEF Mem, Fields

\* A sequence over a set is one over a larger set.
LEMMA SeqSub ==
  ASSUME NEW S, NEW T, S \subseteq T, NEW q \in Seq(S)
  PROVE  q \in Seq(T) /\ Len(q) \in Nat /\ \A i \in 1..Len(q) : q[i] \in T
BY SMT

\* A sequence is one over any set that has its elements.
LEMMA SeqIn ==
  ASSUME NEW S, NEW T, NEW q \in Seq(S), \A i \in 1..Len(q) : q[i] \in T
  PROVE  q \in Seq(T)
BY SMT

\* An engine that is not down has a memory.
Awake ==
  /\ Memory(engine) /\ DedupOK(engine.dedup, input) /\ HoldsInv(engine, input, inputFirst, output)
  /\ WorksInv(engine, input, queue, taken, acked)

\* What the invariant says of a process that is not down.
LEMMA Starts ==
  ASSUME RecoveryInv, engine.pc # "down"
  PROVE  Awake
<1>1. Down.pc = "down"
  BY DEF Down
<1>2. engine # Down
  BY <1>1
<1> QED BY <1>2 DEF RecoveryInv, EngineInv, Awake

\* The types of the logs.
LEMMA LogTypes ==
  ASSUME RecoveryInv
  PROVE  /\ sent \in Nat /\ sent \in 0..MaxRequests /\ Len(input) \in Nat /\ Len(output) \in Nat
         /\ Len(output) <= Len(input) /\ Len(input) <= Len(output) + 1
         /\ output \in Seq(Envelope) /\ input \in Seq(1..sent) /\ input \in Seq(1..MaxRequests)
         /\ \A i \in 1..Len(input) : input[i] \in 1..MaxRequests
<1>1. /\ QueueInv(sent, queue, taken, acked) /\ InputInv(sent, input) /\ OutputInv(input, output)
  BY DEF RecoveryInv
<1>2. sent \in Nat /\ sent \in 0..MaxRequests
  BY <1>1, QueueTypes DEF QueueInv
<1>3. PICK S : S = (1..sent) \ Undecodable
  OBVIOUS
<1>4. input \in Seq(S)
  BY <1>1, <1>3 DEF InputInv
<1>5. S \subseteq 1..sent /\ S \subseteq 1..MaxRequests
  BY <1>2, <1>3, RecoveryAssumption, SMT
<1>6. /\ Len(input) \in Nat /\ input \in Seq(1..sent) /\ input \in Seq(1..MaxRequests)
      /\ \A i \in 1..Len(input) : input[i] \in 1..MaxRequests
  BY <1>4, <1>5, SeqSub
<1>7. output \in Seq(Envelope) /\ Len(output) <= Len(input) /\ Len(input) <= Len(output) + 1
  BY <1>1 DEF OutputInv, Envelope
<1>8. Len(output) \in Nat
  BY <1>7, SMT
<1> QED BY <1>2, <1>6, <1>7, <1>8

\* NewEngine finds every record loadDedup reads.
LEMMA DedupReadable ==
  ASSUME RecoveryInv
  PROVE  inputFirst \in Nat /\ inputFirst <= DedupStart(Len(input))
<1>1. FirstInv(inputFirst, input, snapshots) /\ RowsInv(snapshots, input, output)
  BY DEF RecoveryInv, SnapshotInv
<1>2. PICK n \in Nat, o \in Nat : n = Len(input) /\ o = Len(output) /\ o <= n
  BY LogTypes
<1>3. inputFirst \in Nat
  <2>1. inputFirst \in 1..(n + 1)
    BY <1>1, <1>2 DEF FirstInv
  <2> QED BY <2>1, SMT
<1>4. DedupStart(n) \in Nat \ {0}
  BY StartWithin
<1>5. CASE inputFirst = 1
  <2>1. 1 <= DedupStart(n)
    BY <1>4, SMT
  <2> QED BY <1>2, <1>3, <1>5, <2>1
<1>6. CASE inputFirst # 1
  <2>1. snapshots # <<>> /\ inputFirst <= InputTarget(snapshots[1].inputSeq)
    BY <1>1, <1>6 DEF FirstInv
  <2>2. 1 \in 1..Len(snapshots) /\ snapshots[1].inputSeq \in Nat
    BY <1>1, <2>1, RowType
  <2>3. snapshots[1].inputSeq <= o
    BY <1>1, <1>2, <2>2 DEF RowsInv, Sound
  <2>4. snapshots[1].inputSeq <= n
    BY <1>2, <2>2, <2>3, SMT
  <2>5. /\ InputTarget(snapshots[1].inputSeq) <= DedupStart(n)
        /\ InputTarget(snapshots[1].inputSeq) \in Nat
    BY <2>2, <2>4, TargetBounds
  <2>6. inputFirst <= DedupStart(n)
    BY <1>3, <1>4, <2>1, <2>5, SMT
  <2> QED BY <1>2, <1>3, <2>6
<1> QED BY <1>5, <1>6

\* NewEngine begins with an empty ledger and the ids of the last records.
LEMMA NewEngineInv == RecoveryInv /\ NewEngine => RecoveryInv'
<1> SUFFICES ASSUME RecoveryInv, NewEngine PROVE RecoveryInv'
  OBVIOUS
<1> DEFINE w == IF output = <<>> THEN 0 ELSE output[Len(output)].inputSeq
           d == loadDedup(WalOf(input))
<1>1. /\ InputInv(sent, input) /\ OutputInv(input, output)
      /\ EngineInv(engine, input, inputFirst, output, queue, taken, acked)
      /\ IdleInv(engine, ticked, saver)
  BY DEF RecoveryInv
<1>2. /\ sent \in 0..MaxRequests /\ Len(input) \in Nat /\ Len(output) \in Nat
  BY LogTypes
<1>3. [i \in 1..Len(input) |-> WalRecord(i)] = WalOf(input)
  BY DEF WalOf, WalRecord
<1>4. ~(Len(input) > 0 /\ DedupStart(Len(input)) < inputFirst)
  <2>1. DedupStart(Len(input)) \in Nat
    BY <1>2, StartWithin
  <2>2. inputFirst \in Nat /\ inputFirst <= DedupStart(Len(input))
    BY DedupReadable
  <2> QED BY <2>1, <2>2, SMT
<1>5. engine = Down /\ engine' = Mem("trade ids", 0, <<>>, 0, w, 0, d)
      /\ UNCHANGED <<broker, logs, saving, cursors>>
  BY <1>3, <1>4 DEF NewEngine, Mem
<1>6. w = Len(output)
  <2>1. CASE output = <<>>
    BY <2>1, SMT
  <2>2. CASE output # <<>>
    <3>1. Len(output) \in 1..Len(output)
      BY <1>1, <1>2, <2>2, SMT DEF OutputInv
    <3> QED BY <1>1, <2>2, <3>1 DEF OutputInv
  <2> QED BY <2>1, <2>2
<1>7. DedupOK(d, input)
  BY <1>1, <1>2, DedupLoad
<1>8. taken = 0 /\ acked = 0
  <2>1. Down.pc \notin Booting \cup Consuming
    BY DEF Down, Booting, Consuming
  <2> QED BY <1>1, <1>5, <2>1 DEF EngineInv, Memory
<1>9. ticked = <<>> /\ saver = Waiting
  <2>1. Down.pc \notin Consuming
    BY DEF Down, Consuming
  <2> QED BY <1>1, <1>5, <2>1 DEF IdleInv
<1> HIDE DEF w, d
<1>10. Fields(engine', "trade ids", 0, <<>>, 0, w, 0, d)
  BY <1>5, MemFields
<1>11. Memory(engine')
  <2>1. 0 \in Nat /\ <<>> \in Seq(1..MaxRequests)
    BY SMT
  <2> QED BY <1>2, <1>6, <1>10, <2>1 DEF Memory, Booting, Fields
<1>12. HoldsInv(engine', input, inputFirst, output)
  <2>1. Len(output) <= Len(output)
    BY <1>2, SMT
  <2> QED BY <1>6, <1>10, <2>1 DEF HoldsInv, Fields
<1>13. WorksInv(engine', input, queue, taken, acked)
  BY <1>8, <1>10 DEF WorksInv, Fields
<1>14. EngineInv(engine', input, inputFirst, output, queue, taken, acked)
  BY <1>7, <1>10, <1>11, <1>12, <1>13 DEF EngineInv, Fields
<1>15. IdleInv(engine', ticked, saver)
  BY <1>9 DEF IdleInv
<1> QED BY <1>5, <1>14, <1>15 DEF RecoveryInv, broker, logs, saving, cursors

\* initializeTradeID finds the last trade id there is, in the Output WAL or the database.
LEMMA initializeTradeIDInv == RecoveryInv /\ initializeTradeID => RecoveryInv'
<1> SUFFICES ASSUME RecoveryInv, initializeTradeID PROVE RecoveryInv'
  OBVIOUS
<1>1. /\ engine.pc = "trade ids"
      /\ engine' = [engine EXCEPT !.pc = "restore", !.lastTradeID = RecoveredTradeID]
      /\ UNCHANGED <<broker, logs, saving, cursors>>
  BY DEF initializeTradeID
<1>2. Awake
  BY <1>1, Starts
<1>3. /\ OutputInv(input, output) /\ CursorInv(output, outputFirst, dbCursor, mqCursor)
      /\ IdleInv(engine, ticked, saver)
  BY DEF RecoveryInv
<1>4. output \in Seq(Envelope)
  BY LogTypes
<1>5. PICK m \in Nat : Numbered(output, m)
  BY <1>3 DEF OutputInv
<1>6. RecoveredTradeID = m
  BY <1>3, <1>4, <1>5, RecoveredIs
<1>7. engine' = Mem("restore", engine.request, engine.state, engine.inputSeq,
                    engine.outputAppliedSeq, m, engine.dedup)
  BY <1>1, <1>2, <1>6 DEF Awake, Memory, Mem
<1>8. Fields(engine', "restore", engine.request, engine.state, engine.inputSeq,
             engine.outputAppliedSeq, m, engine.dedup)
  BY <1>7, MemFields
<1>9. Memory(engine')
  BY <1>2, <1>5, <1>8 DEF Awake, Memory, Fields, Booting
<1>10. HoldsInv(engine', input, inputFirst, output)
  BY <1>1, <1>2, <1>5, <1>8 DEF Awake, HoldsInv, Fields
<1>11. WorksInv(engine', input, queue, taken, acked)
  BY <1>1, <1>2, <1>8 DEF Awake, WorksInv, Fields, Booting
<1>12. EngineInv(engine', input, inputFirst, output, queue, taken, acked)
  BY <1>2, <1>8, <1>9, <1>10, <1>11 DEF EngineInv, Awake, Fields
<1>13. IdleInv(engine', ticked, saver)
  BY <1>1, <1>3 DEF IdleInv, Consuming
<1> QED BY <1>1, <1>12, <1>13 DEF RecoveryInv, broker, logs, saving, cursors

\* RestoreSnapshot loads a prefix of the requests applied.
LEMMA RestoreSnapshotInv == RecoveryInv /\ RestoreSnapshot => RecoveryInv'
<1> SUFFICES ASSUME RecoveryInv, RestoreSnapshot PROVE RecoveryInv'
  OBVIOUS
<1>1. /\ engine.pc = "restore"
      /\ UNCHANGED <<broker, logs, saving, cursors>>
  BY DEF RestoreSnapshot
<1>2. Awake
  BY <1>1, Starts
<1>3. /\ RowsInv(snapshots, input, output) /\ FirstInv(inputFirst, input, snapshots)
      /\ IdleInv(engine, ticked, saver)
  BY DEF RecoveryInv, SnapshotInv
<1>4. Len(input) \in Nat /\ Len(output) \in Nat
  BY LogTypes
<1>5. Len(snapshots) \in Nat
  BY <1>3, RowType
<1>6. engine.inputSeq = 0 /\ engine.state = <<>> /\ engine.outputAppliedSeq = Len(output)
  BY <1>1, <1>2 DEF Awake, HoldsInv
<1>7. \E st, i : /\ engine' = Mem("replay", engine.request, st, i, engine.outputAppliedSeq,
                                  engine.lastTradeID, engine.dedup)
                 /\ Prefix(st, input, i) /\ inputFirst <= i + 1 /\ i <= Len(output)
  <2>1. CASE Len(snapshots) = 0
    <3>1. engine' = [engine EXCEPT !.pc = "replay"]
      BY <2>1 DEF RestoreSnapshot
    <3>2. engine' = Mem("replay", engine.request, <<>>, 0, engine.outputAppliedSeq,
                        engine.lastTradeID, engine.dedup)
      BY <1>2, <1>6, <3>1 DEF Awake, Memory, Mem
    <3>3. snapshots = <<>>
      BY <1>3, <2>1, SMT DEF RowsInv
    <3>4. inputFirst = 1
      BY <1>3, <3>3 DEF FirstInv
    <3>5. Prefix(<<>>, input, 0)
      BY <1>4, SMT DEF Prefix
    <3>6. inputFirst <= 0 + 1 /\ 0 <= Len(output)
      BY <1>4, <3>4, SMT
    <3> QED BY <3>2, <3>5, <3>6
  <2>2. CASE Len(snapshots) # 0
    <3>1. PICK n \in 1..Len(snapshots) : n = Len(snapshots)
      BY <1>5, <2>2, SMT
    <3>2. PICK st, i : st = snapshots[n].state /\ i = snapshots[n].inputSeq
      OBVIOUS
    <3>3. engine' = [engine EXCEPT !.pc = "replay", !.state = st, !.inputSeq = i]
      BY <2>2, <3>1, <3>2 DEF RestoreSnapshot
    <3>4. engine' = Mem("replay", engine.request, st, i, engine.outputAppliedSeq,
                        engine.lastTradeID, engine.dedup)
      BY <1>2, <3>3 DEF Awake, Memory, Mem
    <3>5. Prefix(st, input, i) /\ i <= Len(output)
      BY <1>3, <3>1, <3>2 DEF RowsInv, Sound
    <3>6. i \in Nat
      BY <3>5 DEF Prefix
    <3>7. inputFirst <= i + 1
      <4>1. CASE inputFirst = 1
        BY <3>6, <4>1, SMT
      <4>2. CASE inputFirst # 1
        <5>1. /\ snapshots # <<>> /\ inputFirst <= InputTarget(snapshots[1].inputSeq)
              /\ inputFirst \in 1..Len(input) + 1
          BY <1>3, <4>2 DEF FirstInv
        <5>2. 1 \in 1..Len(snapshots) /\ snapshots[1].inputSeq \in Nat
          BY <1>3, <5>1, RowType
        <5>3. 1 <= n
          BY <1>5, SMT
        <5>4. snapshots[1].inputSeq <= i
          BY <1>3, <3>1, <3>2, <5>2, <5>3 DEF RowsInv
        <5>5. /\ InputTarget(snapshots[1].inputSeq) \in Nat
              /\ InputTarget(snapshots[1].inputSeq) <= snapshots[1].inputSeq + 1
          BY <5>2, TargetBounds
        <5> QED BY <1>4, <3>6, <5>1, <5>2, <5>4, <5>5, SMT
      <4> QED BY <4>1, <4>2
    <3> QED BY <3>4, <3>5, <3>7
  <2> QED BY <2>1, <2>2
<1>8. PICK st, i : /\ engine' = Mem("replay", engine.request, st, i, engine.outputAppliedSeq,
                                    engine.lastTradeID, engine.dedup)
                   /\ Prefix(st, input, i) /\ inputFirst <= i + 1 /\ i <= Len(output)
  BY <1>7
<1>9. Fields(engine', "replay", engine.request, st, i, engine.outputAppliedSeq,
             engine.lastTradeID, engine.dedup)
  BY <1>8, MemFields
<1>10. Memory(engine')
  BY <1>2, <1>8, <1>9 DEF Awake, Memory, Fields, Booting, Prefix
<1>11. HoldsInv(engine', input, inputFirst, output)
  BY <1>1, <1>2, <1>6, <1>8, <1>9 DEF Awake, HoldsInv, Fields
<1>12. WorksInv(engine', input, queue, taken, acked)
  BY <1>1, <1>2, <1>9 DEF Awake, WorksInv, Fields, Booting
<1>13. EngineInv(engine', input, inputFirst, output, queue, taken, acked)
  BY <1>2, <1>9, <1>10, <1>11, <1>12 DEF EngineInv, Awake, Fields
<1>14. IdleInv(engine', ticked, saver)
  BY <1>1, <1>3 DEF IdleInv, Consuming
<1> QED BY <1>1, <1>13, <1>14 DEF RecoveryInv, broker, logs, saving, cursors
=============================================================================
