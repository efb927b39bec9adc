-------------------------- MODULE Components_proofs -------------------------
(***************************************************************************)
(* The parts that stand by themselves: the two consumers of the Output WAL *)
(* for any log, batch size and number of failures and restarts; the cost   *)
(* basis of a holding for any prices and shares; the duplicate check for   *)
(* any window; the end of the process for any number of deliveries.        *)
(***************************************************************************)
EXTENDS Publisher, CostBasis, Program, DedupMachine, Dedup_proofs, FiniteSetTheorems

\* Zenon proves every leaf that names no other prover; SMT is named for the rest.
USE ZenonT(30)

-----------------------------------------------------------------------------
(* The inductive invariant.                                                 *)

\* DatabaseExact, row by row.
RowExact(r, k, n) ==
  /\ r \in Nat
  /\ r = 0 \/ (r <= n /\ RowOf(r) = k)
  /\ \A i \in 1..n : RowOf(i) = k => i <= r

RowsExact == \A k \in Rows : RowExact(row[k], k, saved["db"])

TradesExact == trades = {i \in 1..saved["db"] : HasTrade(i)}

\* Nothing is truncated beyond a cursor row.
Kept == first = 1 \/ \A w \in Workers : first <= saved[w]

\* A worker that has loaded its cursor is behind its row by a lost answer at most: less
\* than the batch that it repeats.
Behind(me, s) ==
  /\ me.cursor <= s /\ s <= me.cursor + BatchSize
  /\ me.pc = "batch" => s <= me.last
  /\ me.pc \in {"send", "save"} =>
       /\ me.cursor < me.end /\ s <= me.end /\ me.end <= me.cursor + BatchSize
       /\ me.end <= me.last

\* Worker w in state me with cursor row s, when the queue has received q.
SoundAt(w, me, s, q) ==
  /\ me.pc \notin {"start", "stopped"} => Behind(me, s)
  /\ me.pc = "save" => w = "mq" /\ (me.cursor + 1)..me.end \subseteq q

WorkersSound == \A w \in Workers : SoundAt(w, worker[w], saved[w], queued)

PublisherInv == TypeOK /\ RowsExact /\ TradesExact /\ NothingSkipped /\ Kept /\ WorkersSound

-----------------------------------------------------------------------------
(* Least and greatest elements.                                             *)

\* The lesser of two numbers is one of them (the truncation floor of cleanupOutputWAL).
LEMMA MinOfTwo ==
  ASSUME NEW a \in Nat, NEW b \in Nat
  PROVE  Min({a, b}) = IF a <= b THEN a ELSE b
<1> DEFINE m == IF a <= b THEN a ELSE b
<1>1. m \in {a, b} /\ \A y \in {a, b} : m <= y
  BY SMT
<1>2. ASSUME NEW x \in {a, b}, \A y \in {a, b} : x <= y
      PROVE  x = m
  BY <1>2, SMT
<1> HIDE DEF m
<1>3. Min({a, b}) = m
  BY <1>1, <1>2 DEF Min
<1> QED BY <1>3 DEF m

\* Max is the element that no other exceeds.
LEMMA MaxIs ==
  ASSUME NEW T, T \subseteq Nat, NEW m \in T, \A y \in T : y <= m
  PROVE  Max(T) = m
<1>1. m \in T /\ \A y \in T : m >= y
  OBVIOUS
<1>2. ASSUME NEW x \in T, \A y \in T : x >= y
      PROVE  x = m
  <2>1. x >= m /\ x <= m /\ x \in Nat /\ m \in Nat
    BY <1>2
  <2> QED BY <2>1, SMT
<1> QED BY <1>1, <1>2 DEF Max

\* A nonempty set of naturals up to n has a greatest element.
LEMMA Greatest ==
  ASSUME NEW n \in Nat, NEW T, T \subseteq 0..n, T # {}
  PROVE  Max(T) \in T /\ \A y \in T : y <= Max(T)
<1> DEFINE Less == {ss \in Nat \X Nat : ss[1] < ss[2]}
           U == {n - x : x \in T}
<1>1. IsWellFoundedOn(Less, Nat)
  BY NatLessThanWellFounded DEF OpToRel
<1>2. U \subseteq Nat /\ U # {}
  <2>1. \A x \in T : n - x \in Nat
    BY SMT
  <2>2. PICK z : z \in T
    OBVIOUS
  <2>3. n - z \in U
    BY <2>2
  <2> QED BY <2>1, <2>3
<1> HIDE DEF Less
<1>3. PICK u \in U : \A y \in U : ~(<<y, u>> \in Less)
  <2> HIDE DEF U
  <2> QED BY <1>1, <1>2, WFMin
<1>4. PICK m \in T : u = n - m
  BY <1>3
<1>5. ASSUME NEW y \in T PROVE y <= m
  <2>1. n - y \in U
    OBVIOUS
  <2>2. ~(<<n - y, n - m>> \in Less)
    BY <1>3, <1>4, <2>1
  <2>3. n - y \in Nat /\ n - m \in Nat /\ y \in Nat /\ m \in Nat
    BY SMT
  <2>4. ~(n - y < n - m)
    BY <2>2, <2>3 DEF Less
  <2> QED BY <2>3, <2>4, SMT
<1>6. T \subseteq Nat
  BY SMT
<1>7. Max(T) = m
  BY <1>5, <1>6, MaxIs
<1> QED BY <1>5, <1>7

-----------------------------------------------------------------------------
(* What the invariant says.                                                 *)

PCs == {"start", "stopped", "drain", "batch", "send", "save", "wait"}
States(n) == [pc : PCs, cursor : 0..n, last : 0..n, end : 0..n]

\* The types the invariant gives its parts.
LEMMA Shape ==
  ASSUME TypeOK
  PROVE  /\ last \in Nat /\ last <= MaxRecords /\ first \in Nat \ {0} /\ first <= last + 1
         /\ worker \in [Workers -> States(last)] /\ saved \in [Workers -> 0..last]
         /\ BatchSize \in Nat \ {0} /\ MaxRecords \in Nat
BY PublisherAssumption, SMT DEF TypeOK, States, PCs

\* The rows, one by one, are the database that the property describes.
LEMMA ExactDatabase ==
  ASSUME PublisherInv
  PROVE  DatabaseExact
<1>1. saved["db"] \in Nat /\ row \in [Rows -> 0..last]
  BY Shape, SMT DEF PublisherInv, TypeOK, Workers
<1>2. ASSUME NEW k \in Rows
      PROVE  row[k] = Max({0} \cup {i \in 1..saved["db"] : RowOf(i) = k})
  <2> DEFINE T == {0} \cup {i \in 1..saved["db"] : RowOf(i) = k}
  <2>1. RowExact(row[k], k, saved["db"])
    BY DEF PublisherInv, RowsExact
  <2>2. T \subseteq Nat /\ row[k] \in T /\ \A y \in T : y <= row[k]
    BY <1>1, <2>1, SMT DEF RowExact
  <2> HIDE DEF T
  <2>3. Max(T) = row[k]
    BY <2>2, MaxIs
  <2> QED BY <2>3 DEF T
<1>3. row = [k \in Rows |-> row[k]]
  BY <1>1
<1> QED BY <1>2, <1>3 DEF DatabaseExact, PublisherInv, TradesExact

\* What is truncated is before both cursor rows, and so in the queue and the database.
LEMMA KeptSafe ==
  ASSUME PublisherInv
  PROVE  NothingLost
<1> SUFFICES ASSUME NEW i \in 1..(first - 1)
             PROVE  /\ i \in queued
                    /\ row[RowOf(i)] >= i
                    /\ HasTrade(i) => i \in trades
  BY DEF NothingLost
<1>1. /\ first \in Nat /\ saved["db"] \in Nat /\ saved["mq"] \in Nat
      /\ last \in Nat /\ first <= last + 1 /\ last <= MaxRecords /\ MaxRecords \in Nat
  BY Shape, SMT DEF PublisherInv, Workers
<1>2. i \in 1..saved["db"] /\ i \in 1..saved["mq"]
  BY <1>1, SMT DEF PublisherInv, Kept, Workers
<1>3. RowOf(i) \in Rows
  <2>1. i \in 1..MaxRecords
    BY <1>1, SMT
  <2> QED BY <2>1, PublisherAssumption
<1>4. RowExact(row[RowOf(i)], RowOf(i), saved["db"])
  BY <1>3 DEF PublisherInv, RowsExact
<1>5. row[RowOf(i)] >= i
  BY <1>1, <1>2, <1>4 DEF RowExact
<1>6. i \in queued
  BY <1>2 DEF PublisherInv, NothingSkipped
<1>7. HasTrade(i) => i \in trades
  BY <1>2 DEF PublisherInv, TradesExact
<1> QED BY <1>5, <1>6, <1>7

-----------------------------------------------------------------------------
(* The steps.                                                               *)

\* A step of worker w to state m that moves its row to e, perhaps the same, and puts
\* records in the queue.
LEMMA Update ==
  ASSUME PublisherInv, NEW w \in Workers, NEW m \in States(last), NEW e \in saved[w]..last,
         worker' = [worker EXCEPT ![w] = m], saved' = [saved EXCEPT ![w] = e],
         SoundAt(w, m, e, queued'), queued \subseteq queued', queued' \subseteq 1..last,
         UNCHANGED log, signal' = signal, wake' \in [Workers -> BOOLEAN],
         row' \in [Rows -> 0..last], trades' \subseteq 1..last,
         RowsExact', TradesExact', NothingSkipped'
  PROVE  PublisherInv'
<1>1. /\ last \in Nat /\ first \in Nat /\ worker \in [Workers -> States(last)]
      /\ saved \in [Workers -> 0..last]
  BY Shape DEF PublisherInv
<1>2. last' = last /\ first' = first
  BY DEF log
<1>3. e \in 0..last
  BY <1>1, SMT
<1>4. worker' \in [Workers -> States(last)] /\ saved' \in [Workers -> 0..last]
  BY <1>1, <1>3
<1>5. TypeOK'
  BY <1>2, <1>4 DEF PublisherInv, TypeOK, States, PCs
<1>6. Kept'
  <2>1. ASSUME NEW v \in Workers
        PROVE  saved[v] <= saved'[v] /\ saved[v] \in Nat /\ saved'[v] \in Nat
    BY <1>1, <1>3, SMT
  <2> QED BY <1>1, <1>2, <2>1, SMT DEF PublisherInv, Kept
<1>7. WorkersSound'
  <2> SUFFICES ASSUME NEW v \in Workers
               PROVE  SoundAt(v, worker'[v], saved'[v], queued')
    BY DEF WorkersSound
  <2>1. CASE v = w
    BY <1>1, <2>1
  <2>2. CASE v # w
    <3>1. worker'[v] = worker[v] /\ saved'[v] = saved[v]
      BY <1>1, <2>2
    <3>2. SoundAt(v, worker[v], saved[v], queued)
      BY DEF PublisherInv, WorkersSound
    <3> QED BY <3>1, <3>2 DEF SoundAt
  <2> QED BY <2>1, <2>2
<1> QED BY <1>5, <1>6, <1>7 DEF PublisherInv

\* A step of worker w that touches nothing outside the process.
LEMMA LocalStep ==
  ASSUME PublisherInv, NEW w \in Workers, NEW m \in States(last),
         worker' = [worker EXCEPT ![w] = m], SoundAt(w, m, saved[w], queued),
         UNCHANGED <<log, signal, saved, db, queued>>, wake' \in [Workers -> BOOLEAN]
  PROVE  PublisherInv'
<1>1. saved \in [Workers -> 0..last] /\ last \in Nat
  BY Shape DEF PublisherInv
<1>2. /\ saved' = [saved EXCEPT ![w] = saved[w]] /\ saved[w] \in saved[w]..last
      /\ queued' = queued /\ row' = row /\ trades' = trades /\ saved' = saved
      /\ UNCHANGED log /\ signal' = signal
  BY <1>1, SMT DEF db
<1>3. RowsExact' /\ TradesExact' /\ NothingSkipped'
  BY <1>2 DEF PublisherInv, RowsExact, TradesExact, NothingSkipped
<1>4. /\ queued \subseteq queued' /\ queued' \subseteq 1..last
      /\ row' \in [Rows -> 0..last] /\ trades' \subseteq 1..last
  BY <1>2 DEF PublisherInv, TypeOK
<1>5. SoundAt(w, m, saved[w], queued')
  BY <1>2
<1>6. PICK e \in saved[w]..last : e = saved[w]
  BY <1>2
<1>7. saved' = [saved EXCEPT ![w] = e] /\ SoundAt(w, m, e, queued')
  BY <1>2, <1>5, <1>6
<1> QED BY <1>2, <1>3, <1>4, <1>7, Update

\* Loading the cursor, reading the log and waking.
LEMMA LoopKeeps ==
  ASSUME PublisherInv, NEW w \in Workers,
         LoadCursor(w) \/ ReadLast(w) \/ ReadBatch(w) \/ Wake(w)
  PROVE  PublisherInv'
<1> DEFINE me == worker[w]
<1>1. /\ last \in Nat /\ worker \in [Workers -> States(last)] /\ saved \in [Workers -> 0..last]
      /\ BatchSize \in Nat \ {0} /\ wake \in [Workers -> BOOLEAN]
  BY Shape DEF PublisherInv, TypeOK
<1>2. me \in States(last) /\ saved[w] \in 0..last /\ SoundAt(w, me, saved[w], queued)
  BY <1>1 DEF PublisherInv, WorkersSound
<1>3. CASE LoadCursor(w)
  <2>1. CASE worker' = [worker EXCEPT ![w] = [@ EXCEPT !.pc = "drain", !.cursor = Resume(w)]]
    <3> DEFINE m == [me EXCEPT !.pc = "drain", !.cursor = saved[w]]
    <3>1. m \in States(last) /\ m.pc = "drain" /\ m.cursor = saved[w]
      BY <1>2 DEF States, PCs
    <3>2. SoundAt(w, m, saved[w], queued)
      BY <1>1, <1>2, <3>1, SMT DEF SoundAt, Behind
    <3>3. worker' = [worker EXCEPT ![w] = m]
      BY <2>1 DEF Resume
    <3>4. UNCHANGED <<log, signal, saved, db, queued>> /\ wake' = wake
      BY <1>3 DEF LoadCursor
    <3> HIDE DEF m
    <3> QED BY <1>1, <3>1, <3>2, <3>3, <3>4, LocalStep
  <2>2. CASE worker' = [worker EXCEPT ![w].pc = "stopped"]
    <3> DEFINE m == [me EXCEPT !.pc = "stopped"]
    <3>1. m \in States(last) /\ m.pc = "stopped"
      BY <1>2 DEF States, PCs
    <3>2. SoundAt(w, m, saved[w], queued)
      BY <3>1 DEF SoundAt
    <3>3. worker' = [worker EXCEPT ![w] = m]
      BY <2>2
    <3>4. UNCHANGED <<log, signal, saved, db, queued>> /\ wake' = wake
      BY <1>3 DEF LoadCursor
    <3> HIDE DEF m
    <3> QED BY <1>1, <3>1, <3>2, <3>3, <3>4, LocalStep
  <2> QED BY <1>3, <2>1, <2>2 DEF LoadCursor
<1>4. CASE ReadLast(w)
  <2> DEFINE m == [me EXCEPT !.pc = "batch", !.last = last]
  <2>1. m \in States(last) /\ m.pc = "batch" /\ m.last = last /\ m.cursor = me.cursor
    <3>1. last \in 0..last
      BY <1>1, SMT
    <3> QED BY <1>2, <3>1 DEF States, PCs
  <2>2. me.pc = "drain"
    BY <1>4 DEF ReadLast
  <2>3. SoundAt(w, m, saved[w], queued)
    BY <1>1, <1>2, <2>1, <2>2, SMT DEF SoundAt, Behind
  <2>4. worker' = [worker EXCEPT ![w] = m]
    BY <1>4 DEF ReadLast
  <2>5. UNCHANGED <<log, signal, saved, db, queued>> /\ wake' = wake
    BY <1>4 DEF ReadLast
  <2> HIDE DEF m
  <2> QED BY <1>1, <2>1, <2>3, <2>4, <2>5, LocalStep
<1>5. CASE ReadBatch(w)
  <2>1. me.pc = "batch" /\ UNCHANGED <<log, signal, saved, db, queued>> /\ wake' = wake
    BY <1>5 DEF ReadBatch
  <2>2. CASE me.cursor < me.last /\ first <= me.cursor + 1
    <3> DEFINE m == [me EXCEPT !.pc = "send", !.end = BatchEnd(w)]
    <3>1. me.cursor \in Nat /\ me.last \in 0..last
      BY <1>2, SMT DEF States
    <3>2. BatchEnd(w) = IF me.cursor + BatchSize <= me.last THEN me.cursor + BatchSize ELSE me.last
      BY <1>1, <3>1, MinOfTwo, SMT DEF BatchEnd
    <3>3. BatchEnd(w) \in 0..last
      BY <1>1, <3>1, <3>2, SMT
    <3>4. /\ m \in States(last) /\ m.pc = "send" /\ m.last = me.last /\ m.cursor = me.cursor
          /\ m.end = BatchEnd(w)
      BY <1>2, <3>3 DEF States, PCs
    <3>5. SoundAt(w, m, saved[w], queued)
      BY <1>1, <1>2, <2>1, <2>2, <3>1, <3>2, <3>4, SMT DEF SoundAt, Behind
    <3>6. worker' = [worker EXCEPT ![w] = m]
      BY <1>5, <2>2 DEF ReadBatch
    <3> HIDE DEF m
    <3> QED BY <1>1, <2>1, <3>4, <3>5, <3>6, LocalStep
  <2>3. CASE ~(me.cursor < me.last /\ first <= me.cursor + 1)
    <3> DEFINE m == [me EXCEPT !.pc = "wait"]
    <3>1. m \in States(last) /\ m.pc = "wait" /\ m.cursor = me.cursor
      BY <1>2 DEF States, PCs
    <3>2. SoundAt(w, m, saved[w], queued)
      BY <1>2, <2>1, <3>1 DEF SoundAt, Behind
    <3>3. worker' = [worker EXCEPT ![w] = m]
      BY <1>5, <2>3 DEF ReadBatch
    <3> HIDE DEF m
    <3> QED BY <1>1, <2>1, <3>1, <3>2, <3>3, LocalStep
  <2> QED BY <2>2, <2>3
<1>6. CASE Wake(w)
  <2> DEFINE m == [me EXCEPT !.pc = "drain"]
  <2>1. m \in States(last) /\ m.pc = "drain" /\ m.cursor = me.cursor
    BY <1>2 DEF States, PCs
  <2>2. me.pc = "wait" /\ UNCHANGED <<log, signal, saved, db, queued>>
    BY <1>6 DEF Wake
  <2>3. wake' \in [Workers -> BOOLEAN]
    BY <1>1, <1>6 DEF Wake
  <2>4. SoundAt(w, m, saved[w], queued)
    BY <1>2, <2>1, <2>2 DEF SoundAt, Behind
  <2>5. worker' = [worker EXCEPT ![w] = m]
    BY <1>6 DEF Wake
  <2> HIDE DEF m
  <2> QED BY <2>1, <2>2, <2>3, <2>4, <2>5, LocalStep
<1> QED BY <1>3, <1>4, <1>5, <1>6

\* A batch that fails leaves the worker waiting, its cursor where it was.
LEMMA GiveUpSound ==
  ASSUME PublisherInv, NEW w \in Workers, NEW e \in Nat, worker[w].pc \in {"send", "save"},
         e = saved[w] \/ e = worker[w].end
  PROVE  LET m == [worker[w] EXCEPT !.pc = "wait"]
         IN  /\ m \in States(last) /\ GiveUp(w) = [worker EXCEPT ![w] = m]
             /\ \A q : SoundAt(w, m, e, q)
<1> DEFINE me == worker[w]
           m == [me EXCEPT !.pc = "wait"]
<1>1. me \in States(last) /\ SoundAt(w, me, saved[w], queued) /\ BatchSize \in Nat
  BY Shape DEF PublisherInv, WorkersSound
<1>2. /\ m \in States(last) /\ m.pc = "wait" /\ m.cursor = me.cursor /\ me.cursor \in Nat
      /\ me.end \in Nat
  BY <1>1, SMT DEF States, PCs
<1>3. Behind(me, saved[w])
  BY <1>1 DEF SoundAt
<1>4. m.cursor <= e /\ e <= m.cursor + BatchSize
  BY <1>1, <1>2, <1>3, SMT DEF Behind
<1>5. ASSUME NEW q PROVE SoundAt(w, m, e, q)
  BY <1>2, <1>4 DEF SoundAt, Behind
<1>6. GiveUp(w) = [worker EXCEPT ![w] = m]
  BY DEF GiveUp
<1> QED BY <1>2, <1>5, <1>6

\* A batch that succeeds moves the cursor to the row.
LEMMA AdvanceSound ==
  ASSUME PublisherInv, NEW w \in Workers, worker[w].pc \in {"send", "save"}
  PROVE  LET m == [worker[w] EXCEPT !.pc = "batch", !.cursor = worker[w].end]
         IN  /\ m \in States(last) /\ Advance(w) = [worker EXCEPT ![w] = m]
             /\ \A q : SoundAt(w, m, worker[w].end, q)
<1> DEFINE me == worker[w]
           m == [me EXCEPT !.pc = "batch", !.cursor = me.end]
<1>1. me \in States(last) /\ SoundAt(w, me, saved[w], queued) /\ BatchSize \in Nat
  BY Shape DEF PublisherInv, WorkersSound
<1>2. /\ m \in States(last) /\ m.pc = "batch" /\ m.cursor = me.end /\ me.end \in Nat
      /\ m.last = me.last
  <2>1. me.end \in 0..last /\ me.end \in Nat
    BY <1>1, SMT DEF States
  <2>2. m \in States(last)
    BY <1>1, <2>1 DEF States, PCs
  <2>3. m.pc = "batch" /\ m.cursor = me.end /\ m.last = me.last
    BY <1>1 DEF States
  <2> QED BY <2>1, <2>2, <2>3
<1>3. Behind(me, saved[w])
  BY <1>1 DEF SoundAt
<1>4. me.end <= m.last
  BY <1>2, <1>3 DEF Behind
<1>5. ASSUME NEW q PROVE SoundAt(w, m, me.end, q)
  BY <1>1, <1>2, <1>4, SMT DEF SoundAt, Behind
<1>6. Advance(w) = [worker EXCEPT ![w] = m]
  BY DEF Advance
<1> QED BY <1>2, <1>5, <1>6

\* The batch that is sent reaches at least to the cursor row.
LEMMA BatchReaches ==
  ASSUME PublisherInv, NEW w \in Workers, worker[w].pc \in {"send", "save"}
  PROVE  /\ worker[w].end \in saved[w]..last /\ worker[w].cursor \in 0..saved[w]
         /\ saved[w] \in 0..last /\ last \in Nat
<1> DEFINE me == worker[w]
<1>1. /\ me \in States(last) /\ SoundAt(w, me, saved[w], queued)
      /\ saved[w] \in 0..last /\ last \in Nat
  BY Shape DEF PublisherInv, WorkersSound
<1>2. me.end \in 0..last /\ me.cursor \in 0..last
  BY <1>1 DEF States
<1>3. Behind(me, saved[w])
  BY <1>1 DEF SoundAt
<1> QED BY <1>1, <1>2, <1>3, SMT DEF Behind

\* The transaction of applyBatch takes the database from one cursor row to the next,
\* also when it repeats a batch whose answer was lost.
LEMMA CommittedExact ==
  ASSUME PublisherInv, worker["db"].pc = "send", Committed
  PROVE  /\ RowsExact' /\ TradesExact' /\ row' \in [Rows -> 0..last] /\ trades' \subseteq 1..last
         /\ saved' = [saved EXCEPT !["db"] = worker["db"].end]
<1> DEFINE n == saved["db"]
           c == worker["db"].cursor
           e == worker["db"].end
           W(k) == {i \in Batch("db") : RowOf(i) = k}
<1>1. e \in n..last /\ c \in 0..n /\ n \in 0..last /\ last \in Nat
  BY BatchReaches DEF Workers
<1>2. Batch("db") = (c + 1)..e
  BY DEF Batch
<1>3. /\ row' = [k \in Rows |-> IF W(k) = {} THEN row[k] ELSE Max(W(k))]
      /\ trades' = trades \cup {i \in Batch("db") : HasTrade(i)}
      /\ saved' = [saved EXCEPT !["db"] = e]
  BY DEF Committed
<1>4. saved'["db"] = e
  BY <1>3, Shape DEF PublisherInv, Workers
<1> HIDE DEF n, c, e
<1>5. ASSUME NEW k \in Rows PROVE RowExact(row'[k], k, e) /\ row'[k] \in 0..last
  <2>1. RowExact(row[k], k, n) /\ row[k] \in 0..last
    BY DEF PublisherInv, RowsExact, TypeOK, n
  <2>2. row'[k] = IF W(k) = {} THEN row[k] ELSE Max(W(k))
    BY <1>3
  <2>3. CASE W(k) = {}
    <3>1. \A i \in (c + 1)..e : RowOf(i) # k
      BY <1>2, <2>3
    <3>2. ASSUME NEW i \in 1..e, RowOf(i) = k PROVE i <= row[k]
      <4>1. i \in 1..n
        BY <1>1, <3>1, <3>2, SMT
      <4> QED BY <2>1, <3>2, <4>1 DEF RowExact
    <3>3. row[k] = 0 \/ (row[k] <= e /\ RowOf(row[k]) = k)
      BY <1>1, <2>1, SMT DEF RowExact
    <3> QED BY <2>1, <2>2, <2>3, <3>2, <3>3 DEF RowExact
  <2>4. CASE W(k) # {}
    <3>1. e \in Nat /\ W(k) \subseteq 0..e
      BY <1>1, <1>2, SMT
    <3>2. Max(W(k)) \in W(k) /\ \A y \in W(k) : y <= Max(W(k))
      BY <2>4, <3>1, Greatest
    <3>3. PICK r : r = Max(W(k))
      OBVIOUS
    <3>4. r \in (c + 1)..e /\ RowOf(r) = k
      BY <1>2, <3>2, <3>3
    <3>5. ASSUME NEW i \in 1..e, RowOf(i) = k PROVE i <= r
      <4>1. CASE i \in (c + 1)..e
        <5>1. i \in W(k)
          BY <1>2, <3>5, <4>1
        <5> QED BY <3>2, <3>3, <5>1
      <4>2. CASE i \notin (c + 1)..e
        BY <1>1, <3>4, <4>2, SMT
      <4> QED BY <4>1, <4>2
    <3>6. r \in 0..last /\ r \in Nat /\ r <= e
      BY <1>1, <3>4, SMT
    <3>7. row'[k] = r
      BY <2>2, <2>4, <3>3
    <3> QED BY <3>4, <3>5, <3>6, <3>7 DEF RowExact
  <2> QED BY <2>3, <2>4
<1>6. RowsExact'
  BY <1>4, <1>5 DEF RowsExact
<1>7. row' \in [Rows -> 0..last]
  <2>1. row' = [k \in Rows |-> row'[k]]
    BY <1>3
  <2> QED BY <1>5, <2>1
<1>8. TradesExact'
  <2>1. trades = {i \in 1..n : HasTrade(i)}
    BY DEF PublisherInv, TradesExact, n
  <2>2. trades' = {i \in 1..e : HasTrade(i)}
    BY <1>1, <1>2, <1>3, <2>1, SMT
  <2> QED BY <1>4, <2>2 DEF TradesExact
<1>9. trades' \subseteq 1..last
  BY <1>1, <1>4, <1>8, SMT DEF TradesExact
<1>10. saved' = [saved EXCEPT !["db"] = worker["db"].end]
  BY <1>3 DEF e
<1> QED BY <1>6, <1>7, <1>8, <1>9, <1>10

\* The DB projector: a batch is refused, lost, applied, or applied unnoticed.
LEMMA ProjectorKeeps ==
  ASSUME PublisherInv, applyBatch
  PROVE  PublisherInv'
<1> DEFINE me == worker["db"]
           up == [me EXCEPT !.pc = "wait"]
           on == [me EXCEPT !.pc = "batch", !.cursor = me.end]
<1>1. /\ "db" \in Workers /\ me.pc \in {"send", "save"} /\ me.pc = "send"
      /\ UNCHANGED <<log, signal, wake, queued>>
  BY DEF applyBatch, Workers
<1>2. /\ wake' \in [Workers -> BOOLEAN] /\ queued' = queued /\ queued \subseteq 1..last
      /\ signal' = signal
  BY <1>1 DEF PublisherInv, TypeOK
<1>3. me.end \in saved["db"]..last /\ saved["db"] \in 0..last /\ last \in Nat
  BY <1>1, BatchReaches
<1>4. /\ up \in States(last) /\ GiveUp("db") = [worker EXCEPT !["db"] = up]
      /\ SoundAt("db", up, saved["db"], queued) /\ SoundAt("db", up, me.end, queued)
  BY <1>1, <1>3, GiveUpSound, SMT
<1>5. /\ on \in States(last) /\ Advance("db") = [worker EXCEPT !["db"] = on]
      /\ SoundAt("db", on, me.end, queued)
  BY <1>1, AdvanceSound
<1> HIDE DEF up, on
<1>6. CASE worker' = GiveUp("db") /\ UNCHANGED <<db, saved>>
  <2>1. UNCHANGED <<log, signal, saved, db, queued>>
    BY <1>1, <1>6
  <2>2. worker' = [worker EXCEPT !["db"] = up]
    BY <1>4, <1>6
  <2> QED BY <1>1, <1>2, <1>4, <2>1, <2>2, LocalStep
<1>7. CASE Committed /\ worker' \in {Advance("db"), GiveUp("db")}
  <2>1. /\ RowsExact' /\ TradesExact' /\ row' \in [Rows -> 0..last] /\ trades' \subseteq 1..last
        /\ saved' = [saved EXCEPT !["db"] = me.end]
    BY <1>1, <1>7, CommittedExact
  <2>2. NothingSkipped'
    <3>1. saved'["mq"] = saved["mq"]
      BY <2>1, Shape DEF PublisherInv, Workers
    <3> QED BY <1>2, <3>1 DEF PublisherInv, NothingSkipped
  <2>3. PICK m \in {up, on} : worker' = [worker EXCEPT !["db"] = m]
    BY <1>4, <1>5, <1>7
  <2>4. m \in States(last) /\ SoundAt("db", m, me.end, queued')
    BY <1>2, <1>4, <1>5, <2>3
  <2>5. UNCHANGED log /\ queued \subseteq queued' /\ queued' \subseteq 1..last
    BY <1>1, <1>2
  <2> QED BY <1>1, <1>2, <1>3, <2>1, <2>2, <2>3, <2>4, <2>5, Update
<1> QED BY <1>6, <1>7 DEF applyBatch

\* The event publisher sends its batch, or a part of it.
LEMMA PublishKeeps ==
  ASSUME PublisherInv, PublishBatch
  PROVE  PublisherInv'
<1> DEFINE me == worker["mq"]
           up == [me EXCEPT !.pc = "wait"]
           on == [me EXCEPT !.pc = "save"]
<1>1. /\ "mq" \in Workers /\ me.pc \in {"send", "save"} /\ me.pc = "send"
      /\ UNCHANGED <<log, signal, wake, saved, db>>
  BY DEF PublishBatch, Workers
<1>2. /\ wake' \in [Workers -> BOOLEAN] /\ signal' = signal /\ saved' = saved /\ UNCHANGED log
      /\ row' = row /\ trades' = trades
  BY <1>1 DEF PublisherInv, TypeOK, db
<1>3. /\ me.end \in saved["mq"]..last /\ saved["mq"] \in 0..last /\ last \in Nat
      /\ me.cursor \in 0..saved["mq"]
  BY <1>1, BatchReaches
<1>4. Batch("mq") = (me.cursor + 1)..me.end /\ Batch("mq") \subseteq 1..last
  BY <1>3, SMT DEF Batch
<1>5. PICK m \in {up, on} :
        /\ worker' = [worker EXCEPT !["mq"] = m]
        /\ m = up \/ queued' = queued \cup Batch("mq")
        /\ \E sent \in SUBSET Batch("mq") : queued' = queued \cup sent
  <2>1. CASE /\ queued' = queued \cup Batch("mq")
             /\ worker' = [worker EXCEPT !["mq"].pc = "save"]
    <3>1. worker' = [worker EXCEPT !["mq"] = on]
      BY <2>1
    <3>2. Batch("mq") \in SUBSET Batch("mq")
      OBVIOUS
    <3> QED BY <2>1, <3>1, <3>2
  <2>2. CASE /\ \E sent \in SUBSET Batch("mq") : queued' = queued \cup sent
             /\ worker' = GiveUp("mq")
    <3>1. worker' = [worker EXCEPT !["mq"] = up]
      BY <2>2 DEF GiveUp
    <3> QED BY <2>2, <3>1
  <2> QED BY <2>1, <2>2 DEF PublishBatch
<1>6. m \in States(last) /\ SoundAt("mq", m, saved["mq"], queued')
  <2>1. CASE m = up
    BY <1>1, <1>3, <2>1, GiveUpSound, SMT
  <2>2. CASE m # up
    <3> HIDE DEF up
    <3>1. me \in States(last) /\ SoundAt("mq", me, saved["mq"], queued)
      BY <1>1, Shape DEF PublisherInv, WorkersSound
    <3>2. /\ on \in States(last) /\ on.pc = "save" /\ on.cursor = me.cursor
          /\ on.end = me.end /\ on.last = me.last
      BY <3>1 DEF States, PCs
    <3>3. (on.cursor + 1)..on.end \subseteq queued' /\ m = on
      BY <1>4, <1>5, <2>2, <3>2
    <3>4. Behind(on, saved["mq"])
      BY <1>1, <3>1, <3>2 DEF SoundAt, Behind
    <3>5. SoundAt("mq", on, saved["mq"], queued')
      BY <3>2, <3>3, <3>4 DEF SoundAt
    <3> QED BY <3>2, <3>3, <3>5
  <2> QED BY <2>1, <2>2
<1> HIDE DEF up, on
<1>7. queued \subseteq queued' /\ queued' \subseteq 1..last
  BY <1>4, <1>5 DEF PublisherInv, TypeOK
<1>8. RowsExact' /\ TradesExact' /\ NothingSkipped'
  BY <1>2, <1>7 DEF PublisherInv, RowsExact, TradesExact, NothingSkipped
<1>9. row' \in [Rows -> 0..last] /\ trades' \subseteq 1..last
  BY <1>2 DEF PublisherInv, TypeOK
<1>10. PICK e \in saved["mq"]..last : e = saved["mq"]
  BY <1>3, SMT
<1>11. saved' = [saved EXCEPT !["mq"] = e] /\ SoundAt("mq", m, e, queued')
  BY <1>2, <1>6, <1>10, Shape DEF PublisherInv
<1> QED BY <1>1, <1>2, <1>5, <1>6, <1>7, <1>8, <1>9, <1>11, Update

\* Its cursor row moves when the whole batch is in the queue.
LEMMA SaveKeeps ==
  ASSUME PublisherInv, SaveMQPublishedCursor
  PROVE  PublisherInv'
<1> DEFINE me == worker["mq"]
           up == [me EXCEPT !.pc = "wait"]
           on == [me EXCEPT !.pc = "batch", !.cursor = me.end]
<1>1. /\ "mq" \in Workers /\ me.pc \in {"send", "save"} /\ me.pc = "save"
      /\ UNCHANGED <<log, signal, wake, db, queued>>
  BY DEF SaveMQPublishedCursor, Workers
<1>2. /\ wake' \in [Workers -> BOOLEAN] /\ signal' = signal /\ queued' = queued /\ UNCHANGED log
      /\ row' = row /\ trades' = trades /\ queued \subseteq 1..last
  BY <1>1 DEF PublisherInv, TypeOK, db
<1>3. /\ me.end \in saved["mq"]..last /\ saved["mq"] \in 0..last /\ last \in Nat
      /\ me.cursor \in 0..saved["mq"]
  BY <1>1, BatchReaches
<1>4. /\ up \in States(last) /\ GiveUp("mq") = [worker EXCEPT !["mq"] = up]
      /\ SoundAt("mq", up, saved["mq"], queued) /\ SoundAt("mq", up, me.end, queued)
  BY <1>1, <1>3, GiveUpSound, SMT
<1>5. /\ on \in States(last) /\ Advance("mq") = [worker EXCEPT !["mq"] = on]
      /\ SoundAt("mq", on, me.end, queued)
  BY <1>1, AdvanceSound
<1> HIDE DEF up, on
<1>6. CASE saved' = saved /\ worker' = GiveUp("mq")
  <2>1. UNCHANGED <<log, signal, saved, db, queued>>
    BY <1>1, <1>6
  <2>2. worker' = [worker EXCEPT !["mq"] = up]
    BY <1>4, <1>6
  <2> QED BY <1>1, <1>2, <1>4, <2>1, <2>2, LocalStep
<1>7. CASE /\ saved' = [saved EXCEPT !["mq"] = me.end]
           /\ worker' \in {Advance("mq"), GiveUp("mq")}
  <2>1. (me.cursor + 1)..me.end \subseteq queued
    BY <1>1 DEF PublisherInv, WorkersSound, SoundAt
  <2>2. saved'["mq"] = me.end /\ saved'["db"] = saved["db"]
    BY <1>7, Shape DEF PublisherInv, Workers
  <2>3. NothingSkipped'
    <3>1. 1..saved["mq"] \subseteq queued
      BY DEF PublisherInv, NothingSkipped
    <3>2. 1..me.end \subseteq queued
      BY <1>3, <2>1, <3>1, SMT
    <3> QED BY <1>2, <2>2, <3>2 DEF NothingSkipped
  <2>4. RowsExact' /\ TradesExact'
    BY <1>2, <2>2 DEF PublisherInv, RowsExact, TradesExact
  <2>5. row' \in [Rows -> 0..last] /\ trades' \subseteq 1..last
    BY <1>2 DEF PublisherInv, TypeOK
  <2>6. PICK m \in {up, on} : worker' = [worker EXCEPT !["mq"] = m]
    BY <1>4, <1>5, <1>7
  <2>7. m \in States(last) /\ SoundAt("mq", m, me.end, queued')
    BY <1>2, <1>4, <1>5, <2>6
  <2>8. queued \subseteq queued' /\ queued' \subseteq 1..last
    BY <1>2
  <2> QED BY <1>1, <1>2, <1>3, <1>7, <2>3, <2>4, <2>5, <2>6, <2>7, <2>8, Update
<1> QED BY <1>6, <1>7 DEF SaveMQPublishedCursor

\* A new record concerns no cursor.
LEMMA AppendKeeps ==
  ASSUME PublisherInv, appendOutput
  PROVE  PublisherInv'
<1>1. /\ last' = last + 1 /\ last < MaxRecords /\ signal' = TRUE
      /\ UNCHANGED <<first, wake, worker, saved, row, trades, queued>>
  BY DEF appendOutput, db
<1>2. /\ last \in Nat /\ first \in Nat \ {0} /\ first <= last + 1
      /\ worker \in [Workers -> States(last)]
      /\ saved \in [Workers -> 0..last] /\ MaxRecords \in Nat
  BY Shape DEF PublisherInv
<1>3. 0..last \subseteq 0..(last + 1) /\ 1..last \subseteq 1..(last + 1)
  BY <1>2, SMT
<1>4. worker \in [Workers -> States(last + 1)]
  BY <1>2, <1>3 DEF States
<1>5. saved \in [Workers -> 0..(last + 1)] /\ row \in [Rows -> 0..(last + 1)]
  BY <1>2, <1>3 DEF PublisherInv, TypeOK
<1>6. trades \subseteq 1..(last + 1) /\ queued \subseteq 1..(last + 1)
  BY <1>3 DEF PublisherInv, TypeOK
<1>7. last' \in 0..MaxRecords /\ first' \in 1..(last' + 1)
  BY <1>1, <1>2, SMT
<1>8. TypeOK'
  BY <1>1, <1>4, <1>5, <1>6, <1>7 DEF PublisherInv, TypeOK, States, PCs
<1> QED BY <1>1, <1>8
    DEF PublisherInv, RowsExact, TradesExact, NothingSkipped, Kept, WorkersSound

\* cleanupOutputWAL stops at the lower cursor row.
LEMMA CleanupKeeps ==
  ASSUME PublisherInv, cleanupOutputWAL
  PROVE  PublisherInv'
<1>1. /\ first' = Floor /\ Floor <= last /\ Floor # 0
      /\ UNCHANGED <<last, signal, wake, worker, saved, row, trades, queued>>
  BY DEF cleanupOutputWAL, db
<1>2. saved["mq"] \in Nat /\ saved["db"] \in Nat /\ last \in Nat
  BY Shape, SMT DEF PublisherInv, Workers
<1>3. Floor \in Nat /\ Floor <= saved["mq"] /\ Floor <= saved["db"]
  BY <1>2, MinOfTwo, SMT DEF Floor
<1>4. TypeOK'
  <2>1. first' \in 1..(last + 1)
    BY <1>1, <1>2, <1>3, SMT
  <2> QED BY <1>1, <2>1 DEF PublisherInv, TypeOK
<1>5. Kept'
  BY <1>1, <1>3 DEF Kept, Workers
<1> QED BY <1>1, <1>4, <1>5
    DEF PublisherInv, RowsExact, TradesExact, NothingSkipped, WorkersSound

\* A restart forgets the memory cursors.
LEMMA RestartKeeps ==
  ASSUME PublisherInv, Restart
  PROVE  PublisherInv'
<1>1. /\ signal' = FALSE /\ wake' = [w \in Workers |-> FALSE]
      /\ worker' = [w \in Workers |-> Starting]
      /\ UNCHANGED <<last, first, saved, row, trades, queued>>
  BY DEF Restart, db, log
<1>2. last \in Nat
  BY Shape DEF PublisherInv
<1>3. Starting \in States(last) /\ Starting.pc = "start"
  <2>1. 0 \in 0..last
    BY <1>2, SMT
  <2> QED BY <2>1 DEF Starting, States, PCs
<1>4. worker' \in [Workers -> States(last)] /\ wake' \in [Workers -> BOOLEAN] /\ signal' \in BOOLEAN
  BY <1>1, <1>3
<1>5. TypeOK'
  BY <1>1, <1>4 DEF PublisherInv, TypeOK, States, PCs
<1>6. WorkersSound'
  BY <1>1, <1>3 DEF WorkersSound, SoundAt
<1> QED BY <1>1, <1>5, <1>6 DEF PublisherInv, RowsExact, TradesExact, NothingSkipped, Kept

\* Signals.
LEMMA SignalKeeps ==
  ASSUME PublisherInv, fanOutSignals
  PROVE  PublisherInv'
<1>1. /\ signal' = FALSE /\ wake' = [w \in Workers |-> TRUE]
      /\ UNCHANGED <<last, first, worker, saved, row, trades, queued>>
  BY DEF fanOutSignals, db, log
<1>2. TypeOK'
  <2>1. wake' \in [Workers -> BOOLEAN] /\ signal' \in BOOLEAN
    BY <1>1
  <2> QED BY <1>1, <2>1 DEF PublisherInv, TypeOK
<1> QED BY <1>1, <1>2
    DEF PublisherInv, RowsExact, TradesExact, NothingSkipped, Kept, WorkersSound

\* Before the first record both workers agree with the empty log.
LEMMA StartSound ==
  ASSUME Init
  PROVE  PublisherInv
<1>1. /\ last = 0 /\ first = 1 /\ signal = FALSE /\ wake = [w \in Workers |-> FALSE]
      /\ worker = [w \in Workers |-> Starting] /\ saved = [w \in Workers |-> 0]
      /\ row = [k \in Rows |-> 0] /\ trades = {} /\ queued = {}
  BY DEF Init
<1>2. Starting \in States(0) /\ Starting.pc = "start"
  BY SMT DEF Starting, States, PCs
<1>3. /\ worker \in [Workers -> States(0)] /\ wake \in [Workers -> BOOLEAN] /\ signal \in BOOLEAN
      /\ saved \in [Workers -> 0..0] /\ row \in [Rows -> 0..0]
  <2>1. 0 \in 0..0
    BY SMT
  <2>2. worker \in [Workers -> States(0)]
    BY <1>1, <1>2
  <2>3. saved \in [Workers -> 0..0] /\ row \in [Rows -> 0..0]
    BY <1>1, <2>1
  <2>4. wake \in [Workers -> BOOLEAN] /\ signal \in BOOLEAN
    BY <1>1
  <2> QED BY <2>2, <2>3, <2>4
<1>4. last \in 0..MaxRecords /\ first \in 1..(last + 1)
  BY <1>1, PublisherAssumption, SMT
<1>5. TypeOK
  BY <1>1, <1>3, <1>4 DEF TypeOK, States, PCs
<1>6. saved["db"] = 0 /\ saved["mq"] = 0
  BY <1>1 DEF Workers
<1>7. RowsExact
  BY <1>1, <1>6, SMT DEF RowsExact, RowExact
<1>8. TradesExact /\ NothingSkipped /\ Kept
  BY <1>1, <1>6, SMT DEF TradesExact, NothingSkipped, Kept
<1>9. WorkersSound
  BY <1>1, <1>2 DEF WorkersSound, SoundAt
<1> QED BY <1>5, <1>7, <1>8, <1>9 DEF PublisherInv

-----------------------------------------------------------------------------
(* The theorems.                                                            *)

\* Whatever a worker, the engine or a failing call does, the invariant stays.
LEMMA StepKeeps ==
  ASSUME PublisherInv, [Next]_vars
  PROVE  PublisherInv'
<1>1. CASE Next
  BY <1>1, AppendKeeps, SignalKeeps, CleanupKeeps, LoopKeeps, ProjectorKeeps, PublishKeeps,
     SaveKeeps, RestartKeeps DEF Next
<1>2. CASE UNCHANGED vars
  <2>1. UNCHANGED <<last, first, signal, wake, worker, saved, row, trades, queued>>
    BY <1>2 DEF vars, log, db
  <2> QED BY <2>1
    DEF PublisherInv, TypeOK, RowsExact, TradesExact, NothingSkipped, Kept, WorkersSound
<1> QED BY <1>1, <1>2

\* The inductive invariant of the two workers, the log and the cursor rows.
THEOREM PublisherInvariant == Spec => []PublisherInv
<1>1. Init => PublisherInv
  BY StartSound
<1>2. PublisherInv /\ [Next]_vars => PublisherInv'
  BY StepKeeps
<1> QED BY <1>1, <1>2, PTL DEF Spec

\* The types of the publisher's state.
THEOREM PublisherTypes == Spec => []TypeOK
<1>1. PublisherInv => TypeOK
  BY DEF PublisherInv
<1> QED BY <1>1, PublisherInvariant, PTL

\* The database shows exactly the records up to the projector's cursor row, whatever
\* fails and is repeated.
THEOREM DatabaseFollowsCursor == Spec => []DatabaseExact
<1>1. PublisherInv => DatabaseExact
  BY ExactDatabase
<1> QED BY <1>1, PublisherInvariant, PTL

\* The event queue has received every record up to the publisher's cursor row.
THEOREM QueueFollowsCursor == Spec => []NothingSkipped
<1>1. PublisherInv => NothingSkipped
  BY DEF PublisherInv
<1> QED BY <1>1, PublisherInvariant, PTL

\* No record leaves the Output WAL before both consumers have it.
THEOREM TruncationLosesNothing == Spec => []NothingLost
<1>1. PublisherInv => NothingLost
  BY KeptSafe
<1> QED BY <1>1, PublisherInvariant, PTL

\* No step moves a cursor row back, not even the repetition of a batch after a lost
\* answer: the repeated batch reaches at least as far.
THEOREM CursorsNeverGoBack == Spec => CursorsAdvance
<1>1. ASSUME PublisherInv, [Next]_vars
      PROVE  [\A w \in Workers : saved'[w] >= saved[w]]_vars
  <2>1. saved \in [Workers -> 0..last] /\ last \in Nat
    BY <1>1, Shape DEF PublisherInv
  <2>2. ASSUME NEW v \in Workers, worker[v].pc \in {"send", "save"},
               saved' = [saved EXCEPT ![v] = worker[v].end]
        PROVE  \A w \in Workers : saved'[w] >= saved[w]
    <3>1. worker[v].end \in saved[v]..last /\ saved[v] \in 0..last
      BY <1>1, <2>2, BatchReaches
    <3> QED BY <2>1, <2>2, <3>1, SMT
  <2>3. CASE saved' = saved
    BY <2>1, <2>3, SMT
  <2>4. CASE applyBatch
    <3>1. CASE Committed
      <4>1. saved' = [saved EXCEPT !["db"] = worker["db"].end] /\ worker["db"].pc = "send"
        BY <2>4, <3>1 DEF Committed, applyBatch
      <4> QED BY <2>2, <4>1 DEF Workers
    <3>2. CASE UNCHANGED <<db, saved>>
      BY <2>3, <3>2
    <3> QED BY <2>4, <3>1, <3>2 DEF applyBatch
  <2>5. CASE SaveMQPublishedCursor
    <3>1. /\ worker["mq"].pc = "save"
          /\ saved' = saved \/ saved' = [saved EXCEPT !["mq"] = worker["mq"].end]
      BY <2>5 DEF SaveMQPublishedCursor
    <3> QED BY <2>2, <2>3, <3>1 DEF Workers
  <2>6. CASE ~applyBatch /\ ~SaveMQPublishedCursor
    <3>1. saved' = saved
      BY <1>1, <2>6 DEF Next, vars, appendOutput, fanOutSignals, cleanupOutputWAL, LoadCursor,
         ReadLast, ReadBatch, Wake, PublishBatch, Restart
    <3> QED BY <2>3, <3>1
  <2> QED BY <2>4, <2>5, <2>6
<1> QED BY <1>1, PublisherInvariant, PTL DEF Spec, CursorsAdvance

-----------------------------------------------------------------------------
(* The cost basis of a holding.                                             *)

\* The inductive invariant.
CostInv == CostTypeOK /\ CostCovered /\ DriftBounded

-----------------------------------------------------------------------------
(* Arithmetic.                                                              *)

\* A quotient rounded down.
LEMMA Quotient ==
  ASSUME NEW t \in Nat, NEW q \in Nat \ {0}
  PROVE  t \div q \in Nat /\ (t \div q) * q <= t /\ t < (t \div q) * q + q
BY SMT

\* What fits in a word does not wrap.
LEMMA Fits ==
  ASSUME NEW x \in Nat, x < Word
  PROVE  UInt64(x) = x
BY CostAssumption, SMT DEF UInt64

\* Products of numbers are numbers.
LEMMA ProductType ==
  ASSUME NEW x \in Nat, NEW y \in Nat
  PROVE  x * y \in Nat
BY SMT

\* Products keep an order.
LEMMA ProductOrder ==
  ASSUME NEW x \in Nat, NEW y \in Nat, NEW k \in Nat, x <= y
  PROVE  x * k <= y * k
<1>1. PICK d \in Nat : y = x + d
  BY SMT
<1>2. y * k = x * k + d * k
  BY <1>1, SMT
<1>3. d * k \in Nat /\ x * k \in Nat
  BY ProductType
<1> QED BY <1>2, <1>3, SMT

-----------------------------------------------------------------------------
\* The cost fields of a holding of at most m shares.
Sound(h, m) ==
  /\ h \in [quantity: 0..m, average: Nat, total: 0..(Word - 1)]
  /\ h.average * h.quantity <= h.total
  /\ h.total < h.average * h.quantity + 2 * ShareCap
  /\ h.average < MaxPrice + 2 * ShareCap
  /\ h.quantity = 0 => h.total = 0

\* The total is far enough below the word size for one more fill or deposit.
LEMMA TotalBound ==
  ASSUME NEW q \in 0..ShareCap, NEW a \in Nat, NEW t \in Nat,
         t < a * q + 2 * ShareCap, a < MaxPrice + 2 * ShareCap,
         NEW x \in Nat, x <= (MaxPrice + 2 * ShareCap) * ShareCap - a * q + MaxPrice * ShareCap
  PROVE  t + x < Word
<1>1. MaxPrice \in Nat /\ ShareCap \in Nat /\ ShareCap >= 1 /\ Word \in Nat
  BY CostAssumption, SMT
<1>2. PICK ps, ss \in Nat : ps = MaxPrice * ShareCap /\ ss = ShareCap * ShareCap
  BY <1>1, ProductType
<1>3. ss >= ShareCap
  <2>1. 1 * ShareCap <= ShareCap * ShareCap
    BY <1>1, ProductOrder
  <2> QED BY <1>1, <1>2, <2>1, SMT
<1>4. (MaxPrice + 2 * ShareCap) * ShareCap = ps + 2 * ss
  BY <1>1, <1>2, SMT
<1>5. (2 * MaxPrice + 2 * ShareCap) * (2 * ShareCap) = 4 * ps + 4 * ss
  BY <1>1, <1>2, SMT
<1>6. 4 * ps + 4 * ss < Word
  BY <1>5, CostAssumption
<1>7. PICK aq \in Nat : aq = a * q
  BY ProductType, SMT
<1>8. t < aq + 2 * ShareCap /\ x <= ps + 2 * ss - aq + ps
  BY <1>2, <1>4, <1>7, SMT
<1> QED BY <1>1, <1>2, <1>3, <1>6, <1>7, <1>8, SMT

\* A number of shares, and a number of shares and an order of as many, fit.
LEMMA ShareFits == 2 * ShareCap < Word
<1>1. MaxPrice \in Nat \ {0} /\ ShareCap \in Nat \ {0} /\ Word \in Nat
  BY CostAssumption
<1>2. 1 * (2 * ShareCap) <= (2 * MaxPrice + 2 * ShareCap) * (2 * ShareCap)
  BY <1>1, ProductOrder, SMT
<1>3. (2 * MaxPrice + 2 * ShareCap) * (2 * ShareCap) \in Nat
  BY <1>1, ProductType, SMT
<1> QED BY <1>1, <1>2, <1>3, CostAssumption, SMT

-----------------------------------------------------------------------------
(* The steps of a holding.                                                  *)

\* A purchase: the quotient is the average of what is recorded as paid, so the rest is
\* less than the shares held, and the average grows past the highest price by what
\* earlier roundings left at most.
LEMMA BoughtSound ==
  ASSUME NEW h, Sound(h, ShareCap), NEW n \in 1..ShareCap, NEW p \in 1..MaxPrice
  PROVE  Sound(Bought(h, n, UInt64(p * n)), h.quantity + n)
<1> DEFINE q == h.quantity
           a == h.average
           t == h.total
           m == q + n
           u == t + p * n
           b == u \div m
<1>1. /\ q \in 0..ShareCap /\ a \in Nat /\ t \in Nat
      /\ a * q <= t /\ t < a * q + 2 * ShareCap /\ a < MaxPrice + 2 * ShareCap
  BY CostAssumption, SMT DEF Sound
<1>2. MaxPrice \in Nat /\ ShareCap \in Nat \ {0} /\ Word \in Nat
  BY CostAssumption
<1>3. m \in 1..(2 * ShareCap) /\ n \in Nat /\ p \in Nat
  BY <1>1, <1>2, SMT
<1>4. p * n \in Nat /\ p * n <= MaxPrice * n /\ MaxPrice * n <= MaxPrice * ShareCap
  <2>1. p * n <= MaxPrice * n
    BY <1>2, <1>3, ProductOrder, SMT
  <2>2. n * MaxPrice <= ShareCap * MaxPrice
    BY <1>2, <1>3, ProductOrder, SMT
  <2>3. n * MaxPrice = MaxPrice * n /\ ShareCap * MaxPrice = MaxPrice * ShareCap
    BY <1>2, <1>3, SMT
  <2> QED BY <1>3, <2>1, <2>2, <2>3, ProductType
<1>5. a * q \in Nat /\ a * q <= (MaxPrice + 2 * ShareCap) * ShareCap
  <2>1. a * q <= (MaxPrice + 2 * ShareCap) * q
    BY <1>1, <1>2, ProductOrder, SMT
  <2>2. q * (MaxPrice + 2 * ShareCap) <= ShareCap * (MaxPrice + 2 * ShareCap)
    BY <1>1, <1>2, ProductOrder, SMT
  <2>3. a * q \in Nat
    BY <1>1, ProductType, SMT
  <2>4. (MaxPrice + 2 * ShareCap) * q = q * (MaxPrice + 2 * ShareCap)
    BY <1>1, <1>2, SMT
  <2>5. (MaxPrice + 2 * ShareCap) * ShareCap = ShareCap * (MaxPrice + 2 * ShareCap)
    BY <1>2, SMT
  <2>6. (MaxPrice + 2 * ShareCap) * q \in Nat /\ (MaxPrice + 2 * ShareCap) * ShareCap \in Nat
    BY <1>1, <1>2, ProductType, SMT
  <2> QED BY <2>1, <2>2, <2>3, <2>4, <2>5, <2>6, SMT
<1>6. u \in Nat /\ u < Word
  <2>1. MaxPrice * ShareCap \in Nat /\ (MaxPrice + 2 * ShareCap) * ShareCap \in Nat
    BY <1>2, ProductType, SMT
  <2>2. MaxPrice * n \in Nat
    BY <1>2, <1>3, ProductType
  <2>3. p * n <= (MaxPrice + 2 * ShareCap) * ShareCap - a * q + MaxPrice * ShareCap
    BY <1>4, <1>5, <2>1, <2>2, SMT
  <2>4. t + p * n < Word
    BY <1>1, <1>4, <2>3, TotalBound
  <2> QED BY <1>1, <1>4, <2>4, SMT
<1>7. m < Word
  BY <1>2, <1>3, ShareFits, SMT
<1>8. UInt64(p * n) = p * n /\ UInt64(t + p * n) = u /\ UInt64(q + n) = m
  <2>1. p * n < Word
    BY <1>1, <1>2, <1>4, <1>6, SMT
  <2> QED BY <1>3, <1>4, <1>6, <1>7, <2>1, Fits, SMT
<1>9. Bought(h, n, UInt64(p * n)) = [quantity |-> m, average |-> b, total |-> u]
  BY <1>8 DEF Bought, Average
<1>10. b \in Nat /\ b * m <= u /\ u < b * m + m
  <2>1. u \in Nat /\ m \in Nat \ {0}
    BY <1>2, <1>3, <1>6, SMT
  <2> HIDE DEF u, m
  <2> QED BY <2>1, Quotient
<1>11. b < MaxPrice + 2 * ShareCap
  <2> DEFINE bound == MaxPrice + 2 * ShareCap
  <2> SUFFICES ASSUME bound <= b PROVE FALSE
    BY <1>2, <1>10, SMT
  <2>1. bound * m <= b * m
    BY <1>2, <1>3, <1>10, ProductOrder, SMT
  <2>2. bound * m = bound * q + bound * n
    BY <1>1, <1>2, <1>3, SMT
  <2>3. a * q <= (bound - 1) * q
    BY <1>1, <1>2, ProductOrder, SMT
  <2>4. (bound - 1) * q = bound * q - q
    BY <1>1, <1>2, SMT
  <2>5. bound * n = MaxPrice * n + 2 * (ShareCap * n)
    BY <1>2, <1>3, SMT
  <2>6. 1 * ShareCap <= n * ShareCap
    BY <1>2, <1>3, ProductOrder, SMT
  <2>7. n * ShareCap = ShareCap * n /\ 1 * ShareCap = ShareCap
    BY <1>2, <1>3, SMT
  <2>8. /\ bound * q \in Nat /\ bound * n \in Nat /\ ShareCap * n \in Nat
        /\ MaxPrice * n \in Nat /\ b * m \in Nat /\ bound * m \in Nat
    BY <1>1, <1>2, <1>3, <1>10, ProductType, SMT
  <2> HIDE DEF bound, b, m
  <2>9. u = t + p * n
    OBVIOUS
  <2> QED BY <1>1, <1>2, <1>4, <1>5, <1>10, <2>1, <2>2, <2>3, <2>4, <2>5, <2>6, <2>7, <2>8, <2>9,
             SMTT(30)
<1> HIDE DEF u, b, m
<1>12. m = h.quantity + n
  BY DEF m
<1>13. b * m \in Nat
  BY <1>3, <1>10, ProductType, SMT
<1>14. u < b * m + 2 * ShareCap
  BY <1>2, <1>3, <1>6, <1>10, <1>13, SMT
<1> QED BY <1>2, <1>3, <1>6, <1>9, <1>10, <1>11, <1>12, <1>14, SMT DEF Sound

\* Shares leave at the average, which the total covers.
LEMMA SoldSound ==
  ASSUME NEW m \in Nat, NEW h, Sound(h, m), m < Word, NEW n \in 1..h.quantity
  PROVE  Sound(Sold(h, n), m) /\ Sold(h, n).quantity = h.quantity - n
<1> DEFINE q == h.quantity
           a == h.average
           t == h.total
<1>1. /\ q \in 0..m /\ a \in Nat /\ t \in Nat /\ t < Word
      /\ a * q <= t /\ t < a * q + 2 * ShareCap /\ a < MaxPrice + 2 * ShareCap
      /\ h \in [quantity: 0..m, average: Nat, total: 0..(Word - 1)]
  BY CostAssumption, SMT DEF Sound
<1>2. MaxPrice \in Nat /\ ShareCap \in Nat \ {0} /\ Word \in Nat \ {0}
  BY <1>1, CostAssumption, SMT
<1>3. CASE q = n
  <2>1. Sold(h, n) = [quantity |-> 0, average |-> 0, total |-> 0]
    BY <1>3 DEF Sold, Empty
  <2> QED BY <1>1, <1>2, <1>3, <2>1, SMT DEF Sound
<1>4. CASE q # n
  <2>1. n \in Nat /\ n < q /\ q - n \in 1..m
    BY <1>1, <1>4, SMT
  <2>2. a * q = a * n + a * (q - n) /\ n * a = a * n
    BY <1>1, <2>1, SMT
  <2>3. a * n \in Nat /\ a * (q - n) \in Nat /\ a * q \in Nat
    BY <1>1, <2>1, ProductType, SMT
  <2>4. UInt64(n * a) = a * n
    BY <1>1, <1>2, <2>2, <2>3, Fits, SMT
  <2>5. UInt64(q - n) = q - n
    <3>1. q - n \in Nat /\ q - n < Word
      BY <1>1, <1>2, <2>1, SMT
    <3> HIDE DEF q
    <3> QED BY <3>1, Fits
  <2>6. t - a * n \in 0..(Word - 1)
    BY <1>1, <1>2, <2>2, <2>3, SMT
  <2>7. UInt64(t - a * n) = t - a * n
    BY <1>2, <2>6, Fits, SMT
  <2>8. Sold(h, n) = [quantity |-> q - n, average |-> a, total |-> t - a * n]
    <3>1. Sold(h, n) = [h EXCEPT !.quantity = q - n, !.total = t - a * n]
      BY <1>4, <2>4, <2>5, <2>7 DEF Sold, CostOf
    <3> QED BY <1>1, <3>1
  <2>9. a * (q - n) <= t - a * n /\ t - a * n < a * (q - n) + 2 * ShareCap
    BY <1>1, <1>2, <2>2, <2>3, SMT
  <2> QED BY <1>1, <2>1, <2>6, <2>8, <2>9, SMT DEF Sound
<1> QED BY <1>3, <1>4

\* The fields of a holding whose quantity and total are overwritten.
LEMMA Updated ==
  ASSUME NEW h \in [quantity: Nat, average: Nat, total: Nat], NEW x \in Nat, NEW y \in Nat
  PROVE  [h EXCEPT !.quantity = x, !.total = y]
           = [quantity |-> x, average |-> h.average, total |-> y]
<1>1. PICK r : r = [h EXCEPT !.quantity = x, !.total = y]
  OBVIOUS
<1>2. r \in [quantity: Nat, average: Nat, total: Nat]
  BY <1>1
<1>3. r.quantity = x /\ r.average = h.average /\ r.total = y
  BY <1>1
<1>4. r = [quantity |-> x, average |-> h.average, total |-> y]
  BY <1>2, <1>3
<1> QED BY <1>1, <1>4

\* A deposit at the average of the holding.
LEMMA DepositSound ==
  ASSUME NEW h, Sound(h, ShareCap), NEW n \in 1..ShareCap, h.quantity + n <= ShareCap
  PROVE  Sound([h EXCEPT !.quantity = UInt64(@ + n), !.total = UInt64(@ + n * h.average)],
               ShareCap)
<1> DEFINE q == h.quantity
           a == h.average
           t == h.total
<1>1. /\ q \in 0..ShareCap /\ a \in Nat /\ t \in Nat
      /\ a * q <= t /\ t < a * q + 2 * ShareCap /\ a < MaxPrice + 2 * ShareCap
      /\ h \in [quantity: 0..ShareCap, average: Nat, total: 0..(Word - 1)]
  BY CostAssumption, SMT DEF Sound
<1>2. MaxPrice \in Nat /\ ShareCap \in Nat \ {0} /\ Word \in Nat
  BY CostAssumption
<1>3. n \in Nat \ {0} /\ q + n \in 1..ShareCap
  BY <1>1, <1>2, SMT
<1>4. a * (q + n) = a * q + a * n /\ n * a = a * n
  BY <1>1, <1>3, SMT
<1>5. a * q \in Nat /\ a * n \in Nat /\ a * (q + n) \in Nat
  BY <1>1, <1>3, ProductType, SMT
<1>6. a * (q + n) <= (MaxPrice + 2 * ShareCap) * ShareCap
  <2>1. a * (q + n) <= (MaxPrice + 2 * ShareCap) * (q + n)
    BY <1>1, <1>2, <1>3, ProductOrder, SMT
  <2>2. (q + n) * (MaxPrice + 2 * ShareCap) <= ShareCap * (MaxPrice + 2 * ShareCap)
    BY <1>2, <1>3, ProductOrder, SMT
  <2>3. (MaxPrice + 2 * ShareCap) * (q + n) = (q + n) * (MaxPrice + 2 * ShareCap)
    BY <1>2, <1>3, SMT
  <2>4. (MaxPrice + 2 * ShareCap) * ShareCap = ShareCap * (MaxPrice + 2 * ShareCap)
    BY <1>2, SMT
  <2>5. /\ (MaxPrice + 2 * ShareCap) * (q + n) \in Nat
        /\ (MaxPrice + 2 * ShareCap) * ShareCap \in Nat
    BY <1>2, <1>3, ProductType, SMT
  <2> QED BY <1>5, <2>1, <2>2, <2>3, <2>4, <2>5, SMT
<1>7. t + a * n \in Nat /\ t + a * n < Word
  <2>1. MaxPrice * ShareCap \in Nat /\ (MaxPrice + 2 * ShareCap) * ShareCap \in Nat
    BY <1>2, ProductType, SMT
  <2>2. a * n <= (MaxPrice + 2 * ShareCap) * ShareCap - a * q + MaxPrice * ShareCap
    BY <1>4, <1>5, <1>6, <2>1, SMT
  <2>3. t + a * n < Word
    BY <1>1, <1>5, <2>2, TotalBound
  <2> QED BY <1>1, <1>5, <2>3, SMT
<1>8. UInt64(t + n * a) = t + a * n
  BY <1>4, <1>7, Fits
<1>9. UInt64(q + n) = q + n
  <2>1. q + n \in Nat /\ q + n < Word
    BY <1>2, <1>3, ShareFits, SMT
  <2> HIDE DEF q
  <2> QED BY <2>1, Fits
<1>10. [h EXCEPT !.quantity = UInt64(@ + n), !.total = UInt64(@ + n * h.average)]
         = [quantity |-> q + n, average |-> a, total |-> t + a * n]
  <2>1. [h EXCEPT !.quantity = UInt64(@ + n), !.total = UInt64(@ + n * h.average)]
          = [h EXCEPT !.quantity = q + n, !.total = t + a * n]
    BY <1>8, <1>9
  <2>2. [h EXCEPT !.quantity = q + n, !.total = t + a * n]
          = [quantity |-> q + n, average |-> a, total |-> t + a * n]
    <3>1. q + n \in Nat /\ t + a * n \in Nat
      BY <1>2, <1>3, <1>7, SMT
    <3>2. h \in [quantity: Nat, average: Nat, total: Nat]
      BY <1>1, <1>2, SMT
    <3> QED BY <3>1, <3>2, Updated
  <2> QED BY <2>1, <2>2
<1>11. a * (q + n) <= t + a * n /\ t + a * n < a * (q + n) + 2 * ShareCap
  BY <1>1, <1>2, <1>4, <1>5, SMT
<1>12. Sound([quantity |-> q + n, average |-> a, total |-> t + a * n], ShareCap)
  BY <1>1, <1>2, <1>3, <1>7, <1>11, SMT DEF Sound
<1> QED BY <1>10, <1>12

\* A deposit that opens an entry.
LEMMA OpenedSound ==
  ASSUME NEW n \in 1..ShareCap, NEW a \in 1..MaxPrice
  PROVE  Sound([quantity |-> n, average |-> a, total |-> UInt64(n * a)], ShareCap)
<1>1. MaxPrice \in Nat /\ ShareCap \in Nat \ {0} /\ Word \in Nat
  BY CostAssumption
<1>2. n \in Nat \ {0} /\ a \in Nat /\ n * a \in Nat /\ a * n = n * a
  BY <1>1, ProductType, SMT
<1>3. n * a < Word
  <2>1. n * a <= ShareCap * a /\ a * ShareCap <= MaxPrice * ShareCap
    BY <1>1, <1>2, ProductOrder, SMT
  <2>2. ShareCap * a = a * ShareCap /\ MaxPrice * ShareCap \in Nat /\ a * ShareCap \in Nat
    BY <1>1, <1>2, ProductType, SMT
  <2>3. 0 + MaxPrice * ShareCap < Word
    <3>1. (MaxPrice + 2 * ShareCap) * ShareCap \in Nat
      BY <1>1, ProductType, SMT
    <3>2. 0 * 0 = 0 /\ 0 \in 0..ShareCap /\ 0 \in Nat
      BY <1>1, SMT
    <3>3. MaxPrice * ShareCap
            <= (MaxPrice + 2 * ShareCap) * ShareCap - 0 * 0 + MaxPrice * ShareCap
      BY <2>2, <3>1, <3>2, SMT
    <3>4. 0 < 0 * 0 + 2 * ShareCap /\ 0 < MaxPrice + 2 * ShareCap
      BY <1>1, <3>2, SMT
    <3> QED BY <2>2, <3>2, <3>3, <3>4, TotalBound
  <2> QED BY <1>1, <1>2, <2>1, <2>2, <2>3, SMT
<1>4. UInt64(n * a) = n * a
  BY <1>2, <1>3, Fits
<1> QED BY <1>1, <1>2, <1>3, <1>4, SMT DEF Sound

-----------------------------------------------------------------------------
(* The theorems.                                                            *)

\* The invariant says that the holding is sound.
LEMMA InvSound == CostInv => Sound(holding, ShareCap)
<1>1. ShareCap \in Nat \ {0} /\ Word \in Nat
  BY CostAssumption
<1> QED BY <1>1, SMT DEF CostInv, CostTypeOK, CostCovered, DriftBounded, Sound

\* And a sound holding with an entry is the invariant.
LEMMA SoundInvNext ==
  ASSUME Sound(holding', ShareCap), known' = TRUE
  PROVE  CostInv'
<1>1. ShareCap \in Nat \ {0} /\ MaxPrice \in Nat \ {0} /\ Word \in Nat
  BY CostAssumption
<1>2. MaxPrice + 2 * ShareCap < Word
  <2>1. 1 * (2 * MaxPrice + 2 * ShareCap) <= (2 * ShareCap) * (2 * MaxPrice + 2 * ShareCap)
    BY <1>1, ProductOrder, SMT
  <2>2. (2 * ShareCap) * (2 * MaxPrice + 2 * ShareCap)
          = (2 * MaxPrice + 2 * ShareCap) * (2 * ShareCap)
    BY <1>1, SMT
  <2>3. (2 * MaxPrice + 2 * ShareCap) * (2 * ShareCap) \in Nat
    BY <1>1, ProductType, SMT
  <2> QED BY <1>1, <2>1, <2>2, <2>3, CostAssumption, SMT
<1>3. holding'.average \in 0..(Word - 1)
  BY <1>1, <1>2, SMT DEF Sound
<1> QED BY <1>1, <1>3 DEF CostInv, CostTypeOK, CostCovered, DriftBounded, Sound

\* Fills and adjustments keep the holding sound.
LEMMA StepSound ==
  ASSUME CostInv, [CostNext]_costVars
  PROVE  CostInv'
<1>1. Sound(holding, ShareCap) /\ ShareCap \in Nat \ {0} /\ ShareCap < Word
  BY InvSound, ShareFits, CostAssumption, SMT
<1>2. ASSUME NEW n \in Lots, NEW p \in Prices, Buy(n, p)
      PROVE  CostInv'
  <2>1. Sound(holding', holding.quantity + n) /\ known' = TRUE
    BY <1>1, <1>2, BoughtSound DEF Buy, Lots, Prices
  <2>2. holding.quantity + n \in Nat /\ holding.quantity + n <= ShareCap
    BY <1>1, <1>2, SMT DEF Buy, Lots, Sound
  <2>3. Sound(holding', ShareCap)
    BY <1>1, <2>1, <2>2, SMT DEF Sound
  <2> QED BY <2>1, <2>3, SoundInvNext
<1>3. ASSUME NEW n \in Lots, NEW p \in Prices, SelfTrade(n, p)
      PROVE  CostInv'
  <2> DEFINE b == Bought(holding, n, UInt64(p * n))
             m == holding.quantity + n
  <2>1. Sound(b, m)
    BY <1>1, BoughtSound DEF Lots, Prices
  <2>2. holding.quantity \in 0..ShareCap /\ n \in 1..ShareCap /\ n <= holding.quantity
    BY <1>1, <1>3 DEF SelfTrade, Lots, Sound
  <2>3. m \in Nat /\ m < Word
    BY <1>1, <2>2, ShareFits, CostAssumption, SMT
  <2>4. b.quantity = m
    <3>1. b.quantity = UInt64(holding.quantity + n)
      BY DEF Bought
    <3> QED BY <2>3, <3>1, Fits
  <2>5. n \in 1..b.quantity
    BY <1>1, <2>2, <2>4, SMT
  <2> HIDE DEF b
  <2>6. Sound(Sold(b, n), m) /\ Sold(b, n).quantity = m - n
    BY <2>1, <2>3, <2>4, <2>5, SoldSound
  <2>7. holding' = Sold(b, n) /\ known' = TRUE
    BY <1>3 DEF SelfTrade, b, CostInv, CostTypeOK
  <2>8. m - n \in 0..ShareCap
    BY <1>1, <2>2, SMT
  <2>9. Sound(holding', ShareCap)
    BY <2>6, <2>7, <2>8 DEF Sound
  <2> QED BY <2>7, <2>9, SoundInvNext
<1>4. ASSUME NEW n \in Lots, Sell(n) \/ Withdraw(n)
      PROVE  CostInv'
  <2>1. n <= holding.quantity /\ holding' = Sold(holding, n) /\ known' = TRUE
    BY <1>4 DEF Sell, Withdraw, EnoughShares, CostInv, CostTypeOK
  <2>2. n \in 1..holding.quantity
    BY <1>1, <2>1, SMT DEF Lots, Sound
  <2>3. Sound(holding', ShareCap)
    BY <1>1, <2>1, <2>2, SoldSound
  <2> QED BY <2>1, <2>3, SoundInvNext
<1>5. ASSUME NEW n \in Lots, NEW a \in Prices \cup {0}, Deposit(n, a)
      PROVE  CostInv'
  <2>1. known' = TRUE /\ n \in 1..ShareCap /\ holding.quantity + n <= ShareCap
    BY <1>5 DEF Deposit, Lots
  <2>2. CASE ~known /\ a # 0
    <3>1. a \in 1..MaxPrice
      BY <2>2 DEF Prices
    <3>2. holding' = [quantity |-> n, average |-> a, total |-> UInt64(n * a)]
      BY <1>5, <2>2 DEF Deposit
    <3>3. Sound(holding', ShareCap)
      BY <2>1, <3>1, <3>2, OpenedSound
    <3> QED BY <2>1, <3>3, SoundInvNext
  <2>3. CASE known
    <3>1. holding' = [holding EXCEPT !.quantity = UInt64(@ + n),
                                     !.total = UInt64(@ + n * holding.average)]
      BY <1>5, <2>3 DEF Deposit
    <3>2. Sound(holding', ShareCap)
      BY <1>1, <2>1, <3>1, DepositSound
    <3> QED BY <2>1, <3>2, SoundInvNext
  <2> QED BY <1>5, <2>2, <2>3 DEF Deposit
<1>6. CASE UNCHANGED costVars
  BY <1>6 DEF costVars, CostInv, CostTypeOK, CostCovered, DriftBounded
<1> QED BY <1>2, <1>3, <1>4, <1>5, <1>6 DEF CostNext

\* However fills, self-trades and adjustments follow each other, for any caps below the
\* word size.
THEOREM CostInvariant == CostSpec => []CostInv
<1>1. CostInit => CostInv
  <2>1. ShareCap \in Nat \ {0} /\ MaxPrice \in Nat \ {0} /\ Word \in Nat /\ 0 < Word
    BY CostAssumption, ShareFits, SMT
  <2>2. ASSUME CostInit PROVE CostInv
    <3>1. known = FALSE /\ holding = Empty
      BY <2>2 DEF CostInit
    <3>2. holding = [quantity |-> 0, average |-> 0, total |-> 0]
      BY <3>1 DEF Empty
    <3>3. CostTypeOK
      <4>1. 0 \in 0..ShareCap /\ 0 \in 0..(Word - 1)
        BY <2>1, SMT
      <4>2. holding \in [quantity: 0..ShareCap, average: 0..(Word - 1), total: 0..(Word - 1)]
        BY <3>2, <4>1
      <4> QED BY <3>1, <4>2 DEF CostTypeOK
    <3>4. CostCovered /\ DriftBounded
      BY <2>1, <3>2, SMT DEF CostCovered, DriftBounded
    <3> QED BY <3>3, <3>4 DEF CostInv
  <2> QED BY <2>2
<1>2. CostInv /\ [CostNext]_costVars => CostInv'
  BY StepSound
<1> QED BY <1>1, <1>2, PTL DEF CostSpec

\* matchEvents and applyStockBalanceAdjust never write off more than TotalBuyAmount
\* records, so the unchecked subtraction does not wrap.
THEOREM TotalNeverUnderflows == CostSpec => []CostCovered
<1>1. CostInv => CostCovered
  BY DEF CostInv
<1> QED BY <1>1, CostInvariant, PTL

\* What rounding leaves in TotalBuyAmount, and with it the excess of the average over
\* the highest price, does not grow with the number of trades.
THEOREM RoundingStaysBounded == CostSpec => []DriftBounded
<1>1. CostInv => DriftBounded
  BY DEF CostInv
<1> QED BY <1>1, CostInvariant, PTL

\* The types: no field ever reaches the word size.
THEOREM CostTypeCorrect == CostSpec => []CostTypeOK
<1>1. CostInv => CostTypeOK
  BY DEF CostInv
<1> QED BY <1>1, CostInvariant, PTL

-----------------------------------------------------------------------------
(* The duplicate check.                                                     *)

DedupInv == Known(Ids, dedup, wal, start) /\ WalApart

\* The rings of an empty log are empty.
LEMMA DedupInitInv == DedupInit => DedupInv
<1> SUFFICES ASSUME DedupInit PROVE DedupInv
  OBVIOUS
<1>1. wal = <<>> /\ dedup = newDedup /\ start = 1
  BY DEF DedupInit
<1>2. wal \in Seq(Records(Ids)) /\ Len(wal) = 0 /\ 1 \in Nat \ {0} /\ 0 = 1 - 1 /\ 0 \in Nat
  BY <1>1, SMT
<1>3. start \in Nat \ {0} /\ start <= DedupStart(Len(wal))
  BY <1>1, <1>2, WindowAssumption, SMT DEF DedupStart
<1>4. dedup = [k \in Kinds |-> newRecentIDs]
  BY <1>1 DEF newDedup
<1>5. \A k \in Kinds : Tracks(dedup[k], wal, k, start, Len(wal))
  <2> TAKE k \in Kinds
  <2>1. dedup[k] = newRecentIDs /\ Tracks(newRecentIDs, wal, k, start, start - 1)
    BY <1>3, <1>4, TracksNothing
  <2> QED BY <1>1, <1>2, <2>1
<1>6. WalApart
  BY <1>2, SMT DEF WalApart
<1> QED BY <1>2, <1>3, <1>4, <1>5, <1>6 DEF DedupInv, Known

\* Accepting a record and loading the log keep the invariant.
LEMMA DedupNextInv == DedupInv /\ [DedupNext]_dedupVars => DedupInv'
<1> SUFFICES ASSUME DedupInv, [DedupNext]_dedupVars PROVE DedupInv'
  OBVIOUS
<1>1. /\ wal \in Seq(Records(Ids)) /\ dedup = [k \in Kinds |-> dedup[k]]
      /\ start \in Nat \ {0} /\ start <= DedupStart(Len(wal))
      /\ \A k \in Kinds : Tracks(dedup[k], wal, k, start, Len(wal))
      /\ WalApart /\ Known(Ids, dedup, wal, start)
  BY DEF DedupInv, Known
<1>2. PICK n \in Nat : n = Len(wal)
  BY <1>1, SMT
<1>3. /\ DedupStart(n) \in Nat \ {0} /\ DedupStart(n) <= n + 1
      /\ \A i \in 1..n : i >= DedupStart(n) <=> i > n - Window
      /\ DedupStart(n) <= DedupStart(n + 1) /\ DedupStart(n + 1) \in Nat
  <2>1. n + 1 \in Nat
    BY SMT
  <2> QED BY <2>1, StartWithin
<1>4. \A i, j \in 1..n : i < j /\ wal[i] = wal[j] => j - i > Window
  BY <1>1, <1>2 DEF WalApart
<1>5. ASSUME NEW kind \in Kinds, NEW id \in Ids, Accept(kind, id) PROVE DedupInv'
  <2>1. PICK v, e : v = Append(wal, [kind |-> kind, id |-> id]) /\ e = add(dedup, kind, id)
    OBVIOUS
  <2>2. wal' = v /\ dedup' = e /\ start' = start /\ ~has(dedup, kind, id)
    BY <1>5, <2>1 DEF Accept
  <2>3. Known(Ids, e, v, start)
    BY <1>1, <2>1, <2>2, KnownNext
  <2>4. Len(v) = n + 1
    BY <1>1, <1>2, <2>1, SMT
  <2>6. /\ \A i \in 1..n : v[i] = wal[i]
        /\ v[n + 1] = [kind |-> kind, id |-> id]
    BY <1>1, <1>2, <2>1, SMT
  <2>7. ASSUME NEW i \in 1..(n + 1), NEW j \in 1..(n + 1), i < j, v[i] = v[j]
        PROVE  j - i > Window
    <3>1. i \in 1..n
      BY <2>7, SMT
    <3>2. CASE j = n + 1
      <4>1. wal[i] = [kind |-> kind, id |-> id]
        BY <2>6, <2>7, <3>1, <3>2
      <4>2. wal[i].kind = kind /\ wal[i].id = id /\ i \in 1..Len(wal)
        BY <1>2, <3>1, <4>1, SMT
      <4>3. Len(wal) + 1 - i > Window
        BY <1>1, <2>2, <4>2, UnknownFar
      <4> QED BY <1>2, <3>2, <4>3, WindowAssumption, SMT
    <3>3. CASE j \in 1..n
      BY <1>4, <2>6, <2>7, <3>1, <3>3
    <3>4. j = n + 1 \/ j \in 1..n
      BY SMT
    <3> QED BY <3>2, <3>3, <3>4
  <2>8. WalApart'
    BY <1>2, <2>2, <2>4, <2>7 DEF WalApart
  <2> QED BY <2>2, <2>3, <2>8 DEF DedupInv
<1>6. CASE DedupRestart
  <2>1. dedup' = loadDedup(wal) /\ start' = DedupStart(n) /\ wal' = wal
    BY <1>2, <1>6 DEF DedupRestart
  <2>2. ASSUME NEW i \in DedupStart(n)..n, NEW j \in DedupStart(n)..n, i < j, wal[i] = wal[j]
        PROVE  FALSE
    <3>1. i \in 1..n /\ j \in 1..n /\ i >= DedupStart(n)
      BY <1>3, SMT
    <3>2. i > n - Window /\ j - i > Window
      BY <1>3, <1>4, <2>2, <3>1
    <3> QED BY <3>1, <3>2, WindowAssumption, SMT
  <2>3. \A i, j \in DedupStart(n)..n : i < j \/ j < i \/ i = j
    BY <1>3, SMT
  <2>4. \A i, j \in DedupStart(Len(wal))..Len(wal) : i # j => wal[i] # wal[j]
    BY <1>2, <2>2, <2>3
  <2>5. /\ loadDedup(wal) = [k \in Kinds |-> loadDedup(wal)[k]]
        /\ \A k \in Kinds : Tracks(loadDedup(wal)[k], wal, k, DedupStart(Len(wal)), Len(wal))
    BY <1>1, <2>4, LoadTracks
  <2>6. DedupStart(n) <= DedupStart(n)
    BY <1>3, SMT
  <2>7. WalApart'
    BY <1>1, <2>1 DEF WalApart
  <2> QED BY <1>1, <1>2, <1>3, <2>1, <2>5, <2>6, <2>7 DEF DedupInv, Known
<1>7. CASE UNCHANGED dedupVars
  BY <1>7 DEF DedupInv, Known, dedupVars, WalApart
<1> QED BY <1>5, <1>6, <1>7 DEF DedupNext

Stretch(s, a, b) == {s[x] : x \in a..b}
Later(k, i) == {j \in OfKind(k) : j > i}
Between(k, i, j) == {m \in OfKind(k) : i < m /\ m < j}

\* How many records stand in a part of the list.
LEMMA ListedCount ==
  ASSUME NEW w, NEW k, NEW lo \in Nat, NEW hi \in Nat, NEW s \in Seq(Nat),
         Listed(w, k, lo, hi, s),
         NEW a \in 1..(Len(s) + 1), NEW b \in 0..Len(s), a <= b + 1
  PROVE  Cardinality(Stretch(s, a, b)) = b + 1 - a
<1>1. PICK n \in Nat : n = Len(s)
  BY SMT
<1>2. /\ \A p, q \in 1..n : p < q => s[p] < s[q]
      /\ \A p \in 1..n : s[p] \in Nat
  <2>1. \A p \in 1..n : s[p] \in Nat
    BY <1>1, SMT
  <2> QED BY <1>1, <2>1 DEF Listed
<1>3. a \in Int /\ b \in Int /\ \A x \in a..b : x \in 1..n
  BY <1>1, SMT
<1>4. IsFiniteSet(a..b) /\ Cardinality(a..b) = b + 1 - a
  <2>1. IsFiniteSet(a..b) /\ Cardinality(a..b) = IF a > b THEN 0 ELSE b-a+1
    BY <1>3, FS_Interval
  <2> QED BY <1>1, <1>3, <2>1, SMT
<1>5. PICK T : T = Stretch(s, a, b) /\ T = {s[x] : x \in a..b}
  BY DEF Stretch
<1>6. PICK f : f = [x \in a..b |-> s[x]]
  OBVIOUS
<1>7. f \in [a..b -> T] /\ \A t \in T : \E x \in a..b : f[x] = t
  BY <1>5, <1>6
<1>8. ASSUME NEW x \in a..b, NEW y \in a..b, f[x] = f[y] PROVE x = y
  <2>1. x \in 1..n /\ y \in 1..n /\ s[x] = s[y] /\ s[x] \in Nat
    BY <1>2, <1>3, <1>6, <1>8
  <2>2. ~(x < y) /\ ~(y < x)
    BY <1>2, <2>1, SMTT(30)
  <2> QED BY <2>1, <2>2, SMT
<1>9. f \in Bijection(a..b, T)
  BY <1>7, <1>8 DEF Bijection, Injection, Surjection, IsInjective
<1>10. ExistsBijection(a..b, T)
  BY <1>9 DEF ExistsBijection
<1> QED BY <1>4, <1>5, <1>10, FS_Bijection

\* The listing behind a ring of DedupMachine.
LEMMA ListOfKind ==
  ASSUME DedupInv, NEW k \in Kinds
  PROVE  \E s \in Seq(Nat) :
           /\ Listed(wal, k, start, Len(wal), s)
           /\ RingOf(dedup[k], IdsAt(wal, s)) /\ Len(IdsAt(wal, s)) = Len(s)
           /\ \A p \in 1..Len(s) : /\ s[p] \in OfKind(k) /\ wal[s[p]].id \in Ids
                                   /\ IdsAt(wal, s)[p] = wal[s[p]].id
           /\ \A i \in OfKind(k) : \E p \in 1..Len(s) : s[p] = i
<1>1. /\ wal \in Seq(Records(Ids)) /\ start \in Nat \ {0}
      /\ Tracks(dedup[k], wal, k, start, Len(wal))
  BY DEF DedupInv, Known
<1>2. PICK s \in Seq(Nat) : /\ Listed(wal, k, start, Len(wal), s)
                             /\ RingOf(dedup[k], IdsAt(wal, s))
  BY <1>1 DEF Tracks
<1>3. Len(s) \in Nat /\ Len(wal) \in Nat
  BY <1>1, SMT
<1>4. /\ \A p \in 1..Len(s) : s[p] \in OfKind(k)
      /\ \A i \in OfKind(k) : \E p \in 1..Len(s) : s[p] = i
  BY <1>2 DEF Listed, OfKind
<1>5. \A i \in OfKind(k) : wal[i].id \in Ids
  <2> TAKE i \in OfKind(k)
  <2>1. i \in start..Len(wal)
    BY DEF OfKind
  <2>2. i \in 1..Len(wal)
    BY <1>1, <1>3, <2>1, SMT
  <2>3. wal[i] \in Records(Ids)
    BY <1>1, <2>2, SMT
  <2> QED BY <2>3, SMT DEF Records
<1>6. Len(IdsAt(wal, s)) = Len(s) /\ \A p \in 1..Len(s) : IdsAt(wal, s)[p] = wal[s[p]].id
  BY <1>3, SMT DEF IdsAt
<1> QED BY <1>2, <1>4, <1>5, <1>6

\* The invariant gives the types.
LEMMA InvTypes == DedupInv => DedupTypeOK
<1> SUFFICES ASSUME DedupInv PROVE DedupTypeOK
  OBVIOUS
<1>1. wal \in Seq([kind: Kinds, id: Ids])
  BY DEF DedupInv, Known, Records
<1>2. ASSUME NEW k \in Kinds
      PROVE  /\ dedup[k].seen \subseteq Ids
             /\ dedup[k].ring \in [0..(Window - 1) -> Ids \cup {0}]
             /\ dedup[k].pos \in 0..(Window - 1)
  <2>1. PICK s \in Seq(Nat) :
           /\ RingOf(dedup[k], IdsAt(wal, s)) /\ Len(IdsAt(wal, s)) = Len(s)
           /\ \A p \in 1..Len(s) : wal[s[p]].id \in Ids /\ IdsAt(wal, s)[p] = wal[s[p]].id
    BY ListOfKind
  <2>2. PICK h, r : h = IdsAt(wal, s) /\ r = dedup[k]
    OBVIOUS
  <2>3. PICK n \in Nat : n = Len(s)
    BY SMT
  <2>4. Len(h) = n /\ \A p \in 1..n : h[p] \in Ids
    BY <2>1, <2>2, <2>3
  <2>5. /\ r.pos \in 0..(Window - 1)
        /\ r.ring = [x \in 0..(Window - 1) |->
                      IF Age(x, r.pos) <= n THEN h[n + 1 - Age(x, r.pos)] ELSE 0]
        /\ \A id : id # 0 => (id \in r.seen <=> \E p \in 1..n : p > n - Window /\ h[p] = id)
        /\ 0 \in r.seen <=> \E p \in 1..n : h[p] = 0
    BY <2>1, <2>2, <2>4 DEF RingOf
  <2>6. ASSUME NEW id \in r.seen PROVE id \in Ids
    <3>1. \E p \in 1..n : h[p] = id
      BY <2>5
    <3> QED BY <2>4, <3>1
  <2>7. ASSUME NEW x \in 0..(Window - 1), Age(x, r.pos) <= n
        PROVE  h[n + 1 - Age(x, r.pos)] \in Ids
    <3>1. Age(x, r.pos) \in Int /\ 1 <= Age(x, r.pos)
      BY <2>5, AgeType
    <3>2. n + 1 - Age(x, r.pos) \in 1..n
      BY <2>7, <3>1, SMT
    <3> QED BY <2>4, <3>2
  <2>8. r.ring \in [0..(Window - 1) -> Ids \cup {0}]
    BY <2>5, <2>7
  <2> QED BY <2>2, <2>5, <2>6, <2>8
<1> QED BY <1>1, <1>2 DEF DedupTypeOK

\* The records of a kind after the one at place p of the list.
LEMMA After ==
  ASSUME DedupInv, NEW k \in Kinds, NEW s \in Seq(Nat),
         Listed(wal, k, start, Len(wal), s),
         \A p \in 1..Len(s) : s[p] \in OfKind(k),
         \A i \in OfKind(k) : \E p \in 1..Len(s) : s[p] = i,
         NEW p \in 1..Len(s)
  PROVE  /\ Cardinality(Later(k, s[p])) = Len(s) - p
         /\ \A q \in 1..Len(s) : p < q =>
              Cardinality(Between(k, s[p], s[q])) = q - p - 1
<1>1. PICK n \in Nat : n = Len(s)
  BY SMT
<1>2. \A x \in 1..n : s[x] \in Nat
  BY <1>1, SMT
<1>3. \A x, y \in 1..n : x < y => s[x] < s[y]
  BY <1>1 DEF Listed
<1>4. \A x, y \in 1..n : s[x] < s[y] <=> x < y
  <2> TAKE x, y \in 1..n
  <2>1. x < y \/ y < x \/ x = y
    BY SMT
  <2>2. s[y] < s[x] => ~(s[x] < s[y])
    BY <1>2, SMT
  <2>3. ~(s[x] < s[x]) /\ ~(x < x) /\ (y < x => ~(x < y))
    BY <1>2, SMT
  <2> QED BY <1>3, <2>1, <2>2, <2>3
<1>5. start \in Nat /\ Len(wal) \in Nat
  BY SMT DEF DedupInv, Known
<1>6. Later(k, s[p]) = Stretch(s, p + 1, n)
  <2>1. ASSUME NEW j \in OfKind(k), j > s[p] PROVE \E x \in (p + 1)..n : s[x] = j
    <3>1. PICK x \in 1..n : s[x] = j
      BY <1>1
    <3>2. s[p] < s[x] /\ p \in 1..n
      BY <1>1, <1>2, <2>1, <3>1, SMT
    <3>3. p < x
      BY <1>4, <3>2
    <3> QED BY <1>1, <3>1, <3>3, SMT
  <2>2. ASSUME NEW x \in (p + 1)..n PROVE s[x] \in OfKind(k) /\ s[x] > s[p]
    <3>1. x \in 1..n /\ p \in 1..n /\ p < x
      BY <1>1, SMT
    <3>2. s[p] < s[x]
      BY <1>3, <3>1
    <3> QED BY <1>1, <1>2, <3>1, <3>2, SMT
  <2> QED BY <2>1, <2>2 DEF Later, Stretch
<1>7. Cardinality(Later(k, s[p])) = n - p
  <2>1. p + 1 \in 1..(Len(s) + 1) /\ Len(s) \in 0..Len(s) /\ p + 1 <= Len(s) + 1
    BY <1>1, SMT
  <2>2. Cardinality(Stretch(s, p + 1, n)) = n + 1 - (p + 1)
    BY <1>1, <1>5, <2>1, ListedCount
  <2>3. n + 1 - (p + 1) = n - p
    BY <1>1, SMT
  <2> QED BY <1>6, <2>2, <2>3
<1>8. ASSUME NEW q \in 1..n, p < q
      PROVE  Cardinality(Between(k, s[p], s[q])) = q - p - 1
  <2>1. p + 1 \in 1..(Len(s) + 1) /\ q - 1 \in 0..Len(s) /\ p + 1 <= (q - 1) + 1
    BY <1>1, <1>8, SMT
  <2>2. Cardinality(Stretch(s, p + 1, q - 1)) = (q - 1) + 1 - (p + 1)
    BY <1>5, <2>1, ListedCount
  <2>3. ASSUME NEW j \in OfKind(k), s[p] < j, j < s[q] PROVE \E x \in (p + 1)..(q - 1) : s[x] = j
    <3>1. PICK x \in 1..n : s[x] = j
      BY <1>1
    <3>2. p < x /\ x < q
      BY <1>1, <1>4, <2>3, <3>1
    <3> QED BY <1>1, <3>1, <3>2, SMT
  <2>4. ASSUME NEW x \in (p + 1)..(q - 1)
        PROVE  s[x] \in OfKind(k) /\ s[p] < s[x] /\ s[x] < s[q]
    <3>1. x \in 1..n /\ p \in 1..n /\ p < x /\ x < q
      BY <1>1, SMT
    <3> QED BY <1>1, <1>3, <3>1
  <2>5. Between(k, s[p], s[q]) = Stretch(s, p + 1, q - 1)
    BY <2>3, <2>4 DEF Between, Stretch
  <2>6. (q - 1) + 1 - (p + 1) = q - p - 1
    BY <1>1, SMT
  <2> QED BY <2>2, <2>5, <2>6
<1> QED BY <1>1, <1>7, <1>8

\* The ring of a kind holds its last Window records: what RingOf says, by counting.
LEMMA InvExactWindow == DedupInv => ExactWindow
<1> SUFFICES ASSUME DedupInv, NEW k \in Kinds, NEW id \in Ids \ {0}
             PROVE  has(dedup, k, id) <=>
                      \E i \in Taken(k, id) : Cardinality(Later(k, i)) < Window
  BY DEF ExactWindow, Later
<1>1. PICK s \in Seq(Nat) :
        /\ Listed(wal, k, start, Len(wal), s)
        /\ RingOf(dedup[k], IdsAt(wal, s)) /\ Len(IdsAt(wal, s)) = Len(s)
        /\ \A p \in 1..Len(s) : /\ s[p] \in OfKind(k) /\ wal[s[p]].id \in Ids
                                /\ IdsAt(wal, s)[p] = wal[s[p]].id
        /\ \A i \in OfKind(k) : \E p \in 1..Len(s) : s[p] = i
  BY ListOfKind
<1>2. has(dedup, k, id) <=> \E p \in 1..Len(s) : p > Len(s) - Window /\ wal[s[p]].id = id
  <2>1. PICK h, r : h = IdsAt(wal, s) /\ r = dedup[k]
    OBVIOUS
  <2>2. r.seen = dedup[k].seen /\ Len(h) = Len(s) /\ \A p \in 1..Len(s) : h[p] = wal[s[p]].id
    BY <1>1, <2>1
  <2>3. id \in r.seen <=> \E p \in 1..Len(h) : p > Len(h) - Window /\ h[p] = id
    BY <1>1, <2>1 DEF RingOf
  <2> QED BY <2>2, <2>3 DEF has
<1>3. \A p \in 1..Len(s) : Cardinality(Later(k, s[p])) = Len(s) - p
  BY <1>1, After
<1>4. \A p \in 1..Len(s) : p > Len(s) - Window <=> Len(s) - p < Window
  BY WindowAssumption, SMT
<1>5. Taken(k, id) = {i \in OfKind(k) : wal[i].id = id}
  BY DEF Taken
<1>6. ASSUME NEW p \in 1..Len(s), p > Len(s) - Window, wal[s[p]].id = id
      PROVE  \E i \in Taken(k, id) : Cardinality(Later(k, i)) < Window
  <2>1. s[p] \in Taken(k, id)
    BY <1>1, <1>5, <1>6
  <2>2. Cardinality(Later(k, s[p])) < Window
    BY <1>3, <1>4, <1>6
  <2> QED BY <2>1, <2>2
<1>7. ASSUME NEW i \in Taken(k, id), Cardinality(Later(k, i)) < Window
      PROVE  \E p \in 1..Len(s) : p > Len(s) - Window /\ wal[s[p]].id = id
  <2>1. i \in OfKind(k) /\ wal[i].id = id
    BY <1>5
  <2>2. PICK p \in 1..Len(s) : s[p] = i
    BY <1>1, <2>1
  <2> QED BY <1>3, <1>4, <1>7, <2>1, <2>2
<1> QED BY <1>2, <1>6, <1>7

\* Between two equal records of a kind there are Window others of that kind.
LEMMA InvNoEarlyRepeat == DedupInv => NoEarlyRepeat
<1> SUFFICES ASSUME DedupInv, NEW k \in Kinds, NEW id \in Ids,
                    NEW i \in Taken(k, id), NEW j \in Taken(k, id), i < j
             PROVE  Cardinality(Between(k, i, j)) >= Window
  BY DEF NoEarlyRepeat, Between
<1>1. PICK s \in Seq(Nat) :
        /\ Listed(wal, k, start, Len(wal), s)
        /\ RingOf(dedup[k], IdsAt(wal, s)) /\ Len(IdsAt(wal, s)) = Len(s)
        /\ \A p \in 1..Len(s) : /\ s[p] \in OfKind(k) /\ wal[s[p]].id \in Ids
                                /\ IdsAt(wal, s)[p] = wal[s[p]].id
        /\ \A m \in OfKind(k) : \E p \in 1..Len(s) : s[p] = m
  BY ListOfKind
<1>2. i \in OfKind(k) /\ wal[i].id = id /\ j \in OfKind(k) /\ wal[j].id = id
  BY DEF Taken
<1>3. PICK p \in 1..Len(s), q \in 1..Len(s) : s[p] = i /\ s[q] = j
  BY <1>1, <1>2
<1>4. Len(s) \in Nat /\ i \in Nat /\ j \in Nat
  BY <1>3, SMT
<1>5. ~(q < p) /\ p # q
  <2>1. \A x, y \in 1..Len(s) : x < y => s[x] < s[y]
    BY <1>1 DEF Listed
  <2>2. ~(j < i) /\ i # j
    BY <1>4, SMT
  <2> QED BY <1>3, <2>1, <2>2
<1>6. p < q
  BY <1>4, <1>5, SMT
<1>7. q - p > Window
  BY <1>1, <1>2, <1>3, <1>6 DEF RingOf, Spaced
<1>8. Cardinality(Between(k, i, j)) = q - p - 1
  BY <1>1, <1>3, <1>6, After
<1> QED BY <1>4, <1>7, <1>8, WindowAssumption, SMT

\* dedup.go, Engine.loadDedup: the rings and what they know, over every sequence of
\* requests and restarts.
THEOREM DedupInvariant == DedupSpec => []DedupInv
<1> QED BY DedupInitInv, DedupNextInv, PTL DEF DedupSpec

\* recentIDs.add: the ring stays in its bounds.
THEOREM DedupTypeCorrect == DedupSpec => []DedupTypeOK
<1> QED BY DedupInvariant, InvTypes, PTL

\* recentIDs.has: the ring answers exactly for the last Window ids of its kind.
THEOREM WindowIsExact == DedupSpec => []ExactWindow
<1> QED BY DedupInvariant, InvExactWindow, PTL

\* The handlers' check: no repetition of an id within the window of its kind.
THEOREM NoRepeatInWindow == DedupSpec => []NoEarlyRepeat
<1> QED BY DedupInvariant, InvNoEarlyRepeat, PTL

\* Engine.loadDedup: across restarts, none within Window records of the Input WAL.
THEOREM WalStaysApart == DedupSpec => []WalApart
<1>1. DedupInv => WalApart
  BY DEF DedupInv
<1> QED BY <1>1, DedupInvariant, PTL

-----------------------------------------------------------------------------
(* The end of the process.                                                  *)

Ended == fan = "ended" /\ \A w \in Consumers : consumer[w] = "ended"

\* ClosedAfterUse is not inductive: that the publisher has ended is known because main
\* waited for Handler.Run, which waited for its goroutines, and because nothing is closed
\* before.  The types need that the library, the offer and the handler share Prefetch.
ProgramInv ==
  /\ ProgramTypeOK
  /\ Unacked <= Prefetch
  /\ handler = "ended" => Ended
  /\ main \in {"close", "exited"} /\ ~panicked => handler = "ended"
  /\ closed > 0 => main \in {"close", "exited"}

\* Nothing has started and nothing is closed.
LEMMA ProgramInitInv == ProgramInit => ProgramInv
<1> SUFFICES ASSUME ProgramInit PROVE ProgramInv
  OBVIOUS
<1>1. Prefetch \in Nat \ {0}
  BY ProgramAssumption
<1>2. Unacked = 0
  BY SMT DEF ProgramInit, Unacked
<1>3. Unacked <= Prefetch /\ 0 \in 0..Prefetch /\ 0 \in 0..3 /\ ~(0 > 0)
  BY <1>1, <1>2, SMT
<1>4. ProgramTypeOK
  BY <1>3 DEF ProgramInit, ProgramTypeOK
<1> QED BY <1>3, <1>4 DEF ProgramInit, ProgramInv

\* What the steps of the broker and of the deliveries may do to the held ones.
LEMMA HeldNext ==
  ASSUME ProgramInv, ProgramNext
  PROVE  inbox' \in 0..Prefetch /\ Unacked' <= Prefetch
<1>1. Prefetch \in Nat \ {0} /\ inbox \in 0..Prefetch /\ Unacked <= Prefetch
  BY ProgramAssumption DEF ProgramInv, ProgramTypeOK
<1>2. CASE UNCHANGED <<inbox, deliver, main>>
  BY <1>1, <1>2 DEF Unacked
<1>3. CASE inbox' = inbox /\ (main' = "handle" => main = "handle")
           /\ (deliver' = "offer" => deliver = "offer")
  BY <1>1, <1>3, SMT DEF Unacked
<1>4. CASE Send
  BY <1>1, <1>4, SMT DEF Send, WithinPrefetch, Unacked
<1>5. CASE Receive
  BY <1>1, <1>5, SMT DEF Receive, Unacked
<1>6. CASE Take
  BY <1>1, <1>6, SMT DEF Take, Unacked
<1>7. CASE Signal \/ Lose \/ SaverTakes \/ SaverSaves \/ SaverStops
  BY <1>2, <1>7 DEF Signal, Lose, SaverTakes, SaverSaves, SaverStops
<1>8. CASE Boot \/ BootCanceled \/ Stop \/ Closed \/ Tick \/ Handle \/ Snapshot
           \/ Cancel \/ Join \/ Close \/ DeliverStops
  BY <1>3, <1>8
  DEF Boot, BootCanceled, Stop, Closed, Tick, Handle, Snapshot, Cancel, Join, Close,
      DeliverStops
<1>9. CASE FanStops \/ Saved \/ HandlerEnds
           \/ \E w \in Consumers : \/ Load(w) \/ Drain(w) \/ Answer(w) \/ Canceled(w)
                                   \/ Woken(w) \/ ConsumerStops(w)
  BY <1>2, <1>9
  DEF FanStops, Saved, HandlerEnds, Load, Drain, Answer, Canceled, Woken, ConsumerStops, Quiet
<1>10. CASE Exited
  BY <1>2, <1>10 DEF Exited, programVars
<1> QED
  BY <1>4, <1>5, <1>6, <1>7, <1>8, <1>9, <1>10 DEF ProgramNext

\* A step of the main goroutine, of the broker, of the deliveries or of the saver.
EngineStep ==
  \/ Signal \/ Send \/ Lose
  \/ Boot \/ BootCanceled \/ Stop \/ Take \/ Closed \/ Tick \/ Handle \/ Snapshot
  \/ Cancel \/ Join \/ Close
  \/ Receive \/ DeliverStops
  \/ SaverTakes \/ SaverSaves \/ SaverStops

ConsumerStep(w) ==
  Load(w) \/ Drain(w) \/ Answer(w) \/ Canceled(w) \/ Woken(w) \/ ConsumerStops(w)

ConsumerType == [Consumers -> {"load", "drain", "call", "save", "select", "ended"}]

\* A consumer's step moves it alone, and one that has ended takes none.
LEMMA ConsumerMoves ==
  ASSUME consumer \in ConsumerType, (\E w \in Consumers : ConsumerStep(w)) \/ Saved
  PROVE  /\ consumer' \in ConsumerType
         /\ \E w \in Consumers : consumer[w] # "ended"
         /\ UNCHANGED <<fan, handler>> /\ Quiet
<1>1. "mq" \in Consumers
  BY DEF Consumers
<1>2. ASSUME NEW w \in Consumers,
             NEW pc \in {"load", "drain", "call", "save", "select", "ended"},
             consumer' = [consumer EXCEPT ![w] = pc]
      PROVE  consumer' \in ConsumerType
  BY <1>2 DEF ConsumerType
<1>3. ASSUME NEW w \in Consumers, ConsumerStep(w)
      PROVE  /\ \E pc \in {"load", "drain", "call", "save", "select", "ended"} :
                  consumer' = [consumer EXCEPT ![w] = pc]
             /\ consumer[w] # "ended" /\ UNCHANGED <<fan, handler>> /\ Quiet
  <2>1. CASE Load(w)
    BY <2>1 DEF Load
  <2>2. CASE Drain(w)
    BY <2>2 DEF Drain
  <2>3. CASE Answer(w)
    BY <2>3 DEF Answer
  <2>4. CASE Canceled(w)
    BY <2>4 DEF Canceled, Interruptible
  <2>5. CASE Woken(w) \/ ConsumerStops(w)
    BY <2>5 DEF Woken, ConsumerStops
  <2> QED BY <1>3, <2>1, <2>2, <2>3, <2>4, <2>5 DEF ConsumerStep
<1>4. CASE Saved
  BY <1>1, <1>2, <1>4 DEF Saved
<1> QED BY <1>2, <1>3, <1>4

\* Every step keeps the invariant: the publisher's goroutines never start again, and
\* main closes only after Join or a panic.
LEMMA ProgramNextInv == ProgramInv /\ [ProgramNext]_programVars => ProgramInv'
<1> SUFFICES ASSUME ProgramInv, [ProgramNext]_programVars PROVE ProgramInv'
  OBVIOUS
<1>1. CASE UNCHANGED programVars
  BY <1>1 DEF programVars, pub, ProgramInv, ProgramTypeOK, Unacked, Ended
<1>2. ASSUME ProgramNext PROVE ProgramInv'
  <2>1. inbox' \in 0..Prefetch /\ Unacked' <= Prefetch
    BY <1>2, HeldNext
  <2>2. consumer \in ConsumerType /\ closed \in 0..3
    BY DEF ConsumerType, ProgramInv, ProgramTypeOK
  <2>3. CASE EngineStep
    <3>1. UNCHANGED pub
      BY <2>3
      DEF EngineStep, Signal, Send, Lose, Boot, BootCanceled, Stop, Take, Closed, Tick, Handle,
          Snapshot, Cancel, Join, Close, Receive, DeliverStops, SaverTakes, SaverSaves, SaverStops
    <3>2. closed' \in 0..3 /\ (closed' > 0 => main' \in {"close", "exited"})
      <4>1. CASE Close
        <5>1. closed' \in 0..3
          BY <2>2, <4>1, SMT DEF Close
        <5> QED BY <4>1, <5>1 DEF Close
      <4>2. CASE closed' = closed /\ (main \in {"close", "exited"} => main' = main)
        BY <2>2, <4>2 DEF ProgramInv
      <4> QED
        BY <2>3, <4>1, <4>2
        DEF EngineStep, Signal, Send, Lose, Boot, BootCanceled, Stop, Take, Closed, Tick, Handle,
            Snapshot, Cancel, Join, Receive, DeliverStops, SaverTakes, SaverSaves, SaverStops
    <3>3. main' \in {"close", "exited"} /\ ~panicked' => handler' = "ended"
      <4>1. CASE Cancel
        BY <4>1 DEF Cancel
      <4>2. CASE Join
        BY <3>1, <4>2 DEF Join, pub
      <4>3. CASE Close
        BY <3>1, <4>3 DEF Close, pub, ProgramInv
      <4>4. CASE main' = main /\ panicked' = panicked
        BY <3>1, <4>4 DEF pub, ProgramInv
      <4>5. CASE main' \notin {"close", "exited"}
        BY <4>5
      <4> QED
        BY <2>3, <4>1, <4>2, <4>3, <4>4, <4>5
        DEF EngineStep, Signal, Send, Lose, Boot, BootCanceled, Stop, Take, Closed, Tick, Handle,
            Snapshot, Receive, DeliverStops, SaverTakes, SaverSaves, SaverStops
    <3>4. ProgramTypeOK'
      <4>1. /\ panicked \in BOOLEAN /\ done \in BOOLEAN /\ lost \in BOOLEAN
            /\ pending \in BOOLEAN
        BY DEF ProgramInv, ProgramTypeOK
      <4>2. /\ panicked' \in BOOLEAN /\ done' \in BOOLEAN /\ lost' \in BOOLEAN
            /\ pending' \in BOOLEAN
        BY <2>3, <4>1
        DEF EngineStep, Signal, Send, Lose, Boot, BootCanceled,
            Stop, Take, Closed, Tick, Handle, Snapshot, Cancel, Join, Close, Receive,
            DeliverStops, SaverTakes, SaverSaves, SaverStops
      <4>3. main' \in {"boot", "select", "handle", "snapshot", "ended", "join", "close", "exited"}
        BY <2>3
        DEF ProgramInv, ProgramTypeOK, EngineStep, Signal, Send, Lose, Boot, BootCanceled,
            Stop, Take, Closed, Tick, Handle, Snapshot, Cancel, Join, Close, Receive,
            DeliverStops, SaverTakes, SaverSaves, SaverStops
      <4>4. deliver' \in {"off", "receive", "offer", "ended"}
        BY <2>3
        DEF ProgramInv, ProgramTypeOK, EngineStep, Signal, Send, Lose, Boot, BootCanceled,
            Stop, Take, Closed, Tick, Handle, Snapshot, Cancel, Join, Close, Receive,
            DeliverStops, SaverTakes, SaverSaves, SaverStops
      <4>5. saver' \in {"off", "select", "save", "ended"}
        BY <2>3
        DEF ProgramInv, ProgramTypeOK, EngineStep, Signal, Send, Lose, Boot, BootCanceled,
            Stop, Take, Closed, Tick, Handle, Snapshot, Cancel, Join, Close, Receive,
            DeliverStops, SaverTakes, SaverSaves, SaverStops
      <4> QED BY <2>1, <3>1, <3>2, <4>2, <4>3, <4>4, <4>5 DEF ProgramInv, ProgramTypeOK, pub
    <3> QED BY <2>1, <3>1, <3>2, <3>3, <3>4 DEF ProgramInv, Ended, pub
  <2>4. CASE (\E w \in Consumers : ConsumerStep(w)) \/ Saved
    <3>1. /\ consumer' \in ConsumerType /\ ~Ended
          /\ UNCHANGED <<fan, handler>> /\ Quiet
      BY <2>2, <2>4, ConsumerMoves DEF Ended
    <3>2. handler' # "ended"
      BY <3>1 DEF ProgramInv
    <3>3. ProgramTypeOK'
      BY <2>1, <3>1 DEF ProgramInv, ProgramTypeOK, Quiet, ConsumerType
    <3> QED BY <2>1, <3>1, <3>2, <3>3 DEF ProgramInv, Quiet
  <2>5. CASE FanStops \/ HandlerEnds
    <3>1. UNCHANGED consumer /\ Quiet /\ fan' \in {fan, "ended"}
      BY <2>5 DEF FanStops, HandlerEnds
    <3>2. handler' = "ended" => Ended'
      BY <2>5 DEF FanStops, HandlerEnds, AllEnded, Ended, ProgramInv
    <3>3. handler = "ended" => handler' = "ended"
      BY <2>5 DEF FanStops, HandlerEnds
    <3>4. ProgramTypeOK'
      BY <2>1, <2>5, <3>1 DEF ProgramInv, ProgramTypeOK, Quiet, FanStops, HandlerEnds
    <3> QED BY <2>1, <3>1, <3>2, <3>3, <3>4 DEF ProgramInv, Quiet
  <2>6. CASE Exited
    BY <1>1, <2>6 DEF Exited
  <2> QED BY <1>2, <2>3, <2>4, <2>5, <2>6 DEF ProgramNext, EngineStep, ConsumerStep
<1> QED BY <1>1, <1>2

\* The invariant holds always.
LEMMA ProgramInvariant == ProgramSpec => []ProgramInv
<1> QED BY ProgramInitInv, ProgramNextInv, PTL DEF ProgramSpec

\* The shape of the process's state; the client library never holds more deliveries than
\* the broker may send unacknowledged (Connection.Deliveries, Qos).
THEOREM ProgramTypeCorrect == ProgramSpec => []ProgramTypeOK
<1>1. ProgramInv => ProgramTypeOK
  BY DEF ProgramInv
<1> QED BY <1>1, ProgramInvariant, PTL

\* main closes the WALs, the broker and the database only after the goroutines of the
\* publisher have ended, unless the engine panicked.
THEOREM ClosesAfterUse == ProgramSpec => []ClosedAfterUse
<1>1. ProgramInv => ClosedAfterUse
  BY DEF ProgramInv, ClosedAfterUse, Ended
<1> QED BY <1>1, ProgramInvariant, PTL
=============================================================================
