------------------------------- MODULE Dedup --------------------------------
(***************************************************************************)
(* The ids of recently handled requests (core/dedup.go): one ring of       *)
(* Window ids for each kind of request, with the set of the ids in it.     *)
(***************************************************************************)
EXTENDS Integers, Sequences

CONSTANTS
  Kinds,    \* patterns of the Input WAL
  Window    \* dedupWindow

ASSUME WindowAssumption == Window \in Nat \ {0}

newRecentIDs == [seen |-> {}, ring |-> [i \in 0..(Window - 1) |-> 0], pos |-> 0]

newDedup == [k \in Kinds |-> newRecentIDs]

has(d, kind, id) == id \in d[kind].seen

\* What add could get wrong: it keeps the id that loses its slot, looks for that
\* id after it has written the slot, or runs off the end of the ring.
AddKeeping(r, id) ==
  IF id \in r.seen THEN r
  ELSE [seen |-> r.seen \cup {id}, ring |-> [r.ring EXCEPT ![r.pos] = id],
        pos  |-> IF r.pos + 1 = Window THEN 0 ELSE r.pos + 1]

AddReadingLate(r, id) ==
  IF id \in r.seen THEN r
  ELSE LET ring == [r.ring EXCEPT ![r.pos] = id]
       IN [seen |-> (r.seen \cup {id}) \ {ring[r.pos]}, ring |-> ring,
           pos  |-> IF r.pos + 1 = Window THEN 0 ELSE r.pos + 1]

AddNoWrap(r, id) ==
  IF id \in r.seen THEN r
  ELSE [seen |-> {id} \cup (r.seen \ {r.ring[r.pos]}), ring |-> [r.ring EXCEPT ![r.pos] = id],
        pos  |-> r.pos + 1]

\* recentIDs.add: the oldest id makes room for a new one.  An empty slot holds 0.
addRecent(r, id) ==
  LET old == r.ring[r.pos]
  IN IF id \in r.seen THEN r
     ELSE [seen |-> {id} \cup IF old # 0 THEN r.seen \ {old} ELSE r.seen,
           ring |-> [r.ring EXCEPT ![r.pos] = id],
           pos  |-> IF r.pos + 1 = Window THEN 0 ELSE r.pos + 1]

add(d, kind, id) == [d EXCEPT ![kind] = addRecent(@, id)]

\* Engine.loadDedup: the first record of an Input WAL of that length it reads.  The mutant
\* starts one too late.
ShortStart(last) == IF last > Window THEN last - Window + 2 ELSE 1
DedupStart(last) == IF last > Window THEN last - Window + 1 ELSE 1

\* Every record from DedupStart on, oldest first, is added again.
loadDedup(wal) ==
  LET read[i \in 0..Len(wal)] ==
        IF i < DedupStart(Len(wal)) THEN newDedup
        ELSE add(read[i - 1], wal[i].kind, wal[i].id)
  IN read[Len(wal)]
=============================================================================
