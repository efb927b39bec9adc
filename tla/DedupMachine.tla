---------------------------- MODULE DedupMachine ----------------------------
(***************************************************************************)
(* The duplicate check of the handlers (core/handle.go) on its own:        *)
(* requests arrive, again and again if need be, and the engine restarts.   *)
(***************************************************************************)
EXTENDS Dedup, FiniteSets

CONSTANTS
  Ids,        \* request ids; 0 is what a request without an id decodes to
  MaxInput    \* bound on the length of the Input WAL

VARIABLES
  wal,      \* the Input WAL: what was accepted, in order
  dedup,    \* Engine.dedup
  start     \* the first record of wal the present dedup has seen

dedupVars == <<wal, dedup, start>>

DedupInit == wal = <<>> /\ dedup = newDedup /\ start = 1

\* A request that is not known is written to the Input WAL and remembered.
Accept(kind, id) ==
  /\ Len(wal) < MaxInput
  /\ ~has(dedup, kind, id)
  /\ wal' = Append(wal, [kind |-> kind, id |-> id])
  /\ dedup' = add(dedup, kind, id)
  /\ UNCHANGED start

DedupRestart ==
  /\ dedup' = loadDedup(wal)
  /\ start' = DedupStart(Len(wal))
  /\ UNCHANGED wal

DedupNext ==
  \/ \E kind \in Kinds, id \in Ids : Accept(kind, id)
  \/ DedupRestart

DedupSpec == DedupInit /\ [][DedupNext]_dedupVars

-----------------------------------------------------------------------------
\* The set of ids and the ring of every kind stay within the types of dedup.go.
DedupTypeOK ==
  /\ wal \in Seq([kind: Kinds, id: Ids])
  /\ \A k \in Kinds : /\ dedup[k].seen \subseteq Ids
                      /\ dedup[k].ring \in [0..(Window - 1) -> Ids \cup {0}]
                      /\ dedup[k].pos \in 0..(Window - 1)

\* Where kind k last took id since the restart, and how many it has taken.
OfKind(k) == {i \in start..Len(wal) : wal[i].kind = k}
Taken(k, id) == {i \in OfKind(k) : wal[i].id = id}

\* The duplicate check answers exactly "one of the last Window ids of this kind":
\* neither the ring's wrap-around nor an id that comes back after it lost its slot
\* makes it forget a recent id or refuse an old one.
ExactWindow ==
  \A k \in Kinds, id \in Ids \ {0} :
    has(dedup, k, id) <=>
      \E i \in Taken(k, id) : Cardinality({j \in OfKind(k) : j > i}) < Window

\* Between restarts at least Window records of a kind stand between two of that kind
\* with the same id: a redelivery within the window is never handled.
NoEarlyRepeat ==
  \A k \in Kinds, id \in Ids :
    \A i, j \in Taken(k, id) :
      i < j => Cardinality({m \in OfKind(k) : i < m /\ m < j}) >= Window

\* Engine.loadDedup: whenever the engine restarts, at least Window records of the Input
\* WAL stand between a request and its repetition.
WalApart == \A i, j \in 1..Len(wal) : i < j /\ wal[i] = wal[j] => j - i > Window

\* README.MD:99 and :130: the window is kept for each kind, and a restart restores
\* it from the Input WAL.  So a restart forgets no id of it.
WindowRestored ==
  [][DedupRestart =>
       \A k \in Kinds, id \in Ids : has(dedup, k, id) => has(dedup', k, id)]_dedupVars

\* dedup.go:43: the window is the largest number of ids a kind stores.
WithinCapacity == \A k \in Kinds : Cardinality(dedup[k].seen) <= Window
=============================================================================
