------------------------------- MODULE Totals -------------------------------
(***************************************************************************)
(* Sums over finite sets, and the two updates of a Go map.                 *)
(*                                                                         *)
(* A sum is defined as the number of its units: f[x] pairs <<x, k>> for    *)
(* every x.  The definition needs no recursion, so TLC evaluates it and    *)
(* Ledger_proofs proves how a total moves when one entry changes.          *)
(***************************************************************************)
EXTENDS Integers, FiniteSets

Units(f, S) == UNION {{x} \X (1..f[x]) : x \in S}

\* The sum of f[x] over the domain of f, for a function to the naturals.
Total(f) == Cardinality(Units(f, DOMAIN f))

\* m[k] = v and delete(m, k) on a Go map.
Put(f, k, v) == [x \in DOMAIN f \cup {k} |-> IF x = k THEN v ELSE f[x]]
Drop(f, k) == [x \in DOMAIN f \ {k} |-> f[x]]

\* The empty map, and a map from some of the keys K to values V.
EmptyMap == [x \in {} |-> x]
IsMap(f, K, V) == DOMAIN f \subseteq K /\ f \in [DOMAIN f -> V]
=============================================================================
