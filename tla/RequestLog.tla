----------------------------- MODULE RequestLog -----------------------------
(***************************************************************************)
(* What the engine promises the server, whatever crashes: it handles every *)
(* request at most once, in the order the requests were sent, and gives    *)
(* each one it handles exactly one result, in that order.  Trade ids are   *)
(* handed out in order and without a gap.                                  *)
(***************************************************************************)
EXTENDS Integers, Sequences

CONSTANTS
  Requests,       \* requests the engine can decode
  TradesOf(_)     \* the number of trades a request makes

VARIABLES
  handled,   \* the requests taken on, in order
  results    \* their results: the input number and the trade ids

Init == handled = <<>> /\ results = <<>>

Handle ==
  \E r \in Requests :
    /\ \A i \in 1..Len(handled) : handled[i] < r
    /\ handled' = Append(handled, r)
    /\ UNCHANGED results

\* The trade ids after the last one of the results so far.
NextTrades(n) ==
  LET used[i \in 0..Len(results)] == IF i = 0 THEN 0 ELSE used[i - 1] + Len(results[i].trades)
  IN [j \in 1..n |-> used[Len(results)] + j]

Answer ==
  LET n == Len(results) + 1
  IN /\ n <= Len(handled)
     /\ results' = Append(results, [inputSeq |-> n, trades |-> NextTrades(TradesOf(handled[n]))])
     /\ UNCHANGED handled

Next == Handle \/ Answer

Spec == Init /\ [][Next]_<<handled, results>>
=============================================================================
