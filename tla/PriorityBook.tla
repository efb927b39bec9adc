---------------------------- MODULE PriorityBook ----------------------------
(***************************************************************************)
(* What an order book promises (the matching rules of the README): orders  *)
(* rest in the order they arrived, and an execution against a side takes   *)
(* the order with the best price, the earliest of those at that price.     *)
(***************************************************************************)
EXTENDS Integers, Sequences

CONSTANTS OrderRecords,   \* the orders that may be submitted
          Wants           \* the quantities an execution may ask for

VARIABLES resting,   \* the resting orders, oldest first
          trade      \* the last execution: maker, price and quantity

LOCAL Seqs == INSTANCE SequencesExt

NoTrade == [maker |-> "none", price |-> 0, quantity |-> 0]

Better(side, p, q) == IF side = "SELL" THEN p < q ELSE p > q

\* The positions of a side, and the one that an execution must take.
Positions(side) == {i \in DOMAIN resting : resting[i].side = side}
HasPriority(i) ==
  \A j \in Positions(resting[i].side) \ {i} :
    \/ Better(resting[i].side, resting[i].price, resting[j].price)
    \/ resting[i].price = resting[j].price /\ i < j

Init == resting = <<>> /\ trade = NoTrade

Submit(order) ==
  /\ \A i \in DOMAIN resting : resting[i].id # order.id
  /\ resting' = Append(resting, order)
  /\ trade' = NoTrade

Withdraw(i) ==
  /\ resting' = Seqs!RemoveAt(resting, i)
  /\ trade' = NoTrade

Execute(i, want) ==
  LET rest == resting[i].quantity - resting[i].filled
      n    == IF want < rest THEN want ELSE rest
  IN /\ HasPriority(i)
     /\ resting' = IF n = rest THEN Seqs!RemoveAt(resting, i)
                   ELSE [resting EXCEPT ![i].filled = @ + n]
     /\ trade' = [maker |-> resting[i].id, price |-> resting[i].price, quantity |-> n]

Next ==
  \/ \E order \in OrderRecords : Submit(order)
  \/ \E i \in DOMAIN resting : Withdraw(i)
  \/ \E i \in DOMAIN resting, want \in Wants : Execute(i, want)

Spec == Init /\ [][Next]_<<resting, trade>>
=============================================================================
