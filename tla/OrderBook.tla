----------------------------- MODULE OrderBook ------------------------------
(***************************************************************************)
(* The order book of one stock (internal/ledger/orderbook.go).             *)
(*                                                                         *)
(* A book is a record of the five fields of the Go struct, the two sides   *)
(* folded into functions of the side:                                      *)
(*   levels[side]  the map from an active price to its FIFO queue of ids   *)
(*   prices[side]  the slice of active prices, ascending                   *)
(*   index         the map from an order's id to the order                 *)
(* An orderRef holds the side, the price and the list element of an order. *)
(* Side and price never change while the order rests, so the reference is  *)
(* folded into the order it points to, and a list element into its id.     *)
(***************************************************************************)
EXTENDS Integers, Sequences, FiniteSets, FiniteSetsExt, Totals

Buy  == "BUY"
Sell == "SELL"
Sides == {Buy, Sell}
Opposite(side) == IF side = Buy THEN Sell ELSE Buy

NewOrderBook ==
  [levels |-> [side \in Sides |-> EmptyMap],
   prices |-> [side \in Sides |-> <<>>],
   index  |-> EmptyMap]

Remaining(order) == order.quantity - order.filled

\* slices.BinarySearch on an ascending slice: where price is, or would go.
BinarySearch(prices, price) ==
  Min({i \in DOMAIN prices : prices[i] >= price} \cup {Len(prices) + 1})

\* slices.Insert and slices.Delete of one element.
Insert(slice, i, e) == SubSeq(slice, 1, i - 1) \o <<e>> \o SubSeq(slice, i, Len(slice))
Delete(slice, i) == SubSeq(slice, 1, i - 1) \o SubSeq(slice, i + 1, Len(slice))

\* Rests an order at the back of the queue of its price.  The mutant rests it at
\* the front.
AddFirst(b, order) ==
  LET side  == order.side
      price == order.price
      known == price \in DOMAIN b.levels[side]
      queue == IF known THEN b.levels[side][price] ELSE <<>>
  IN [levels |-> [b.levels EXCEPT ![side] = Put(@, price, <<order.id>> \o queue)],
      prices |-> IF known THEN b.prices
                 ELSE [b.prices EXCEPT
                         ![side] = Insert(@, BinarySearch(@, price), price)],
      index  |-> Put(b.index, order.id, order)]

Add(b, order) ==
  LET side  == order.side
      price == order.price
      known == price \in DOMAIN b.levels[side]
      queue == IF known THEN b.levels[side][price] ELSE <<>>
  IN [levels |-> [b.levels EXCEPT ![side] = Put(@, price, Append(queue, order.id))],
      prices |-> IF known THEN b.prices
                 ELSE [b.prices EXCEPT
                         ![side] = Insert(@, BinarySearch(@, price), price)],
      index  |-> Put(b.index, order.id, order)]

\* list.Remove of the element of an order.
Unlink(queue, id) == Delete(queue, CHOOSE i \in DOMAIN queue : queue[i] = id)

\* removeRef: unlink the order, and drop its price level once it is empty.  The
\* mutant leaves the price in the slice.
RemoveKeepingPrice(b, id) ==
  LET side  == b.index[id].side
      price == b.index[id].price
      queue == Unlink(b.levels[side][price], id)
  IN [levels |-> [b.levels EXCEPT ![side] = IF queue = <<>> THEN Drop(@, price)
                                            ELSE Put(@, price, queue)],
      prices |-> b.prices,
      index  |-> Drop(b.index, id)]

removeRef(b, id) ==
  LET side  == b.index[id].side
      price == b.index[id].price
      queue == Unlink(b.levels[side][price], id)
      at    == BinarySearch(b.prices[side], price)
      found == at <= Len(b.prices[side]) /\ b.prices[side][at] = price
  IN [levels |-> [b.levels EXCEPT ![side] = IF queue = <<>> THEN Drop(@, price)
                                            ELSE Put(@, price, queue)],
      prices |-> IF queue = <<>> /\ found
                 THEN [b.prices EXCEPT ![side] = Delete(@, at)]
                 ELSE b.prices,
      index  |-> Drop(b.index, id)]

Has(b, id) == id \in DOMAIN b.index

Cancel(b, id) == IF Has(b, id) THEN removeRef(b, id) ELSE b

\* The best price of a side: the lowest ask, the highest bid.
HasBest(b, side) == b.prices[side] # <<>>
Best(b, side) == IF side = Sell THEN b.prices[Sell][1]
                 ELSE b.prices[Buy][Len(b.prices[Buy])]

HasFront(b, side, price) ==
  price \in DOMAIN b.levels[side] /\ b.levels[side][price] # <<>>
Front(b, side, price) == b.levels[side][price][1]

\* What Fill(id, want) returns, and the book it leaves.
FillQuantity(b, id, want) ==
  IF ~Has(b, id) THEN 0
  ELSE LET rest == Remaining(b.index[id]) IN IF want < rest THEN want ELSE rest

Fill(b, id, want) ==
  LET n      == FillQuantity(b, id, want)
      filled == [levels |-> b.levels, prices |-> b.prices,
                 index  |-> [b.index EXCEPT ![id].filled = @ + n]]
  IN IF n = 0 THEN b
     ELSE IF Remaining(b.index[id]) = n THEN removeRef(filled, id)
     ELSE filled

\* The open quantity of a level: 0 for a price with no level.  The mutant counts
\* what is already filled.
LevelWhole(b, side, price) ==
  IF price \notin DOMAIN b.levels[side] THEN 0
  ELSE Total([i \in DOMAIN b.levels[side][price] |->
                b.index[b.levels[side][price][i]].quantity])

LevelQuantity(b, side, price) ==
  IF price \notin DOMAIN b.levels[side] THEN 0
  ELSE Total([i \in DOMAIN b.levels[side][price] |->
                Remaining(b.index[b.levels[side][price][i]])])

-----------------------------------------------------------------------------
(* What every operation keeps true of a book.                               *)

IsBook(b, ids, orderRecords) ==
  /\ IsMap(b.index, ids, orderRecords)
  /\ b.prices \in [Sides -> Seq(Nat)]
  /\ b.levels = [side \in Sides |-> b.levels[side]]
  /\ \A side \in Sides : IsMap(b.levels[side], Nat, Seq(ids))

\* The ids a queue must hold.
AtLevel(b, side, price) ==
  {id \in DOMAIN b.index : b.index[id].side = side /\ b.index[id].price = price}

\* A slice lists the levels of its side in ascending order.
SliceAgrees(b, side) ==
  /\ {b.prices[side][i] : i \in DOMAIN b.prices[side]} = DOMAIN b.levels[side]
  /\ \A i, j \in DOMAIN b.prices[side] : i < j => b.prices[side][i] < b.prices[side][j]

\* A level has a queue of exactly its orders, each once.
QueueAgrees(b, side, price) ==
  LET queue == b.levels[side][price]
  IN /\ queue # <<>>
     /\ {queue[i] : i \in DOMAIN queue} = AtLevel(b, side, price)
     /\ \A i, j \in DOMAIN queue : queue[i] = queue[j] => i = j

\* An order has a level, and something left to fill.
OrderAgrees(b, id) ==
  /\ b.index[id].id = id
  /\ b.index[id].price \in DOMAIN b.levels[b.index[id].side]
  /\ b.index[id].filled < b.index[id].quantity

Consistent(b) ==
  /\ \A side \in Sides :
       /\ SliceAgrees(b, side)
       /\ \A price \in DOMAIN b.levels[side] : QueueAgrees(b, side, price)
  /\ \A id \in DOMAIN b.index : OrderAgrees(b, id)
=============================================================================
