----------------------------- MODULE BookMachine ----------------------------
(***************************************************************************)
(* An order book in use: the calls the engine makes on one OrderBook, in   *)
(* any order, with a snapshot and restore of the book between any two.     *)
(***************************************************************************)
EXTENDS Integers, Sequences, FiniteSets, Totals, BookSnapshot

CONSTANTS OrderIds, Prices, Quantities

VARIABLES book,       \* the order book
          arrivals,   \* the ids in the book, oldest first (history)
          trade       \* the last execution (history)

vars == <<book, arrivals, trade>>

NoTrade == [maker |-> "none", price |-> 0, quantity |-> 0]

\* The engine adds a partly filled order when its taker rests after trading.
OrderRecords ==
  {o \in [id: OrderIds, side: Sides, price: Prices, quantity: Quantities,
          filled: Quantities \cup {0}] : o.filled < o.quantity}

Init == book = NewOrderBook /\ arrivals = <<>> /\ trade = NoTrade

\* matchEvents rests the remainder of a limit order.
Rest(order) ==
  /\ ~Has(book, order.id)
  /\ book' = Add(book, order)
  /\ arrivals' = Append(arrivals, order.id)
  /\ trade' = NoTrade

\* removeAndRelease takes an order out.
Remove(id) ==
  /\ Has(book, id)
  /\ book' = Cancel(book, id)
  /\ arrivals' = Seqs!RemoveFirst(arrivals, id)
  /\ trade' = NoTrade

\* One turn of the match loop against a side.
Trade(side, want) ==
  /\ HasBest(book, side)
  /\ HasFront(book, side, Best(book, side))
  /\ LET price == Best(book, side)
         id    == Front(book, side, price)
     IN /\ book' = Fill(book, id, want)
        /\ trade' = [maker |-> id, price |-> price, quantity |-> FillQuantity(book, id, want)]
        /\ arrivals' = IF Has(book', id) THEN arrivals ELSE Seqs!RemoveFirst(arrivals, id)

\* Serialize and Restore of the ledger state.
Reload ==
  /\ book' = fromProto(orders(book))
  /\ UNCHANGED <<arrivals, trade>>

Next ==
  \/ \E order \in OrderRecords : Rest(order)
  \/ \E id \in OrderIds : Remove(id)
  \/ \E side \in Sides, want \in Quantities : Trade(side, want)
  \/ Reload

Spec == Init /\ [][Next]_vars

-----------------------------------------------------------------------------
\* The index, the queues and the price slices describe the same orders: every
\* indexed order is in the queue of its side and price, once and nowhere else, no
\* level is empty, the slices list exactly the levels in ascending order, and no
\* resting order is fully filled.
BookConsistent ==
  /\ IsBook(book, OrderIds, OrderRecords)
  /\ Consistent(book)

\* A snapshot loses nothing: rebuilding the book by adding the flattened orders
\* one by one gives back the queues, their order, the slices and the index.
RoundTrip == fromProto(orders(book)) = book

\* The published quantity of a level is the open quantity of every order with
\* that side and price in the index, and 0 for a price nobody rests at.
DepthComplete ==
  \A side \in Sides, p \in Prices :
    LevelQuantity(book, side, p) =
      Total([id \in {i \in DOMAIN book.index :
                       book.index[i].side = side /\ book.index[i].price = p}
               |-> Remaining(book.index[id])])

Promise == INSTANCE PriorityBook WITH
  Wants   <- Quantities,
  resting <- [i \in DOMAIN arrivals |-> book.index[arrivals[i]]]

\* The book keeps price-time priority over any sequence of calls: it implements
\* the abstract book, in which an execution takes the best and oldest order.
PriorityKept == Promise!Spec
=============================================================================
