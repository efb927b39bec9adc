---------------------------- MODULE BookSnapshot ----------------------------
(***************************************************************************)
(* The book in a snapshot (internal/ledger/orderbook.go): orders() lists   *)
(* the orders side by side, price by price and queue by queue, and         *)
(* fromProto() adds them to a new book in that order.                      *)
(***************************************************************************)
EXTENDS OrderBook

Seqs == INSTANCE SequencesExt

\* The mutant lists each queue from its back.
OrdersReversed(b) ==
  LET queues(side) == [i \in DOMAIN b.prices[side] |->
                         Seqs!Reverse(b.levels[side][b.prices[side][i]])]
      ids == Seqs!FlattenSeq(queues(Buy)) \o Seqs!FlattenSeq(queues(Sell))
  IN [i \in DOMAIN ids |-> b.index[ids[i]]]

orders(b) ==
  LET queues(side) == [i \in DOMAIN b.prices[side] |-> b.levels[side][b.prices[side][i]]]
      ids == Seqs!FlattenSeq(queues(Buy)) \o Seqs!FlattenSeq(queues(Sell))
  IN [i \in DOMAIN ids |-> b.index[ids[i]]]

fromProto(items) == Seqs!FoldLeft(Add, NewOrderBook, items)
=============================================================================
