------------------------------ MODULE Exchange ------------------------------
(***************************************************************************)
(* The engine's ledger and matching (internal/core, internal/ledger).      *)
(*                                                                         *)
(* The engine is one goroutine that handles one request at a time.  Every  *)
(* handler is one step, but for the match loop of matchEvents: the step    *)
(* that accepts an order reserves its assets and sets taker, each turn of  *)
(* the loop is a MatchStep, and FinishMatch is the code after the loop.    *)
(* While taker is set no other handler runs.                               *)
(*                                                                         *)
(* view is what a reader of the Output WAL knows: the tables the DB        *)
(* Projector maintains and the depth a subscriber keeps.  Each handler     *)
(* applies to it the events of the envelope it appends; pending holds what *)
(* the match loop has collected for that envelope.                         *)
(*                                                                         *)
(* Amounts are uint64 and wrap at Word.                                    *)
(***************************************************************************)
EXTENDS Integers, Sequences, FiniteSets, Totals, OrderBook

CONSTANTS
  Accounts, Stocks, OrderIds,  \* ids of the three kinds of entity
  NoId,                        \* an id that is zero or negative
  Prices, UpperLimit,          \* the prices of orders, the highest of the day
  Quantities,                  \* the quantities of orders
  Amounts,                     \* what a deposit, withdrawal or transfer moves
  Lots,                        \* what a deposit or withdrawal of shares moves
  CashCap, ShareCap,           \* most cash, and most shares of a stock, deposited
  Word                         \* 2^64

ASSUME IdAssumption ==
  /\ IsFiniteSet(Accounts) /\ IsFiniteSet(Stocks) /\ IsFiniteSet(OrderIds)
  /\ NoId \notin OrderIds

\* A market buy carries the upper price limit of the day (the note on
\* validateTrade), and the server admits no price above that limit.
ASSUME PriceAssumption ==
  /\ Prices \subseteq Nat \ {0}
  /\ UpperLimit \in Prices
  /\ \A p \in Prices : p <= UpperLimit

ASSUME AmountAssumption ==
  /\ Quantities \subseteq Nat /\ Amounts \subseteq Nat /\ Lots \subseteq Nat
  /\ Word \in Nat /\ CashCap \in Nat /\ ShareCap \in Nat
  /\ CashCap < Word /\ ShareCap < Word

VARIABLES
  accounts,   \* account id -> balance and available balance
  holdings,   \* <<account, stock>> -> quantity and available quantity
  stocks,     \* stock id -> current price and status
  books,      \* stock id -> order book
  taker,      \* the order being matched, or NoTaker
  pending,    \* the accounts, levels and order rows its events will update
  supply,     \* cash and shares deposited less those withdrawn (history)
  view        \* the state a reader of the Output WAL has built

vars == <<accounts, holdings, stocks, books, taker, pending, supply, view>>

Limit == "LIMIT"
Market == "MARKET"
EditRequest == "EDIT"
CancelRequest == "CANCEL"
Listed == "LISTED"

NoTaker == [phase |-> "idle"]
Idle == taker = NoTaker
NothingPending == [parties |-> {}, levels |-> {}, open |-> EmptyMap]

UInt64(x) == x % Word

-----------------------------------------------------------------------------
(* Requests.  An order id is fresh: the server numbers orders, and a       *)
(* redelivered one is dropped before it is handled.                        *)

TradeRequests ==
  {o \in [id: OrderIds \cup {NoId}, account: Accounts, stock: Stocks,
          trading: {Buy, Sell}, type: {Limit, Market},
          price: Prices \cup {0}, quantity: Quantities \cup {0}, filled: {0, 1},
          target: {NoId}] :
     o.trading = Buy /\ o.type = Market => o.price \in {0, UpperLimit}}

TargetRequests ==
  {o \in [id: OrderIds \cup {NoId}, account: Accounts, stock: Stocks,
          trading: {EditRequest, CancelRequest}, type: {Limit},
          price: Prices \cup {0}, quantity: {0, 1}, filled: {0},
          target: OrderIds \cup {NoId}] :
     o.trading = CancelRequest => o.price = 0 /\ o.quantity = 0}

Fresh(id) == \A s \in Stocks : ~Has(books[s], id)

-----------------------------------------------------------------------------
(* Validation (order_validation.go).  A product that does not fit in 64    *)
(* bits is refused.                                                        *)

validateStock(o) ==
  /\ o.stock \in DOMAIN stocks
  /\ stocks[o.stock].status = Listed \/ o.trading = CancelRequest

validateTrade(o) ==
  /\ o.quantity # 0 /\ o.filled = 0
  /\ o.type \in {Limit, Market}
  /\ o.price # 0

validateBuy(o) ==
  /\ validateTrade(o)
  /\ o.account \in DOMAIN accounts
  /\ o.price * o.quantity < Word
  /\ accounts[o.account].available >= o.price * o.quantity

validateSell(o) ==
  /\ validateTrade(o)
  /\ <<o.account, o.stock>> \in DOMAIN holdings
  /\ holdings[<<o.account, o.stock>>].available >= o.quantity

validateTargetRequest(o) ==
  /\ o.target # NoId
  /\ Has(books[o.stock], o.target)
  /\ books[o.stock].index[o.target].account = o.account

\* An edit may only change the price, to one the freed reservation can pay.
validateEdit(o) ==
  /\ validateTargetRequest(o)
  /\ o.id # o.target
  /\ LET target   == books[o.stock].index[o.target]
         reserved == target.price * Remaining(target)
         required == o.price * Remaining(target)
     IN /\ o.price # 0 /\ o.price # target.price
        /\ target.side = Buy =>
             /\ target.account \in DOMAIN accounts
             /\ reserved < Word /\ required < Word
             /\ accounts[target.account].available + reserved < Word
             /\ accounts[target.account].available + reserved >= required
        /\ target.side = Sell => <<target.account, o.stock>> \in DOMAIN holdings

validateOrder(o) ==
  /\ o.id # NoId
  /\ validateStock(o)
  /\ o.trading = Buy => validateBuy(o)
  /\ o.trading = Sell => validateSell(o)
  /\ o.trading = EditRequest => validateEdit(o)
  /\ o.trading = CancelRequest => validateTargetRequest(o)

-----------------------------------------------------------------------------
(* Updates of the ledger maps.  An absent entry is left absent.             *)

\* Adds b to the balance and a to the available balance of an account.
AddCash(accts, id, b, a) ==
  IF id \notin DOMAIN accts THEN accts
  ELSE [accts EXCEPT ![id] = [balance   |-> UInt64(@.balance + b),
                              available |-> UInt64(@.available + a)]]

\* The same for the quantity and the available quantity of a holding.
AddShares(holds, key, q, a) ==
  IF key \notin DOMAIN holds THEN holds
  ELSE [holds EXCEPT ![key] = [quantity  |-> UInt64(@.quantity + q),
                               available |-> UInt64(@.available + a)]]

NoShares == [quantity |-> 0, available |-> 0]

\* The buyer's side of a fill creates the holding it needs.
ReceiveShares(holds, key, n) ==
  AddShares(IF key \in DOMAIN holds THEN holds ELSE Put(holds, key, NoShares), key, n, n)

\* n of an order leave (Lock) or rejoin (Release) the available assets.
LockCash(accts, order, n) ==
  IF order.side = Buy THEN AddCash(accts, order.account, 0, -(order.price * n)) ELSE accts
ReleaseCash(accts, order, n) ==
  IF order.side = Buy THEN AddCash(accts, order.account, 0, order.price * n) ELSE accts

LockShares(holds, order, s, n) ==
  IF order.side = Sell THEN AddShares(holds, <<order.account, s>>, 0, -n) ELSE holds
ReleaseShares(holds, order, s, n) ==
  IF order.side = Sell THEN AddShares(holds, <<order.account, s>>, 0, n) ELSE holds

-----------------------------------------------------------------------------
(* Events.  UpdateOrderState, UpdateAccountBalance, UpsertHolding and       *)
(* DeleteHolding of the projector, and the levels of orderbook.updated.     *)

OrderOpen(open, order) ==
  Put(open, order.id, [quantity |-> order.quantity, filled |-> order.filled])
OrderClosed(open, id) == Drop(open, id)

AccountsUpdated(v, accts, ids) ==
  [a \in DOMAIN v |-> IF a \in ids THEN accts[a] ELSE v[a]]

HoldingsUpdated(v, holds, keys) ==
  LET gone == {k \in keys : k \in DOMAIN holds /\ holds[k] = NoShares}
      kept == {k \in keys : k \in DOMAIN holds /\ holds[k] # NoShares}
  IN [k \in (DOMAIN v \ gone) \cup kept |-> IF k \in kept THEN holds[k] ELSE v[k]]

LevelsUpdated(v, book, s, levels) ==
  [l \in DOMAIN v |-> IF l[1] = s /\ <<l[2], l[3]>> \in levels
                      THEN LevelQuantity(book, l[2], l[3]) ELSE v[l]]

-----------------------------------------------------------------------------
Init ==
  /\ accounts = EmptyMap
  /\ holdings = EmptyMap
  /\ stocks = EmptyMap
  /\ books = [s \in Stocks |-> NewOrderBook]
  /\ taker = NoTaker
  /\ pending = NothingPending
  /\ supply = [cash |-> 0, shares |-> [s \in Stocks |-> 0]]
  /\ view = [accounts |-> EmptyMap, holdings |-> EmptyMap, prices |-> EmptyMap,
             depth |-> [l \in Stocks \X Sides \X Prices |-> 0], open |-> EmptyMap]

-----------------------------------------------------------------------------
(* Orders (order.go).                                                       *)

\* removeAndRelease: the ledger without the target, its reservation returned.
\* The mutant returns the whole quantity of a partly filled order.
ReleaseWhole(s, id) ==
  LET target == books[s].index[id]
  IN [books    |-> [books EXCEPT ![s] = Cancel(@, id)],
      accounts |-> ReleaseCash(accounts, target, target.quantity),
      holdings |-> ReleaseShares(holdings, target, s, target.quantity)]

removeAndRelease(s, id) ==
  LET target == books[s].index[id]
  IN [books    |-> [books EXCEPT ![s] = Cancel(@, id)],
      accounts |-> ReleaseCash(accounts, target, Remaining(target)),
      holdings |-> ReleaseShares(holdings, target, s, Remaining(target))]

\* The head of matchEvents: reserve what is left of the order, start the loop.
\* levels and open are what an edit has already changed.
BeginMatch(order, s, type, ledger, levels, open) ==
  /\ accounts' = LockCash(ledger.accounts, order, Remaining(order))
  /\ holdings' = LockShares(ledger.holdings, order, s, Remaining(order))
  /\ books' = ledger.books
  /\ taker' = [phase |-> "matching", order |-> order, stock |-> s, type |-> type,
               initial |-> order.filled, cash |-> 0, last |-> 0]
  /\ pending' = [parties |-> {order.account}, levels |-> levels, open |-> open]
  /\ UNCHANGED <<stocks, supply, view>>

match(o) ==
  BeginMatch([id |-> o.id, account |-> o.account, side |-> o.trading,
              price |-> o.price, quantity |-> o.quantity, filled |-> 0],
             o.stock, o.type,
             [books |-> books, accounts |-> accounts, holdings |-> holdings],
             {}, view.open)

\* The level an edited order left joins the levels of the replacement's events.
\* The mutant forgets it.
KeepLevels(levels, level) == levels
mergeOrderBookLevel(levels, level) == levels \cup {level}

\* edit: take the target out, release it, and match its replacement, which
\* keeps the target's side, quantity and filled quantity.
edit(o) ==
  LET target == books[o.stock].index[o.target]
  IN BeginMatch([target EXCEPT !.id = o.id, !.price = o.price], o.stock, Limit,
                removeAndRelease(o.stock, o.target),
                mergeOrderBookLevel({}, <<target.side, target.price>>),
                OrderClosed(view.open, o.target))

cancel(o) ==
  LET s      == o.stock
      target == books[s].index[o.target]
      ledger == removeAndRelease(s, o.target)
  IN /\ books' = ledger.books
     /\ accounts' = ledger.accounts
     /\ holdings' = ledger.holdings
     /\ view' = [view EXCEPT
          !.open = OrderClosed(@, o.target),
          !.depth = LevelsUpdated(@, ledger.books[s], s, {<<target.side, target.price>>}),
          !.accounts = IF target.side = Buy
                       THEN AccountsUpdated(@, ledger.accounts, {target.account}) ELSE @,
          !.holdings = IF target.side = Sell
                       THEN HoldingsUpdated(@, ledger.holdings, {<<target.account, s>>})
                       ELSE @]
     /\ UNCHANGED <<stocks, taker, pending, supply>>

\* A refused order leaves the ledger as it was.
rejectOrder(o) == ~validateOrder(o) /\ UNCHANGED vars

handleOrder(o) ==
  /\ Idle
  /\ Fresh(o.id)
  /\ \/ rejectOrder(o)
     \/ /\ validateOrder(o)
        /\ \/ o.trading \in {Buy, Sell} /\ match(o)
           \/ o.trading = EditRequest /\ edit(o)
           \/ o.trading = CancelRequest /\ cancel(o)

\* What the next turn of the loop trades with, if the loop goes on.
CounterSide == Opposite(taker.order.side)
BestPrice == Best(books[taker.stock], CounterSide)
Counter == books[taker.stock].index[Front(books[taker.stock], CounterSide, BestPrice)]

\* Whether a limit order accepts the best price.  One mutant stops at a price
\* equal to the limit, the other ignores the limit.
PriceBeyond ==
  \/ taker.type = Market
  \/ taker.order.side = Buy /\ BestPrice < taker.order.price
  \/ taker.order.side = Sell /\ BestPrice > taker.order.price
AnyPrice == TRUE
PriceAgrees ==
  \/ taker.type = Market
  \/ taker.order.side = Buy /\ BestPrice <= taker.order.price
  \/ taker.order.side = Sell /\ BestPrice >= taker.order.price

CanFill ==
  LET b == books[taker.stock]
  IN /\ Remaining(taker.order) > 0
     /\ HasBest(b, CounterSide)
     /\ PriceAgrees
     /\ HasFront(b, CounterSide, BestPrice)
     /\ FillQuantity(b, Counter.id, Remaining(taker.order)) # 0

\* Cash from buyer to seller, who may be one account.  The mutant reads both
\* accounts before it writes either.
SettleStale(buyer, seller, cash) ==
  LET paid == AddCash(accounts, buyer, -cash, 0)
      got  == AddCash(accounts, seller, cash, cash)
  IN [a \in DOMAIN accounts |-> IF a = seller THEN got[a] ELSE paid[a]]
SettleCash(buyer, seller, cash) ==
  AddCash(AddCash(accounts, buyer, -cash, 0), seller, cash, cash)

SettleShares(buyer, seller, s, n) ==
  AddShares(ReceiveShares(holdings, <<buyer, s>>, n), <<seller, s>>, -n, 0)

\* One turn of the loop.
MatchStep ==
  /\ ~Idle /\ CanFill
  /\ LET s      == taker.stock
         n      == FillQuantity(books[s], Counter.id, Remaining(taker.order))
         cash   == UInt64(BestPrice * n)
         buyer  == IF taker.order.side = Buy THEN taker.order.account ELSE Counter.account
         seller == IF taker.order.side = Buy THEN Counter.account ELSE taker.order.account
         maker  == [Counter EXCEPT !.filled = @ + n]
     IN /\ accounts' = SettleCash(buyer, seller, cash)
        /\ holdings' = SettleShares(buyer, seller, s, n)
        /\ books' = [books EXCEPT ![s] = Fill(@, Counter.id, Remaining(taker.order))]
        /\ taker' = [taker EXCEPT !.order.filled = @ + n, !.cash = UInt64(@ + cash),
                                  !.last = BestPrice]
        /\ pending' = [
             parties |-> pending.parties \cup {Counter.account},
             levels  |-> pending.levels \cup {<<CounterSide, BestPrice>>},
             open    |-> IF Remaining(maker) = 0 THEN OrderClosed(pending.open, maker.id)
                         ELSE OrderOpen(pending.open, maker)]
  /\ UNCHANGED <<stocks, supply, view>>

\* What a market order leaves unfilled.  The mutant never gives it back.
NothingLapses == 0
Lapsed == IF taker.type = Market THEN Remaining(taker.order) ELSE 0

\* What a buy order reserved for its fills beyond what they cost.
Refund ==
  IF taker.order.side = Buy
  THEN UInt64(taker.order.price * (taker.order.filled - taker.initial) - taker.cash)
  ELSE 0

\* After the loop: rest or give back what is left, refund, record the last
\* price, and publish the outcome.
FinishMatch ==
  /\ ~Idle /\ ~CanFill
  /\ LET s      == taker.stock
         order  == taker.order
         rests  == Remaining(order) > 0 /\ taker.type = Limit
         levels == IF rests THEN pending.levels \cup {<<order.side, order.price>>}
                   ELSE pending.levels
         traded == taker.last > 0 /\ s \in DOMAIN stocks
     IN /\ books' = IF rests THEN [books EXCEPT ![s] = Add(@, order)] ELSE books
        /\ accounts' = AddCash(ReleaseCash(accounts, order, Lapsed), order.account, 0, Refund)
        /\ holdings' = ReleaseShares(holdings, order, s, Lapsed)
        /\ stocks' = IF traded THEN [stocks EXCEPT ![s].price = taker.last] ELSE stocks
        /\ view' = [
             accounts |-> AccountsUpdated(view.accounts, accounts', pending.parties),
             holdings |-> HoldingsUpdated(view.holdings, holdings', pending.parties \X {s}),
             prices   |-> IF traded THEN [view.prices EXCEPT ![s] = taker.last]
                          ELSE view.prices,
             depth    |-> LevelsUpdated(view.depth, books'[s], s, levels),
             open     |-> IF rests THEN OrderOpen(pending.open, order)
                          ELSE OrderClosed(pending.open, order.id)]
  /\ taker' = NoTaker
  /\ pending' = NothingPending
  /\ UNCHANGED supply

-----------------------------------------------------------------------------
(* Accounts, stocks, transfers and administration (handle.go, transfer.go,  *)
(* handle_admin.go).  The server announces an account and a stock once, and *)
(* holds the rows the projector updates from the moment it does.            *)

handleAccountCreated(a, amount) ==
  LET acc == [balance |-> amount, available |-> amount]
  IN /\ Idle /\ a \notin DOMAIN accounts
     /\ supply.cash + amount <= CashCap
     /\ accounts' = Put(accounts, a, acc)
     /\ supply' = [supply EXCEPT !.cash = @ + amount]
     /\ view' = [view EXCEPT !.accounts = Put(@, a, acc)]
     /\ UNCHANGED <<holdings, stocks, books, taker, pending>>

handleStockListed(s, price) ==
  /\ Idle /\ s \notin DOMAIN stocks
  /\ stocks' = Put(stocks, s, [price |-> price, status |-> Listed])
  /\ view' = [view EXCEPT !.prices = Put(@, s, price)]
  /\ UNCHANGED <<accounts, holdings, books, taker, pending, supply>>

validateTransfer(from, to, amount) ==
  /\ amount # 0
  /\ from # to
  /\ from \in DOMAIN accounts /\ to \in DOMAIN accounts
  /\ accounts[from].available >= amount

handleTransferCreated(from, to, amount) ==
  /\ Idle
  /\ IF validateTransfer(from, to, amount)
     THEN /\ accounts' = AddCash(AddCash(accounts, from, -amount, -amount), to, amount, amount)
          /\ view' = [view EXCEPT !.accounts = AccountsUpdated(@, accounts', {from, to})]
     ELSE UNCHANGED <<accounts, view>>
  /\ UNCHANGED <<holdings, stocks, books, taker, pending, supply>>

\* The mutant does not check a withdrawal.
AdjustUnchecked(a, delta) == delta # 0 /\ a \in DOMAIN accounts
validateBalanceAdjust(a, delta) ==
  /\ delta # 0
  /\ a \in DOMAIN accounts
  /\ delta < 0 => accounts[a].balance >= -delta /\ accounts[a].available >= -delta

handleAdminBalanceAdjust(a, delta) ==
  /\ Idle
  /\ supply.cash + delta <= CashCap
  /\ IF validateBalanceAdjust(a, delta)
     THEN /\ accounts' = AddCash(accounts, a, delta, delta)
          /\ supply' = [supply EXCEPT !.cash = @ + delta]
          /\ view' = [view EXCEPT !.accounts = AccountsUpdated(@, accounts', {a})]
     ELSE UNCHANGED <<accounts, supply, view>>
  /\ UNCHANGED <<holdings, stocks, books, taker, pending>>

\* average is the request's unit price, which only a new holding needs.
validateStockBalanceAdjust(a, s, delta, average) ==
  /\ delta # 0
  /\ a \in DOMAIN accounts /\ s \in DOMAIN stocks
  /\ <<a, s>> \notin DOMAIN holdings => delta > 0 /\ average # 0
  /\ <<a, s>> \in DOMAIN holdings /\ delta < 0 =>
       /\ holdings[<<a, s>>].quantity >= -delta
       /\ holdings[<<a, s>>].available >= -delta

handleAdminStockBalanceAdjust(a, s, delta, average) ==
  /\ Idle
  /\ supply.shares[s] + delta <= ShareCap
  /\ IF validateStockBalanceAdjust(a, s, delta, average)
     THEN /\ holdings' = IF <<a, s>> \in DOMAIN holdings
                         THEN AddShares(holdings, <<a, s>>, delta, delta)
                         ELSE Put(holdings, <<a, s>>, [quantity |-> delta, available |-> delta])
          /\ supply' = [supply EXCEPT !.shares[s] = @ + delta]
          /\ view' = [view EXCEPT !.holdings = HoldingsUpdated(@, holdings', {<<a, s>>})]
     ELSE UNCHANGED <<holdings, supply, view>>
  /\ UNCHANGED <<accounts, stocks, books, taker, pending>>

Signed(S) == S \cup {-x : x \in S}

Next ==
  \/ \E o \in TradeRequests \cup TargetRequests : handleOrder(o)
  \/ MatchStep
  \/ FinishMatch
  \/ \E a \in Accounts, amount \in Amounts : handleAccountCreated(a, amount)
  \/ \E s \in Stocks, p \in Prices : handleStockListed(s, p)
  \/ \E from, to \in Accounts, amount \in Amounts : handleTransferCreated(from, to, amount)
  \/ \E a \in Accounts, delta \in Signed(Amounts) : handleAdminBalanceAdjust(a, delta)
  \/ \E a \in Accounts, s \in Stocks, delta \in Signed(Lots), average \in {0, 1} :
       handleAdminStockBalanceAdjust(a, s, delta, average)

Spec == Init /\ [][Next]_vars

-----------------------------------------------------------------------------
Orders == [id: OrderIds, account: Accounts, side: Sides, price: Prices,
           quantity: Nat, filled: Nat]
Balances == [balance: 0..(Word - 1), available: 0..(Word - 1)]
Shares == [quantity: 0..(Word - 1), available: 0..(Word - 1)]

Takers == [phase: {"matching"}, order: Orders, stock: Stocks, type: {Limit, Market},
           initial: Nat, cash: 0..(Word - 1), last: Prices \cup {0}]

\* Every part of the ledger has its type, every amount fits in a word, and what
\* administration withdrew it had deposited.
TypeOK ==
  /\ IsMap(accounts, Accounts, Balances)
  /\ IsMap(holdings, Accounts \X Stocks, Shares)
  /\ IsMap(stocks, Stocks, [price: Prices, status: {Listed}])
  /\ books = [s \in Stocks |-> books[s]]
  /\ \A s \in Stocks : IsBook(books[s], OrderIds, Orders)
  /\ taker \in Takers \cup {NoTaker}
  /\ supply \in [cash: 0..CashCap, shares: [Stocks -> 0..ShareCap]]

\* What the rest of an order of account a holds back of its balance, or of its
\* quantity of the stock.
OrderCash(order, a) ==
  IF order.side = Buy /\ order.account = a THEN order.price * Remaining(order) ELSE 0
OrderShares(order, a) ==
  IF order.side = Sell /\ order.account = a THEN Remaining(order) ELSE 0

BuyLock(b, id, a) == IF Has(b, id) THEN OrderCash(b.index[id], a) ELSE 0
SellLock(b, id, a) == IF Has(b, id) THEN OrderShares(b.index[id], a) ELSE 0

Resting == Stocks \X OrderIds
CashLock(bks, a) == [k \in Resting |-> BuyLock(bks[k[1]], k[2], a)]
ShareLock(b, a) == [id \in OrderIds |-> SellLock(b, id, a)]

\* The same for the order being matched: what it reserved less what it has paid
\* or delivered so far.
TakerCash(a) ==
  IF ~Idle /\ taker.order.side = Buy /\ taker.order.account = a
  THEN taker.order.price * (taker.order.quantity - taker.initial) - taker.cash ELSE 0
TakerShares(a, s) ==
  IF ~Idle /\ taker.order.side = Sell /\ taker.order.account = a /\ taker.stock = s
  THEN Remaining(taker.order) ELSE 0

\* The reserved part of every balance is exactly what the account's open buy
\* orders can still cost: matchEvents, removeAndRelease and the adjustments
\* never lose, leak or double a reservation.
CashReserved ==
  \A a \in DOMAIN accounts :
    accounts[a].balance = accounts[a].available + Total(CashLock(books, a)) + TakerCash(a)

\* The same for shares: quantity less available quantity is what the open sell
\* orders of the account have left to deliver.
SharesReserved ==
  \A k \in DOMAIN holdings :
    holdings[k].quantity =
      holdings[k].available + Total(ShareLock(books[k[2]], k[1])) + TakerShares(k[1], k[2])

Cash(accts) == [a \in Accounts |-> IF a \in DOMAIN accts THEN accts[a].balance ELSE 0]
SharesOf(holds, s) ==
  [a \in Accounts |-> IF <<a, s>> \in DOMAIN holds THEN holds[<<a, s>>].quantity ELSE 0]

\* Matching and transfers move cash and shares between accounts and neither
\* create nor destroy any: the totals are what administration deposited.
Conserved ==
  /\ Total(Cash(accounts)) = supply.cash
  /\ \A s \in Stocks : Total(SharesOf(holdings, s)) = supply.shares[s]

\* The fills of a buy order never cost more than the order reserved for them, so
\* that the refund after the loop does not wrap: a limit order fills within its
\* limit, a market order within the day's upper limit.
PaidWithinLimit ==
  ~Idle /\ taker.order.side = Buy =>
    taker.cash <= taker.order.price * (taker.order.filled - taker.initial)

-----------------------------------------------------------------------------
(* What else the reservations rest on.                                      *)

BooksConsistent == \A s \in Stocks : Consistent(books[s])

\* Whoever has a holding has an account, and whoever has an order has what the
\* order reserved.
OwnerKnown(order, s) ==
  /\ order.account \in DOMAIN accounts
  /\ order.side = Sell => <<order.account, s>> \in DOMAIN holdings
OwnersKnown ==
  /\ \A k \in DOMAIN holdings : k[1] \in DOMAIN accounts
  /\ \A s \in Stocks : \A id \in DOMAIN books[s].index : OwnerKnown(books[s].index[id], s)
  /\ ~Idle => OwnerKnown(taker.order, taker.stock)

\* The order being matched rests nowhere, and what it reserved fits in a word.
TakerSound ==
  ~Idle =>
    /\ ~Has(books[taker.stock], taker.order.id)
    /\ taker.initial <= taker.order.filled /\ taker.order.filled <= taker.order.quantity
    /\ taker.order.side = Buy =>
         /\ taker.order.price * (taker.order.quantity - taker.initial) < Word
         /\ taker.type = Market => taker.order.price = UpperLimit

\* The inductive invariant.
LedgerInv ==
  /\ TypeOK /\ BooksConsistent /\ OwnersKnown /\ TakerSound
  /\ PaidWithinLimit /\ CashReserved /\ SharesReserved /\ Conserved

-----------------------------------------------------------------------------
\* Between requests no book holds a bid at or above an ask: the match loop never
\* stops while an order that agrees on the price is waiting.
Uncrossed ==
  Idle => \A s \in Stocks :
    HasBest(books[s], Buy) /\ HasBest(books[s], Sell) =>
      Best(books[s], Buy) < Best(books[s], Sell)

\* Between requests the state rebuilt from the events alone is the ledger: every
\* handler publishes every account, holding, price, level and order it changed.
ViewInSync ==
  Idle =>
    /\ view.accounts = accounts
    /\ view.holdings = [k \in {h \in DOMAIN holdings : holdings[h] # NoShares} |-> holdings[k]]
    /\ view.prices = [s \in DOMAIN stocks |-> stocks[s].price]
    /\ \A s \in Stocks, side \in Sides, p \in Prices :
         view.depth[<<s, side, p>>] = LevelQuantity(books[s], side, p)
    /\ DOMAIN view.open = UNION {DOMAIN books[s].index : s \in Stocks}
    /\ \A s \in Stocks : \A id \in DOMAIN books[s].index :
         view.open[id] = [quantity |-> books[s].index[id].quantity,
                          filled   |-> books[s].index[id].filled]

\* What the tests say of an edit: a request that carries a quantity is refused.
EditQuantityRefused ==
  Idle => \A o \in TargetRequests :
    o.trading = EditRequest /\ o.quantity # 0 => ~validateOrder(o)
=============================================================================
