--------------------------- MODULE Exchange_proofs --------------------------
(***************************************************************************)
(* The ledger invariants of Exchange hold for every number of accounts,    *)
(* stocks and orders, every set of prices and amounts and every word size, *)
(* and no book is crossed.                                                 *)
(***************************************************************************)
EXTENDS Exchange, Ledger_proofs, Matching_proofs, Settlement_proofs

\* Zenon proves every leaf that names no other prover; SMT is named for the rest.
USE ZenonT(30)

-----------------------------------------------------------------------------
(* What rests crosses nothing.                                              *)

\* So what is left of a limit order rests apart from every order of the other side.
LEMMA RestsApart ==
  ASSUME LedgerInv, ~Idle, ~CanFill, Remaining(taker.order) > 0, taker.type = Limit,
         NEW j \in DOMAIN books[taker.stock].index
  PROVE  LET c == books[taker.stock].index[j]
         IN /\ taker.order.side = Buy /\ c.side = Sell => taker.order.price < c.price
            /\ taker.order.side = Sell /\ c.side = Buy => c.price < taker.order.price
<1>1. PICK b, c, o : b = books[taker.stock] /\ c = b.index[j] /\ o = taker.order
  OBVIOUS
<1>2. taker.stock \in Stocks /\ o \in Orders /\ o.price \in Nat
  BY <1>1, TakerFacts
<1>3. IsBook(b, OrderIds, Orders) /\ Consistent(b) /\ j \in DOMAIN b.index
  BY <1>1, <1>2, Maps DEF AreBooks
<1>4. Limit # Market /\ Buy # Sell
  BY DEF Limit, Market, Buy, Sell
<1>5. CASE o.side = Buy /\ c.side = Sell
  <2>1. /\ HasBest(b, Sell) /\ Best(b, Sell) \in Nat /\ c.price \in Nat
        /\ Best(b, Sell) <= c.price
    BY <1>1, <1>3, <1>5, BestIsBest DEF Sides
  <2>2. CounterSide = Sell /\ BestPrice = Best(b, Sell)
    BY <1>1, <1>5 DEF CounterSide, Opposite, BestPrice
  <2>3. ~PriceAgrees
    BY <1>1, <2>1, <2>2, LoopStops
  <2>4. ~(Best(b, Sell) <= o.price)
    BY <1>1, <1>5, <2>2, <2>3 DEF PriceAgrees
  <2>5. o.price < c.price
    BY <1>2, <2>1, <2>4, SMT
  <2> QED BY <1>1, <1>4, <1>5, <2>5
<1>6. CASE o.side = Sell /\ c.side = Buy
  <2>1. /\ HasBest(b, Buy) /\ Best(b, Buy) \in Nat /\ c.price \in Nat
        /\ c.price <= Best(b, Buy)
    BY <1>1, <1>3, <1>6, BestIsBest DEF Sides
  <2>2. CounterSide = Buy /\ BestPrice = Best(b, Buy)
    BY <1>1, <1>4, <1>6 DEF CounterSide, Opposite, BestPrice
  <2>3. ~PriceAgrees
    BY <1>1, <2>1, <2>2, LoopStops
  <2>4. ~(Best(b, Buy) >= o.price)
    BY <1>1, <1>6, <2>2, <2>3 DEF PriceAgrees
  <2>5. c.price < o.price
    BY <1>2, <2>1, <2>4, SMT
  <2> QED BY <1>1, <1>4, <1>6, <2>5
<1> QED BY <1>1, <1>4, <1>5, <1>6

\* After the loop the books are as apart as before it.
LEMMA FinishApart ==
  ASSUME LedgerInv, NoOrdersCross(books), FinishMatch
  PROVE  NoOrdersCross(books')
<1>1. PICK s, o, rests : /\ s = taker.stock /\ o = taker.order
                         /\ rests <=> Remaining(o) > 0 /\ taker.type = Limit
                         /\ books' = IF rests THEN [books EXCEPT ![s] = Add(@, o)] ELSE books
  BY DEF FinishMatch
<1>2. ~Idle /\ ~CanFill
  BY DEF FinishMatch
<1>3. CASE ~rests
  BY <1>1, <1>3
<1>4. CASE rests
  <2>1. Rested(books, books', s, o)
    BY <1>1, <1>4 DEF Rested
  <2>2. /\ s \in Stocks /\ o \in Orders /\ ~Has(books[s], o.id) /\ Remaining(o) > 0
        /\ o.quantity \in Nat /\ o.filled \in Nat
    BY <1>1, <1>2, <1>4, TakerFacts DEF LedgerInv, TakerSound
  <2>3. /\ AreBooks(books') /\ SameOrders(books, books', s, o.id)
        /\ Has(books'[s], o.id) /\ books'[s].index[o.id] = o
    <3>1. o.filled < o.quantity
      BY <2>2, SMT DEF Remaining
    <3> QED BY <2>1, <2>2, <3>1, Maps, AddOrder
  <2>4. ASSUME NEW x \in Stocks, NEW i \in DOMAIN books'[x].index, ~(x = s /\ i = o.id)
        PROVE  i \in DOMAIN books[x].index /\ books'[x].index[i] = books[x].index[i]
    <3>1. i \in OrderIds /\ Has(books'[x], i)
      BY <2>3, IdsOfBooks DEF Has
    <3> QED BY <2>3, <2>4, <3>1 DEF SameOrders, Has
  <2>5. ASSUME NEW j \in DOMAIN books[s].index
        PROVE  /\ o.side = Buy /\ books[s].index[j].side = Sell =>
                    o.price < books[s].index[j].price
               /\ o.side = Sell /\ books[s].index[j].side = Buy =>
                    books[s].index[j].price < o.price
    BY <1>1, <1>2, <1>4, RestsApart
  <2> SUFFICES ASSUME NEW x \in Stocks,
                      NEW i \in DOMAIN books'[x].index, NEW j \in DOMAIN books'[x].index,
                      books'[x].index[i].side = Buy, books'[x].index[j].side = Sell
               PROVE  books'[x].index[i].price < books'[x].index[j].price
    BY DEF NoOrdersCross
  <2>6. Buy # Sell
    BY DEF Buy, Sell
  <2>7. CASE x = s /\ i = o.id
    <3>1. j # o.id /\ books'[s].index[i] = o
      BY <2>3, <2>6, <2>7
    <3> QED BY <2>4, <2>5, <2>7, <3>1
  <2>8. CASE x = s /\ j = o.id
    <3>1. i # o.id /\ books'[s].index[j] = o
      BY <2>3, <2>6, <2>8
    <3> QED BY <2>4, <2>5, <2>8, <3>1
  <2>9. CASE ~(x = s /\ i = o.id) /\ ~(x = s /\ j = o.id)
    BY <2>4, <2>9 DEF NoOrdersCross
  <2> QED BY <2>7, <2>8, <2>9
<1> QED BY <1>3, <1>4

-----------------------------------------------------------------------------
(* Handlers that leave the orders alone.                                    *)

\* It is enough that the balances keep to the invariant.
LEMMA CashOnly ==
  ASSUME LedgerInv, Idle, UNCHANGED <<holdings, stocks, books, taker>>,
         AreAccounts(accounts'), DOMAIN accounts \subseteq DOMAIN accounts',
         supply' \in SupplyType, supply'.shares = supply.shares,
         Total(Cash(accounts')) = supply'.cash,
         \A a \in DOMAIN accounts' :
           accounts'[a].balance = accounts'[a].available + Total(CashLock(books, a))
  PROVE  LedgerInv'
<1>1. TypeOK'
  BY DEF LedgerInv, TypeOK, AreAccounts, SupplyType
<1>2. BooksConsistent' /\ TakerSound' /\ PaidWithinLimit'
  BY DEF LedgerInv, BooksConsistent, TakerSound, PaidWithinLimit, Idle
<1>3. OwnersKnown'
  BY DEF LedgerInv, OwnersKnown, OwnerKnown, Idle
<1>4. CashReserved'
  <2> SUFFICES ASSUME NEW a \in DOMAIN accounts'
               PROVE  accounts'[a].balance =
                        accounts'[a].available + Total(CashLock(books, a)) + TakerCash(a)'
    BY DEF CashReserved
  <2>1. TakerCash(a)' = 0
    BY DEF TakerCash, Idle
  <2>2. accounts'[a].available \in Nat /\ Total(CashLock(books, a)) \in Nat
    BY Maps, LocksType, WordPositive, SMT DEF AreAccounts, IsMap, Balances
  <2> QED BY <2>1, <2>2, SMT
<1>5. SharesReserved'
  BY DEF LedgerInv, SharesReserved, TakerShares, Idle
<1>6. Conserved'
  BY DEF LedgerInv, Conserved
<1> QED BY <1>1, <1>2, <1>3, <1>4, <1>5, <1>6 DEF LedgerInv

\* The same for handlers that only move holdings.
LEMMA SharesOnly ==
  ASSUME LedgerInv, Idle, UNCHANGED <<accounts, stocks, books, taker>>,
         AreHoldings(holdings'), DOMAIN holdings \subseteq DOMAIN holdings',
         \A k \in DOMAIN holdings' : k[1] \in DOMAIN accounts,
         supply' \in SupplyType, supply'.cash = supply.cash,
         \A s \in Stocks : Total(SharesOf(holdings', s)) = supply'.shares[s],
         \A k \in DOMAIN holdings' :
           holdings'[k].quantity = holdings'[k].available + Total(ShareLock(books[k[2]], k[1]))
  PROVE  LedgerInv'
<1>1. TypeOK'
  BY DEF LedgerInv, TypeOK, AreHoldings, SupplyType
<1>2. BooksConsistent' /\ TakerSound' /\ PaidWithinLimit'
  BY DEF LedgerInv, BooksConsistent, TakerSound, PaidWithinLimit, Idle
<1>3. OwnersKnown'
  BY DEF LedgerInv, OwnersKnown, OwnerKnown, Idle
<1>4. SharesReserved'
  <2> SUFFICES ASSUME NEW k \in DOMAIN holdings'
               PROVE  holdings'[k].quantity = holdings'[k].available
                        + Total(ShareLock(books[k[2]], k[1])) + TakerShares(k[1], k[2])'
    BY DEF SharesReserved
  <2>1. TakerShares(k[1], k[2])' = 0
    BY DEF TakerShares, Idle
  <2>2. k[2] \in Stocks /\ holdings'[k].available \in Nat
    BY WordPositive, SMT DEF AreHoldings, IsMap, Shares
  <2>3. Total(ShareLock(books[k[2]], k[1])) \in Nat
    BY <2>2, Maps, LocksType
  <2> QED BY <2>1, <2>2, <2>3, SMT
<1>5. CashReserved'
  BY DEF LedgerInv, CashReserved, TakerCash, Idle
<1>6. Conserved'
  BY DEF LedgerInv, Conserved
<1> QED BY <1>1, <1>2, <1>3, <1>4, <1>5, <1>6 DEF LedgerInv

\* A new account (handleAccountCreated) brings cash that no order reserves.
LEMMA AccountCreatedKeeps ==
  ASSUME LedgerInv, NEW a \in Accounts, NEW amount \in Amounts, handleAccountCreated(a, amount)
  PROVE  LedgerInv'
<1> DEFINE acc == [balance |-> amount, available |-> amount]
<1>1. /\ Idle /\ a \notin DOMAIN accounts /\ supply.cash + amount <= CashCap
      /\ accounts' = Put(accounts, a, acc)
      /\ supply' = [supply EXCEPT !.cash = @ + amount]
      /\ UNCHANGED <<holdings, stocks, books, taker>>
  BY DEF handleAccountCreated
<1>2. supply \in SupplyType /\ amount \in Nat
  BY AmountAssumption DEF LedgerInv, TypeOK, SupplyType
<1>3. /\ supply' \in SupplyType /\ supply'.shares = supply.shares
      /\ supply'.cash = supply.cash + amount /\ supply.cash \in Nat
  BY <1>1, <1>2, AmountAssumption, SMT DEF SupplyType
<1>4. acc \in Balances
  BY <1>1, <1>2, <1>3, AmountAssumption, SMT DEF Balances
<1>5. AreAccounts(accounts')
  BY <1>1, <1>4, Maps, PutMap DEF AreAccounts
<1>6. ChangedAt(accounts, accounts', a) /\ accounts'[a] = acc
  BY <1>1 DEF Put, ChangedAt
<1>7. Total(Cash(accounts')) = supply'.cash
  <2>1. Total(Cash(accounts')) = Total(Cash(accounts)) - Cash(accounts)[a] + Cash(accounts')[a]
    BY <1>5, <1>6, Maps, CashMoves
  <2>2. Cash(accounts)[a] = 0 /\ Cash(accounts')[a] = amount
    BY <1>1, <1>6, SMT DEF Cash, ChangedAt
  <2>3. Total(Cash(accounts)) = supply.cash
    BY DEF LedgerInv, Conserved
  <2> QED BY <1>2, <1>3, <2>1, <2>2, <2>3, SMT
<1>8. ASSUME NEW x \in DOMAIN accounts'
      PROVE  accounts'[x].balance = accounts'[x].available + Total(CashLock(books, x))
  <2>1. CASE x = a
    BY <1>1, <1>2, <1>6, <2>1, NoCashLock, SMT
  <2>2. CASE x # a
    BY <1>1, <1>6, <2>2, IdleBalances DEF ChangedAt
  <2> QED BY <2>1, <2>2
<1>9. DOMAIN accounts \subseteq DOMAIN accounts'
  BY <1>6 DEF ChangedAt
<1> QED BY <1>1, <1>3, <1>5, <1>7, <1>8, <1>9, CashOnly

\* Listing a stock (handleStockListed) touches no balance.
LEMMA StockListedKeeps ==
  ASSUME LedgerInv, NEW s \in Stocks, NEW p \in Prices, handleStockListed(s, p)
  PROVE  LedgerInv'
<1>1. /\ stocks' = Put(stocks, s, [price |-> p, status |-> Listed])
      /\ UNCHANGED <<accounts, holdings, books, taker, supply>>
  BY DEF handleStockListed
<1>2. IsMap(stocks', Stocks, [price: Prices, status: {Listed}])
  BY <1>1, PutMap DEF LedgerInv, TypeOK
<1>3. TypeOK'
  BY <1>1, <1>2 DEF LedgerInv, TypeOK
<1>4. BooksConsistent' /\ TakerSound' /\ PaidWithinLimit' /\ OwnersKnown'
  BY <1>1 DEF LedgerInv, BooksConsistent, TakerSound, PaidWithinLimit, Idle, OwnersKnown,
              OwnerKnown
<1>5. CashReserved' /\ SharesReserved' /\ Conserved'
  BY <1>1 DEF LedgerInv, CashReserved, SharesReserved, Conserved, TakerCash, TakerShares, Idle
<1> QED BY <1>3, <1>4, <1>5 DEF LedgerInv

\* An accepted adjustment (applyBalanceAdjust) moves balance and available cash alike,
\* and never below zero; a refused one moves nothing.
LEMMA BalanceAdjustKeeps ==
  ASSUME LedgerInv, NEW a \in Accounts, NEW delta \in Int, handleAdminBalanceAdjust(a, delta)
  PROVE  LedgerInv'
<1>1. /\ Idle /\ supply.cash + delta <= CashCap
      /\ UNCHANGED <<holdings, stocks, books, taker>>
  BY DEF handleAdminBalanceAdjust
<1>2. CASE validateBalanceAdjust(a, delta)
  <2>1. /\ accounts' = AddCash(accounts, a, delta, delta)
        /\ supply' = [supply EXCEPT !.cash = @ + delta]
    BY <1>2 DEF handleAdminBalanceAdjust
  <2>2. /\ a \in DOMAIN accounts
        /\ delta < 0 => accounts[a].balance >= -delta /\ accounts[a].available >= -delta
    BY <1>2 DEF validateBalanceAdjust
  <2>3. /\ accounts[a].balance \in Nat /\ accounts[a].available \in Nat
        /\ accounts[a].available <= accounts[a].balance /\ accounts[a].balance <= supply.cash
        /\ supply.cash \in Nat /\ Total(Cash(accounts)) = supply.cash
    BY <2>2, BalanceFacts
  <2>4. /\ accounts[a].balance + delta \in 0..(Word - 1)
        /\ accounts[a].available + delta \in 0..(Word - 1)
        /\ supply.cash + delta \in 0..CashCap
    BY <1>1, <2>2, <2>3, AmountAssumption, SMT
  <2>5. /\ AreAccounts(accounts') /\ DOMAIN accounts' = DOMAIN accounts
        /\ \A x \in DOMAIN accounts \ {a} : accounts'[x] = accounts[x]
        /\ accounts'[a].balance = accounts[a].balance + delta
        /\ accounts'[a].available = accounts[a].available + delta
        /\ Total(Cash(accounts')) = Total(Cash(accounts)) + delta
    BY <2>1, <2>2, <2>4, Maps, CashStep, SMT
  <2>6. /\ supply' \in SupplyType /\ supply'.shares = supply.shares
        /\ supply'.cash = supply.cash + delta
    BY <2>1, <2>4 DEF LedgerInv, TypeOK, SupplyType
  <2>7. ASSUME NEW x \in DOMAIN accounts'
        PROVE  accounts'[x].balance = accounts'[x].available + Total(CashLock(books, x))
    <3>1. CASE x = a
      <4>1. /\ accounts[a].balance = accounts[a].available + Total(CashLock(books, a))
            /\ Total(CashLock(books, a)) \in Nat
        BY <1>1, <2>2, IdleBalances, BalanceFacts
      <4> QED BY <2>3, <2>5, <3>1, <4>1, SMT
    <3>2. CASE x # a
      BY <1>1, <2>5, <3>2, IdleBalances
    <3> QED BY <3>1, <3>2
  <2>8. Total(Cash(accounts')) = supply'.cash
    BY <2>3, <2>5, <2>6
  <2> QED BY <1>1, <2>5, <2>6, <2>7, <2>8, CashOnly
<1>3. CASE ~validateBalanceAdjust(a, delta)
  <2>1. UNCHANGED <<accounts, supply>>
    BY <1>3 DEF handleAdminBalanceAdjust
  <2>2. supply \in SupplyType /\ Total(Cash(accounts)) = supply.cash
    BY DEF LedgerInv, TypeOK, SupplyType, Conserved
  <2> QED BY <1>1, <2>1, <2>2, Maps, IdleBalances, CashOnly
<1> QED BY <1>2, <1>3

\* A transfer (applyTransfer) takes from one account what it gives to the other, also
\* when both are the same account.
LEMMA TransferKeeps ==
  ASSUME LedgerInv, NEW from \in Accounts, NEW to \in Accounts, NEW amount \in Nat,
         handleTransferCreated(from, to, amount)
  PROVE  LedgerInv'
<1>1. Idle /\ UNCHANGED <<holdings, stocks, books, taker, supply>>
  BY DEF handleTransferCreated
<1>2. supply \in SupplyType /\ Total(Cash(accounts)) = supply.cash
  BY DEF LedgerInv, TypeOK, SupplyType, Conserved
<1>3. CASE validateTransfer(from, to, amount)
  <2> DEFINE mid == AddCash(accounts, from, -amount, -amount)
  <2>1. accounts' = AddCash(mid, to, amount, amount)
    BY <1>3 DEF handleTransferCreated
  <2>2. /\ from # to /\ from \in DOMAIN accounts /\ to \in DOMAIN accounts
        /\ accounts[from].available >= amount
    BY <1>3 DEF validateTransfer
  <2>3. /\ accounts[from].balance \in Nat /\ accounts[from].available \in Nat
        /\ accounts[from].available <= accounts[from].balance
        /\ accounts[from].balance <= supply.cash
        /\ accounts[to].balance \in Nat /\ accounts[to].available \in Nat
        /\ accounts[to].available <= accounts[to].balance
        /\ supply.cash \in Nat /\ supply.cash < Word
    BY <2>2, BalanceFacts
  <2>4. /\ AreAccounts(mid) /\ DOMAIN mid = DOMAIN accounts
        /\ \A x \in DOMAIN accounts \ {from} : mid[x] = accounts[x]
        /\ mid[from].balance = accounts[from].balance + (-amount)
        /\ mid[from].available = accounts[from].available + (-amount)
        /\ Total(Cash(mid)) = Total(Cash(accounts)) + (-amount)
    <3>1. /\ accounts[from].balance + (-amount) \in 0..(Word - 1)
          /\ accounts[from].available + (-amount) \in 0..(Word - 1)
      BY <2>2, <2>3, WordPositive, SMT
    <3> QED BY <2>2, <3>1, Maps, CashStep, SMT
  <2> HIDE DEF mid
  <2>5. mid[to] = accounts[to] /\ accounts[to].balance <= supply.cash - amount
    <3>1. mid[to] = accounts[to] /\ mid[to].balance <= Total(Cash(mid))
      BY <2>2, <2>4, CashType
    <3> QED BY <1>2, <2>3, <2>4, <3>1
  <2>6. /\ AreAccounts(accounts') /\ DOMAIN accounts' = DOMAIN mid
        /\ \A x \in DOMAIN mid \ {to} : accounts'[x] = mid[x]
        /\ accounts'[to].balance = mid[to].balance + amount
        /\ accounts'[to].available = mid[to].available + amount
        /\ Total(Cash(accounts')) = Total(Cash(mid)) + amount
    <3>1. /\ mid[to].balance + amount \in 0..(Word - 1)
          /\ mid[to].available + amount \in 0..(Word - 1)
      BY <2>3, <2>5, WordPositive, SMT
    <3> QED BY <2>1, <2>2, <2>4, <3>1, CashStep, SMT
  <2>7. Total(Cash(accounts')) = supply.cash
    BY <1>2, <2>3, <2>4, <2>6, SMT
  <2>8. ASSUME NEW x \in DOMAIN accounts'
        PROVE  accounts'[x].balance = accounts'[x].available + Total(CashLock(books, x))
    <3>1. /\ accounts[x].balance = accounts[x].available + Total(CashLock(books, x))
          /\ Total(CashLock(books, x)) \in Nat
      BY <1>1, <2>4, <2>6, IdleBalances, BalanceFacts
    <3>2. CASE x = from
      <4>1. accounts'[x] = mid[x]
        BY <2>2, <2>4, <2>6, <3>2
      <4> QED BY <2>3, <2>4, <3>1, <3>2, <4>1, SMT
    <3>3. CASE x = to
      BY <2>3, <2>5, <2>6, <3>1, <3>3, SMT
    <3>4. CASE x # from /\ x # to
      BY <2>4, <2>6, <3>1, <3>4
    <3> QED BY <3>2, <3>3, <3>4
  <2> QED BY <1>1, <1>2, <2>4, <2>6, <2>7, <2>8, CashOnly
<1>4. CASE ~validateTransfer(from, to, amount)
  <2>1. UNCHANGED accounts
    BY <1>4 DEF handleTransferCreated
  <2> QED BY <1>1, <1>2, <2>1, Maps, IdleBalances, CashOnly
<1> QED BY <1>3, <1>4

\* An accepted share adjustment (applyStockBalanceAdjust) moves quantity and available
\* shares alike, on a holding it may have to create.
LEMMA StockBalanceAdjustKeeps ==
  ASSUME LedgerInv, NEW a \in Accounts, NEW s \in Stocks, NEW delta \in Int, NEW average,
         handleAdminStockBalanceAdjust(a, s, delta, average)
  PROVE  LedgerInv'
<1> DEFINE k == <<a, s>>
<1>1. /\ Idle /\ supply.shares[s] + delta <= ShareCap
      /\ UNCHANGED <<accounts, stocks, books, taker>>
  BY DEF handleAdminStockBalanceAdjust
<1>2. /\ supply \in SupplyType /\ supply.shares[s] \in Nat
      /\ \A t \in Stocks : Total(SharesOf(holdings, t)) = supply.shares[t]
  BY AmountAssumption, SMT DEF LedgerInv, TypeOK, SupplyType, Conserved
<1>3. \A x \in DOMAIN holdings : x[1] \in DOMAIN accounts
  BY DEF LedgerInv, OwnersKnown
<1>4. CASE ~validateStockBalanceAdjust(a, s, delta, average)
  <2>1. UNCHANGED <<holdings, supply>>
    BY <1>4 DEF handleAdminStockBalanceAdjust
  <2> QED BY <1>1, <1>2, <1>3, <2>1, Maps, IdleBalances, SharesOnly
<1>5. CASE validateStockBalanceAdjust(a, s, delta, average) /\ k \in DOMAIN holdings
  <2>1. /\ holdings' = AddShares(holdings, k, delta, delta)
        /\ supply' = [supply EXCEPT !.shares[s] = @ + delta]
    BY <1>5 DEF handleAdminStockBalanceAdjust
  <2>2. delta < 0 => holdings[k].quantity >= -delta /\ holdings[k].available >= -delta
    BY <1>5 DEF validateStockBalanceAdjust
  <2>3. /\ holdings[k].quantity \in Nat /\ holdings[k].available \in Nat
        /\ holdings[k].available <= holdings[k].quantity
        /\ holdings[k].quantity <= supply.shares[s]
        /\ Total(ShareLock(books[s], a)) \in Nat
    BY <1>5, HoldingFacts
  <2>4. /\ holdings[k].quantity + delta \in 0..(Word - 1)
        /\ holdings[k].available + delta \in 0..(Word - 1)
        /\ supply.shares[s] + delta \in 0..ShareCap
    BY <1>1, <1>2, <2>2, <2>3, AmountAssumption, SMT
  <2>5. /\ AreHoldings(holdings') /\ DOMAIN holdings' = DOMAIN holdings
        /\ \A x \in DOMAIN holdings \ {k} : holdings'[x] = holdings[x]
        /\ holdings'[k].quantity = holdings[k].quantity + delta
        /\ holdings'[k].available = holdings[k].available + delta
        /\ Total(SharesOf(holdings', s)) = Total(SharesOf(holdings, s)) + delta
        /\ \A t \in Stocks \ {s} : SharesOf(holdings', t) = SharesOf(holdings, t)
    BY <1>5, <2>1, <2>4, Maps, SharesStep, SMTT(30)
  <2>6. /\ supply' \in SupplyType /\ supply'.cash = supply.cash
        /\ supply'.shares[s] = supply.shares[s] + delta
        /\ \A t \in Stocks \ {s} : supply'.shares[t] = supply.shares[t]
    BY <1>2, <2>1, <2>4 DEF SupplyType
  <2>7. ASSUME NEW x \in DOMAIN holdings'
        PROVE  holdings'[x].quantity = holdings'[x].available + Total(ShareLock(books[x[2]], x[1]))
    <3>1. holdings[x].quantity = holdings[x].available + Total(ShareLock(books[x[2]], x[1]))
      BY <1>1, <2>5, IdleBalances
    <3>2. CASE x = k
      BY <2>3, <2>5, <3>1, <3>2, SMT
    <3>3. CASE x # k
      BY <2>5, <3>1, <3>3
    <3> QED BY <3>2, <3>3
  <2>8. \A t \in Stocks : Total(SharesOf(holdings', t)) = supply'.shares[t]
    BY <1>2, <2>5, <2>6
  <2> QED BY <1>1, <1>3, <2>5, <2>6, <2>7, <2>8, SharesOnly
<1>6. CASE validateStockBalanceAdjust(a, s, delta, average) /\ k \notin DOMAIN holdings
  <2> DEFINE h == [quantity |-> delta, available |-> delta]
  <2>1. /\ holdings' = Put(holdings, k, h)
        /\ supply' = [supply EXCEPT !.shares[s] = @ + delta]
    BY <1>6 DEF handleAdminStockBalanceAdjust
  <2>2. delta > 0 /\ a \in DOMAIN accounts
    BY <1>6 DEF validateStockBalanceAdjust
  <2>3. h \in Shares /\ supply.shares[s] + delta \in 0..ShareCap
    BY <1>1, <1>2, <2>2, AmountAssumption, SMT DEF Shares
  <2>4. AreHoldings(holdings')
    BY <2>1, <2>3, Maps, PutMap DEF AreHoldings
  <2>5. ChangedAt(holdings, holdings', k) /\ holdings'[k] = h
    BY <2>1 DEF Put, ChangedAt
  <2>6. /\ Total(SharesOf(holdings', s)) = Total(SharesOf(holdings, s)) + delta
        /\ \A t \in Stocks \ {s} : SharesOf(holdings', t) = SharesOf(holdings, t)
    <3>1. /\ Total(SharesOf(holdings', s)) =
               Total(SharesOf(holdings, s)) - SharesOf(holdings, s)[a] + SharesOf(holdings', s)[a]
          /\ \A t \in Stocks \ {s} : SharesOf(holdings', t) = SharesOf(holdings, t)
      BY <2>4, <2>5, Maps, SharesMove, SMT
    <3>2. SharesOf(holdings, s)[a] = 0 /\ SharesOf(holdings', s)[a] = delta
      BY <1>6, <2>5, SMT DEF SharesOf, ChangedAt
    <3> QED BY <1>2, <3>1, <3>2, SMT
  <2>7. /\ supply' \in SupplyType /\ supply'.cash = supply.cash
        /\ supply'.shares[s] = supply.shares[s] + delta
        /\ \A t \in Stocks \ {s} : supply'.shares[t] = supply.shares[t]
    BY <1>2, <2>1, <2>3 DEF SupplyType
  <2>8. ASSUME NEW x \in DOMAIN holdings'
        PROVE  holdings'[x].quantity = holdings'[x].available + Total(ShareLock(books[x[2]], x[1]))
    <3>1. CASE x = k
      <4>1. Total(ShareLock(books[s], a)) = 0
        BY <1>6, NoShareLock
      <4> QED BY <2>5, <3>1, <4>1, SMT
    <3>2. CASE x # k
      BY <1>1, <2>5, <3>2, IdleBalances DEF ChangedAt
    <3> QED BY <3>1, <3>2
  <2>9. \A x \in DOMAIN holdings' : x[1] \in DOMAIN accounts
    BY <1>3, <2>2, <2>5, SMT DEF ChangedAt
  <2>10. \A t \in Stocks : Total(SharesOf(holdings', t)) = supply'.shares[t]
    BY <1>2, <2>6, <2>7
  <2>11. DOMAIN holdings \subseteq DOMAIN holdings'
    BY <2>5 DEF ChangedAt
  <2> QED BY <1>1, <2>4, <2>7, <2>8, <2>9, <2>10, <2>11, SharesOnly
<1> QED BY <1>4, <1>5, <1>6


-----------------------------------------------------------------------------
(* The induction.                                                           *)

\* The empty engine (NewEngine) satisfies the ledger invariant.
LEMMA InitKeeps ==
  ASSUME Init
  PROVE  LedgerInv
<1>1. /\ accounts = EmptyMap /\ holdings = EmptyMap /\ stocks = EmptyMap
      /\ books = [s \in Stocks |-> NewOrderBook] /\ taker = NoTaker
      /\ supply = [cash |-> 0, shares |-> [s \in Stocks |-> 0]]
  BY DEF Init
<1>2. DOMAIN accounts = {} /\ DOMAIN holdings = {} /\ DOMAIN stocks = {}
  BY <1>1 DEF EmptyMap
<1>3. \A s \in Stocks : /\ IsBook(books[s], OrderIds, Orders) /\ Consistent(books[s])
                        /\ DOMAIN books[s].index = {}
  <2>1. IsBook(NewOrderBook, OrderIds, Orders) /\ Consistent(NewOrderBook)
    BY NewConsistent
  <2>2. DOMAIN NewOrderBook.index = {}
    BY DEF NewOrderBook, EmptyMap
  <2> QED BY <1>1, <2>1, <2>2
<1>4. TypeOK
  <2>1. IsMap(accounts, Accounts, Balances) /\ IsMap(holdings, Accounts \X Stocks, Shares)
    BY <1>1 DEF EmptyMap, IsMap
  <2>2. IsMap(stocks, Stocks, [price: Prices, status: {Listed}])
    BY <1>1 DEF EmptyMap, IsMap
  <2>3. supply \in [cash: 0..CashCap, shares: [Stocks -> 0..ShareCap]]
    BY <1>1, AmountAssumption, SMT
  <2>4. books = [s \in Stocks |-> books[s]] /\ taker \in Takers \cup {NoTaker}
    BY <1>1
  <2> QED BY <1>3, <2>1, <2>2, <2>3, <2>4 DEF TypeOK
<1>5. CashReserved /\ SharesReserved
  BY <1>2 DEF CashReserved, SharesReserved
<1>6. Conserved
  <2>1. Total(Cash(accounts)) = 0
    <3>1. Cash(accounts) \in [Accounts -> Nat] /\ \A a \in Accounts : Cash(accounts)[a] = 0
      BY <1>2 DEF Cash
    <3> QED BY <3>1, TotalZero
  <2>2. ASSUME NEW s \in Stocks PROVE Total(SharesOf(holdings, s)) = 0
    <3>1. /\ SharesOf(holdings, s) \in [Accounts -> Nat]
          /\ \A a \in Accounts : SharesOf(holdings, s)[a] = 0
      BY <1>2 DEF SharesOf
    <3> QED BY <3>1, TotalZero
  <2> QED BY <1>1, <2>1, <2>2 DEF Conserved
<1>7. PaidWithinLimit /\ TakerSound
  BY <1>1 DEF PaidWithinLimit, TakerSound, Idle
<1>8. BooksConsistent /\ OwnersKnown
  BY <1>1, <1>2, <1>3 DEF BooksConsistent, OwnersKnown, Idle
<1> QED BY <1>4, <1>5, <1>6, <1>7, <1>8 DEF LedgerInv

\* A rejected request changes nothing, and neither does a stuttering step.
LEMMA UnchangedKeeps ==
  ASSUME LedgerInv, UNCHANGED vars
  PROVE  LedgerInv'
<1>1. /\ accounts' = accounts /\ holdings' = holdings /\ stocks' = stocks /\ books' = books
      /\ taker' = taker /\ supply' = supply /\ pending' = pending /\ view' = view
  BY DEF vars
<1>2. TypeOK'
  BY <1>1 DEF LedgerInv, TypeOK
<1>3. BooksConsistent' /\ OwnersKnown'
  BY <1>1 DEF LedgerInv, BooksConsistent, OwnersKnown, OwnerKnown, Idle
<1>4. TakerSound' /\ PaidWithinLimit'
  BY <1>1 DEF LedgerInv, TakerSound, PaidWithinLimit, OwnerKnown, Idle
<1>5. CashReserved'
  BY <1>1 DEF LedgerInv, CashReserved, TakerCash, Idle
<1>6. SharesReserved'
  BY <1>1 DEF LedgerInv, SharesReserved, TakerShares, Idle
<1>7. Conserved'
  BY <1>1 DEF LedgerInv, Conserved
<1> QED BY <1>2, <1>3, <1>4, <1>5, <1>6, <1>7 DEF LedgerInv

\* Whatever the request, handleOrder keeps the invariant.
LEMMA handleOrderKeeps ==
  ASSUME LedgerInv, NEW o \in TradeRequests \cup TargetRequests, handleOrder(o)
  PROVE  LedgerInv'
<1>1. Idle /\ Fresh(o.id)
  BY DEF handleOrder
<1>2. CASE rejectOrder(o)
  BY <1>2, UnchangedKeeps DEF rejectOrder
<1>3. CASE validateOrder(o) /\ o.trading \in {Buy, Sell} /\ match(o)
  <2>1. o \in TradeRequests
    BY <1>3 DEF TargetRequests, Buy, Sell, EditRequest, CancelRequest
  <2> QED BY <1>1, <1>3, <2>1, matchKeeps
<1>4. CASE validateOrder(o) /\ o.trading = EditRequest /\ edit(o)
  <2>1. o \in TargetRequests
    BY <1>4 DEF TradeRequests, Buy, Sell, EditRequest
  <2> QED BY <1>1, <1>4, <2>1, editKeeps
<1>5. CASE validateOrder(o) /\ o.trading = CancelRequest /\ cancel(o)
  <2>1. o \in TargetRequests
    BY <1>5 DEF TradeRequests, Buy, Sell, CancelRequest
  <2> QED BY <1>1, <1>5, <2>1, cancelKeeps
<1> QED BY <1>2, <1>3, <1>4, <1>5 DEF handleOrder

\* The deltas of the two admin adjustments are integers.
LEMMA SignedInt ==
  ASSUME NEW S, S \subseteq Nat
  PROVE  Signed(S) \subseteq Int
<1>1. S \subseteq Int
  BY SMT
<1>2. ASSUME NEW x \in S PROVE -x \in Int
  BY <1>1, SMT
<1>3. ASSUME NEW y \in {-x : x \in S} PROVE y \in Int
  BY <1>2, <1>3
<1> QED BY <1>1, <1>3 DEF Signed

\* Every handler of the engine keeps the invariant.
LEMMA NextKeeps ==
  ASSUME LedgerInv, [Next]_vars
  PROVE  LedgerInv'
<1>1. CASE \E o \in TradeRequests \cup TargetRequests : handleOrder(o)
  BY <1>1, handleOrderKeeps
<1>2. CASE MatchStep
  BY <1>2, MatchStepKeeps
<1>3. CASE FinishMatch
  BY <1>3, FinishMatchKeeps
<1>4. CASE \E a \in Accounts, amount \in Amounts : handleAccountCreated(a, amount)
  BY <1>4, AccountCreatedKeeps
<1>5. CASE \E s \in Stocks, p \in Prices : handleStockListed(s, p)
  BY <1>5, StockListedKeeps
<1>6. CASE \E from, to \in Accounts, amount \in Amounts : handleTransferCreated(from, to, amount)
  BY <1>6, TransferKeeps, AmountAssumption
<1>7. CASE \E a \in Accounts, delta \in Signed(Amounts) : handleAdminBalanceAdjust(a, delta)
  <2>1. Signed(Amounts) \subseteq Int
    BY AmountAssumption, SignedInt
  <2> QED BY <1>7, <2>1, BalanceAdjustKeeps
<1>8. CASE \E a \in Accounts, s \in Stocks, delta \in Signed(Lots), average \in {0, 1} :
             handleAdminStockBalanceAdjust(a, s, delta, average)
  <2>1. Signed(Lots) \subseteq Int
    BY AmountAssumption, SignedInt
  <2> QED BY <1>8, <2>1, StockBalanceAdjustKeeps
<1>9. CASE UNCHANGED vars
  BY <1>9, UnchangedKeeps
<1> QED BY <1>1, <1>2, <1>3, <1>4, <1>5, <1>6, <1>7, <1>8, <1>9 DEF Next

\* The ledger invariant holds in every reachable state, for every value of the
\* constants: the inductive strengthening of the theorems below.
THEOREM LedgerInvariant == Spec => []LedgerInv
<1>1. Init => LedgerInv
  BY InitKeeps
<1>2. LedgerInv /\ [Next]_vars => LedgerInv'
  BY NextKeeps
<1> QED BY <1>1, <1>2, PTL DEF Spec

\* The engine's maps keep their types and every uint64 amount its range: no
\* handler's arithmetic wraps around.
THEOREM TypeCorrect == Spec => []TypeOK
<1>1. LedgerInv => TypeOK
  BY DEF LedgerInv
<1> QED BY <1>1, LedgerInvariant, PTL

\* Every won of a balance is available or reserved by exactly one live order
\* (reserve, Fill, refund, removeAndRelease).
THEOREM CashNeverLeaks == Spec => []CashReserved
<1>1. LedgerInv => CashReserved
  BY DEF LedgerInv
<1> QED BY <1>1, LedgerInvariant, PTL

\* The same for the shares of a holding.
THEOREM SharesNeverLeak == Spec => []SharesReserved
<1>1. LedgerInv => SharesReserved
  BY DEF LedgerInv
<1> QED BY <1>1, LedgerInvariant, PTL

\* Trading and transfers neither create nor destroy cash or shares.
THEOREM NothingCreated == Spec => []Conserved
<1>1. LedgerInv => Conserved
  BY DEF LedgerInv
<1> QED BY <1>1, LedgerInvariant, PTL

\* A buyer never pays more than its limit price for what was filled, so the
\* refund subtraction of matchEvents never underflows.
THEOREM RefundNeverUnderflows == Spec => []PaidWithinLimit
<1>1. LedgerInv => PaidWithinLimit
  BY DEF LedgerInv
<1> QED BY <1>1, LedgerInvariant, PTL

-----------------------------------------------------------------------------
(* No book is crossed.                                                      *)

\* Every handler keeps the orders apart.
LEMMA NextApart ==
  ASSUME LedgerInv, NoOrdersCross(books), [Next]_vars
  PROVE  NoOrdersCross(books')
<1>1. CASE books' = books
  BY <1>1
<1>2. ASSUME NEW o \in TradeRequests \cup TargetRequests, handleOrder(o)
      PROVE  NoOrdersCross(books')
  <2>1. CASE rejectOrder(o) \/ match(o)
    <3>1. books' = books
      BY <2>1 DEF rejectOrder, vars, match, BeginMatch
    <3> QED BY <1>1, <3>1
  <2>2. CASE validateOrder(o) /\ o.trading \in {EditRequest, CancelRequest}
             /\ (edit(o) \/ cancel(o))
    <3>1. books' = [books EXCEPT ![o.stock] = Cancel(@, o.target)]
      BY <2>2 DEF edit, cancel, BeginMatch, removeAndRelease
    <3>2. o.stock \in Stocks
      BY DEF TradeRequests, TargetRequests
    <3>3. Has(books[o.stock], o.target)
      BY <2>2 DEF validateOrder, validateEdit, validateTargetRequest
    <3>4. TakenOut(books, books', o.stock, o.target, books[o.stock].index[o.target])
      BY <3>1, <3>3 DEF TakenOut
    <3> QED BY <3>2, <3>4, Maps, CancelFewer, FewerApart, SMT
  <2> QED BY <1>2, <2>1, <2>2 DEF handleOrder
<1>3. CASE MatchStep
  <2>1. PICK s, id, c, p, n, buyer, seller : Trade(s, id, c, p, n, buyer, seller)
    BY <1>3, MatchStepTrades
  <2>2. PICK w : w = Remaining(taker.order)
    OBVIOUS
  <2>3. ~Idle /\ s = taker.stock /\ w > 0 /\ Filled(books, books', s, id, w, c, n)
    BY <2>1, <2>2 DEF Trade
  <2>4. s \in Stocks /\ w \in Nat
    BY <2>2, <2>3, TakerFacts
  <2> QED BY <2>3, <2>4, Maps, FillFewer, FewerApart
<1>4. CASE FinishMatch
  BY <1>4, FinishApart
<1>5. CASE \/ \E a \in Accounts, amount \in Amounts : handleAccountCreated(a, amount)
           \/ \E s \in Stocks, p \in Prices : handleStockListed(s, p)
           \/ \E from, to \in Accounts, amount \in Amounts :
                handleTransferCreated(from, to, amount)
           \/ \E a \in Accounts, delta \in Signed(Amounts) : handleAdminBalanceAdjust(a, delta)
           \/ \E a \in Accounts, s \in Stocks, delta \in Signed(Lots), average \in {0, 1} :
                handleAdminStockBalanceAdjust(a, s, delta, average)
           \/ UNCHANGED vars
  <2>1. books' = books
    BY <1>5 DEF handleAccountCreated, handleStockListed, handleTransferCreated,
      handleAdminBalanceAdjust, handleAdminStockBalanceAdjust, vars
  <2> QED BY <1>1, <2>1
<1> QED BY <1>2, <1>3, <1>4, <1>5 DEF Next

\* Orders that are apart leave best prices that are apart.
LEMMA ApartUncrossed ==
  ASSUME LedgerInv, NoOrdersCross(books)
  PROVE  Uncrossed
<1> SUFFICES ASSUME NEW s \in Stocks, HasBest(books[s], Buy), HasBest(books[s], Sell)
             PROVE  Best(books[s], Buy) < Best(books[s], Sell)
  BY DEF Uncrossed
<1>1. PICK b : b = books[s]
  OBVIOUS
<1>2. IsBook(b, OrderIds, Orders) /\ Consistent(b)
  BY <1>1, Maps DEF AreBooks
<1>3. HasBest(b, Buy) /\ HasBest(b, Sell) /\ {Buy, Sell} = Sides
  BY <1>1 DEF Sides
<1>4. PICK i, j : i = Front(b, Buy, Best(b, Buy)) /\ j = Front(b, Sell, Best(b, Sell))
  OBVIOUS
<1>5. /\ i \in DOMAIN b.index /\ b.index[i].side = Buy /\ b.index[i].price = Best(b, Buy)
      /\ j \in DOMAIN b.index /\ b.index[j].side = Sell /\ b.index[j].price = Best(b, Sell)
  BY <1>2, <1>3, <1>4, OrderRecords, FrontOfBest, SMT
<1>6. b.index[i].price < b.index[j].price
  BY <1>1, <1>5 DEF NoOrdersCross
<1> QED BY <1>1, <1>5, <1>6

\* Between requests no bid is at or above an ask, whatever was traded, edited and
\* cancelled before: the loop of matchEvents never stops too early.
THEOREM NeverCrossed == Spec => []Uncrossed
<1>1. Init => LedgerInv /\ NoOrdersCross(books)
  <2>1. ASSUME Init, NEW s \in Stocks PROVE DOMAIN books[s].index = {}
    BY <2>1 DEF Init, NewOrderBook, EmptyMap
  <2> QED BY <2>1, InitKeeps DEF NoOrdersCross
<1>2. LedgerInv /\ NoOrdersCross(books) /\ [Next]_vars => (LedgerInv /\ NoOrdersCross(books))'
  BY NextKeeps, NextApart
<1>3. LedgerInv /\ NoOrdersCross(books) => Uncrossed
  BY ApartUncrossed
<1> QED BY <1>1, <1>2, <1>3, PTL DEF Spec
=============================================================================
