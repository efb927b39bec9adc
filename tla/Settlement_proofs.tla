-------------------------- MODULE Settlement_proofs -------------------------
(***************************************************************************)
(* The match loop keeps LedgerInv: what a fill moves between the two       *)
(* parties is what the book and the taker held back.                       *)
(***************************************************************************)
EXTENDS Exchange, Ledger_proofs

\* Zenon proves every leaf that names no other prover; SMT is named for the rest.
USE ZenonT(30)

-----------------------------------------------------------------------------
(* What a fill moves between the two parties.                               *)

\* What a payment of x to, or by, who changes at key k.
At(k, who, x) == IF k = who THEN x ELSE 0

CashSettled(accts, r, buyer, seller, x) ==
  /\ AreAccounts(r) /\ DOMAIN r = DOMAIN accts
  /\ Total(Cash(r)) = Total(Cash(accts))
  /\ \A a \in DOMAIN accts :
       /\ r[a].balance = accts[a].balance - At(a, buyer, x) + At(a, seller, x)
       /\ r[a].available = accts[a].available + At(a, seller, x)

\* SettleCash moves x from the reserved cash of the buyer to the seller, who may
\* be the buyer, and nothing wraps.
LEMMA CashSettles ==
  ASSUME NEW accts, AreAccounts(accts), NEW buyer \in DOMAIN accts, NEW seller \in DOMAIN accts,
         NEW x \in Nat, accts[buyer].available + x <= accts[buyer].balance,
         accts[seller].available <= accts[seller].balance, Total(Cash(accts)) < Word,
         NEW r, r = AddCash(AddCash(accts, buyer, -x, 0), seller, x, x)
  PROVE  CashSettled(accts, r, buyer, seller, x)
<1>1. \A a \in DOMAIN accts : /\ accts[a].balance \in Nat /\ accts[a].available \in Nat
                               /\ accts[a].balance < Word /\ accts[a].available < Word
  BY WordPositive, SMT DEF AreAccounts, IsMap, Balances
<1>2. PICK m : m = AddCash(accts, buyer, -x, 0)
  OBVIOUS
<1>3. Total(Cash(accts)) \in Nat
  BY CashType
<1>4. /\ AreAccounts(m) /\ DOMAIN m = DOMAIN accts
      /\ \A a \in DOMAIN accts \ {buyer} : m[a] = accts[a]
      /\ m[buyer].balance = accts[buyer].balance + (-x)
      /\ m[buyer].available = accts[buyer].available + 0
      /\ Total(Cash(m)) = Total(Cash(accts)) + (-x)
  <2>1. /\ accts[buyer].balance + (-x) \in 0..(Word - 1)
        /\ accts[buyer].available + 0 \in 0..(Word - 1)
    BY <1>1, WordPositive, SMT
  <2> QED BY <1>2, <2>1, CashStep, SMT
<1>5. m[seller].balance \in Nat /\ m[seller].balance <= Total(Cash(m))
  BY <1>4, CashType, WordPositive, SMT DEF AreAccounts, IsMap, Balances
<1>6. m[seller].available \in Nat /\ m[seller].available <= m[seller].balance
  <2>1. CASE seller = buyer
    BY <1>1, <1>4, <2>1, SMT
  <2>2. CASE seller # buyer
    BY <1>1, <1>4, <2>2
  <2> QED BY <2>1, <2>2
<1>7. /\ m[seller].balance + x \in 0..(Word - 1) /\ m[seller].available + x \in 0..(Word - 1)
  BY <1>3, <1>4, <1>5, <1>6, WordPositive, SMT
<1>8. /\ AreAccounts(r) /\ DOMAIN r = DOMAIN m
      /\ \A a \in DOMAIN m \ {seller} : r[a] = m[a]
      /\ r[seller].balance = m[seller].balance + x
      /\ r[seller].available = m[seller].available + x
      /\ Total(Cash(r)) = Total(Cash(m)) + x
  <2>1. r = AddCash(m, seller, x, x) /\ seller \in DOMAIN m
    BY <1>2, <1>4
  <2> QED BY <1>4, <1>7, <2>1, CashStep, SMT
<1>9. Total(Cash(r)) = Total(Cash(accts))
  BY <1>3, <1>4, <1>8, SMT
<1>10. ASSUME NEW a \in DOMAIN accts
       PROVE  /\ r[a].balance = accts[a].balance - At(a, buyer, x) + At(a, seller, x)
              /\ r[a].available = accts[a].available + At(a, seller, x)
  <2>1. CASE a = buyer /\ a = seller
    BY <1>1, <1>4, <1>8, <2>1, SMT DEF At
  <2>2. CASE a = buyer /\ a # seller
    BY <1>1, <1>4, <1>8, <2>2, SMT DEF At
  <2>3. CASE a # buyer /\ a = seller
    BY <1>1, <1>4, <1>8, <2>3, SMT DEF At
  <2>4. CASE a # buyer /\ a # seller
    BY <1>1, <1>4, <1>8, <2>4, SMT DEF At
  <2> QED BY <2>1, <2>2, <2>3, <2>4
<1> QED BY <1>4, <1>8, <1>9, <1>10 DEF CashSettled

\* The entry of a holding, zero where there is none.
Holding(holds, k) == IF k \in DOMAIN holds THEN holds[k] ELSE NoShares

SharesSettled(holds, r, buyer, seller, s, n) ==
  /\ AreHoldings(r) /\ DOMAIN r = DOMAIN holds \cup {<<buyer, s>>}
  /\ \A x \in Stocks : Total(SharesOf(r, x)) = Total(SharesOf(holds, x))
  /\ \A k \in DOMAIN r :
       /\ r[k].quantity = Holding(holds, k).quantity
                            + At(k, <<buyer, s>>, n) - At(k, <<seller, s>>, n)
       /\ r[k].available = Holding(holds, k).available + At(k, <<buyer, s>>, n)

Opened(holds, h, k) ==
  /\ k \in Accounts \X Stocks
  /\ h = IF k \in DOMAIN holds THEN holds ELSE Put(holds, k, NoShares)

\* ReceiveShares starts from a holding that changes no total.
LEMMA HoldingOpened ==
  ASSUME NEW holds, AreHoldings(holds), NEW k, NEW h, Opened(holds, h, k)
  PROVE  /\ AreHoldings(h) /\ DOMAIN h = DOMAIN holds \cup {k}
         /\ \A x \in Stocks : SharesOf(h, x) = SharesOf(holds, x)
         /\ \A y \in DOMAIN h : h[y] = Holding(holds, y)
<1>1. NoShares \in Shares /\ NoShares.quantity = 0
  BY WordPositive, SMT DEF NoShares, Shares
<1>2. CASE k \in DOMAIN holds
  BY <1>2 DEF Holding, Opened
<1>3. CASE k \notin DOMAIN holds
  <2>1. h = Put(holds, k, NoShares)
    BY <1>3 DEF Opened
  <2>2. /\ DOMAIN h = DOMAIN holds \cup {k} /\ h[k] = NoShares
        /\ \A y \in DOMAIN holds : h[y] = holds[y]
    BY <1>3, <2>1 DEF Put
  <2>3. AreHoldings(h)
    <3>1. h = [y \in DOMAIN holds \cup {k} |-> IF y = k THEN NoShares ELSE holds[y]]
      BY <2>1 DEF Put
    <3>2. k \in Accounts \X Stocks
      BY DEF Opened
    <3> QED BY <1>1, <2>2, <3>1, <3>2 DEF AreHoldings, IsMap
  <2>4. ASSUME NEW x \in Stocks PROVE SharesOf(h, x) = SharesOf(holds, x)
    BY <1>1, <1>3, <2>2 DEF SharesOf
  <2>5. \A y \in DOMAIN h : h[y] = Holding(holds, y)
    BY <1>3, <2>2 DEF Holding
  <2> QED BY <2>2, <2>3, <2>4, <2>5
<1> QED BY <1>2, <1>3

\* SettleShares moves n of the reserved shares of the seller to the buyer, who
\* may be the seller; only then may the quantity wrap on the way.
LEMMA SharesSettle ==
  ASSUME NEW holds, AreHoldings(holds), NEW buyer \in Accounts, NEW seller, NEW s \in Stocks,
         <<seller, s>> \in DOMAIN holds, NEW n \in Nat,
         holds[<<seller, s>>].available + n <= holds[<<seller, s>>].quantity,
         <<buyer, s>> \in DOMAIN holds =>
           holds[<<buyer, s>>].available <= holds[<<buyer, s>>].quantity,
         Total(SharesOf(holds, s)) < Word,
         NEW r, r = AddShares(ReceiveShares(holds, <<buyer, s>>, n), <<seller, s>>, -n, 0)
  PROVE  SharesSettled(holds, r, buyer, seller, s, n)
<1>1. \A k \in DOMAIN holds : /\ holds[k].quantity \in Nat /\ holds[k].available \in Nat
                               /\ holds[k].quantity < Word /\ holds[k].available < Word
  BY WordPositive, SMT DEF AreHoldings, IsMap, Shares
<1>2. PICK h : h = IF <<buyer, s>> \in DOMAIN holds THEN holds
                   ELSE Put(holds, <<buyer, s>>, NoShares)
  OBVIOUS
<1>3. /\ AreHoldings(h) /\ DOMAIN h = DOMAIN holds \cup {<<buyer, s>>}
      /\ \A x \in Stocks : SharesOf(h, x) = SharesOf(holds, x)
      /\ \A y \in DOMAIN h : h[y] = Holding(holds, y)
  <2>1. PICK k : k = <<buyer, s>>
    OBVIOUS
  <2>2. Opened(holds, h, k)
    BY <1>2, <2>1 DEF Opened
  <2>3. /\ AreHoldings(h) /\ DOMAIN h = DOMAIN holds \cup {k}
        /\ \A x \in Stocks : SharesOf(h, x) = SharesOf(holds, x)
        /\ \A y \in DOMAIN h : h[y] = Holding(holds, y)
    BY <2>2, HoldingOpened
  <2> QED BY <2>1, <2>3
<1>4. PICK m : m = AddShares(h, <<buyer, s>>, n, n)
  OBVIOUS
<1>5. r = AddShares(m, <<seller, s>>, -n, 0)
  BY <1>2, <1>4 DEF ReceiveShares
<1>6. Total(SharesOf(holds, s)) \in Nat /\ seller \in Accounts
  BY SharesType DEF AreHoldings, IsMap
<1>7. n <= holds[<<seller, s>>].quantity /\ n < Word
  <2>1. holds[<<seller, s>>].quantity \in Nat /\ holds[<<seller, s>>].available \in Nat
    BY <1>1
  <2>2. holds[<<seller, s>>].quantity < Word
    BY <1>1
  <2> QED BY <2>1, <2>2, WordPositive, SMT
<1>8. PICK old : old = [k \in DOMAIN h |-> Holding(holds, k)]
  OBVIOUS
<1>9. /\ \A k \in DOMAIN h : /\ h[k] = old[k] /\ old[k].quantity \in Nat
                              /\ old[k].available \in Nat /\ old[k].available <= Word - 1
      /\ old[<<seller, s>>] = holds[<<seller, s>>]
  <2>1. h = old
    BY <1>3, <1>8 DEF AreHoldings, IsMap
  <2>2. <<seller, s>> \in DOMAIN h /\ h[<<seller, s>>] = holds[<<seller, s>>]
    BY <1>3 DEF Holding
  <2> QED BY <1>3, <2>1, <2>2, WordPositive, SMT DEF AreHoldings, IsMap, Shares
<1>10. CASE buyer # seller
  <2>1. /\ old[<<buyer, s>>].quantity + n \in 0..(Word - 1)
        /\ old[<<buyer, s>>].available + n \in 0..(Word - 1)
    <3>1. SharesOf(holds, s)[buyer] + SharesOf(holds, s)[seller] <= Total(SharesOf(holds, s))
      BY <1>6, <1>10, TwoHoldings
    <3>2. /\ SharesOf(holds, s)[buyer] = old[<<buyer, s>>].quantity
          /\ SharesOf(holds, s)[seller] = holds[<<seller, s>>].quantity
      BY <1>3, <1>6, <1>8 DEF SharesOf, Holding, NoShares
    <3>3. old[<<buyer, s>>].available <= old[<<buyer, s>>].quantity
      BY <1>1, <1>3, <1>8, SMT DEF Holding, NoShares
    <3>4. <<buyer, s>> \in DOMAIN h
      BY <1>3
    <3>5. holds[<<seller, s>>].quantity \in Nat
      BY <1>1
    <3> QED BY <1>6, <1>7, <1>9, <3>1, <3>2, <3>3, <3>4, <3>5, WordPositive, SMT
  <2>2. /\ AreHoldings(m) /\ DOMAIN m = DOMAIN h
        /\ \A x \in DOMAIN h \ {<<buyer, s>>} : m[x] = old[x]
        /\ m[<<buyer, s>>].quantity = old[<<buyer, s>>].quantity + n
        /\ m[<<buyer, s>>].available = old[<<buyer, s>>].available + n
        /\ Total(SharesOf(m, s)) = Total(SharesOf(holds, s)) + n
        /\ \A t \in Stocks \ {s} : SharesOf(m, t) = SharesOf(holds, t)
    <3>1. <<buyer, s>> \in DOMAIN h /\ h[<<buyer, s>>] = old[<<buyer, s>>]
      BY <1>3, <1>9
    <3>2. /\ AreHoldings(m) /\ DOMAIN m = DOMAIN h
          /\ \A x \in DOMAIN h \ {<<buyer, s>>} : m[x] = h[x]
          /\ m[<<buyer, s>>].quantity = h[<<buyer, s>>].quantity + n
          /\ m[<<buyer, s>>].available = h[<<buyer, s>>].available + n
          /\ Total(SharesOf(m, s)) = Total(SharesOf(h, s)) + n
          /\ \A t \in Stocks \ {s} : SharesOf(m, t) = SharesOf(h, t)
      BY <1>3, <1>4, <2>1, <3>1, SharesStep, SMTT(30)
    <3> QED BY <1>3, <1>9, <3>1, <3>2
  <2>3. /\ <<seller, s>> \in DOMAIN m /\ m[<<seller, s>>] = holds[<<seller, s>>]
        /\ m[<<seller, s>>].quantity + (-n) \in 0..(Word - 1)
        /\ m[<<seller, s>>].available + 0 \in 0..(Word - 1)
    <3>1. <<seller, s>> \in DOMAIN h \ {<<buyer, s>>}
      BY <1>3, <1>10
    <3>2. m[<<seller, s>>] = holds[<<seller, s>>]
      BY <1>9, <2>2, <3>1
    <3> QED BY <1>1, <1>7, <2>2, <3>1, <3>2, WordPositive, SMT
  <2>4. /\ AreHoldings(r) /\ DOMAIN r = DOMAIN m
        /\ \A x \in DOMAIN m \ {<<seller, s>>} : r[x] = m[x]
        /\ r[<<seller, s>>].quantity = m[<<seller, s>>].quantity + (-n)
        /\ r[<<seller, s>>].available = m[<<seller, s>>].available + 0
        /\ Total(SharesOf(r, s)) = Total(SharesOf(m, s)) + (-n)
        /\ \A t \in Stocks \ {s} : SharesOf(r, t) = SharesOf(m, t)
    BY <1>5, <2>2, <2>3, SharesStep, SMTT(30)
  <2>5. \A x \in Stocks : Total(SharesOf(r, x)) = Total(SharesOf(holds, x))
    BY <1>6, <2>2, <2>4, SMT
  <2>6. ASSUME NEW k \in DOMAIN h
        PROVE  /\ r[k].quantity =
                    old[k].quantity + At(k, <<buyer, s>>, n) - At(k, <<seller, s>>, n)
               /\ r[k].available = old[k].available + At(k, <<buyer, s>>, n)
    <3>1. <<buyer, s>> # <<seller, s>>
      BY <1>10
    <3>2. CASE k = <<buyer, s>>
      BY <1>9, <2>2, <2>4, <3>1, <3>2, SMT DEF At
    <3>3. CASE k = <<seller, s>>
      BY <1>9, <2>2, <2>3, <2>4, <3>1, <3>3, SMT DEF At
    <3>4. CASE k # <<buyer, s>> /\ k # <<seller, s>>
      BY <1>9, <2>2, <2>4, <3>4, SMT DEF At
    <3> QED BY <3>2, <3>3, <3>4
  <2> QED BY <1>3, <1>8, <2>2, <2>4, <2>5, <2>6 DEF SharesSettled
<1>11. CASE buyer = seller
  <2>1. PICK k : k = <<seller, s>>
    OBVIOUS
  <2>2. h = holds /\ k \in DOMAIN holds
    BY <1>2, <1>11, <2>1
  <2>3. PICK q, a : q = holds[k].quantity /\ a = holds[k].available
    OBVIOUS
  <2>4. q \in 0..(Word - 1) /\ a \in 0..(Word - 1) /\ a + n \in 0..(Word - 1)
        /\ n \in 0..(Word - 1)
    BY <1>1, <1>7, <2>1, <2>2, <2>3, WordPositive, SMT
  <2>5. m = [holds EXCEPT ![k] = [quantity |-> UInt64(q + n), available |-> UInt64(a + n)]]
    BY <1>4, <1>11, <2>1, <2>2, <2>3 DEF AddShares
  <2>6. r = [m EXCEPT ![k] = [quantity  |-> UInt64(UInt64(q + n) + (-n)),
                              available |-> UInt64(UInt64(a + n) + 0)]]
    BY <1>5, <2>1, <2>2, <2>5 DEF AddShares
  <2>7. UInt64(UInt64(q + n) + (-n)) = q
    BY <2>4, WordReturn
  <2>8. UInt64(UInt64(a + n) + 0) = a + n
    BY <2>4, WordExact, WordPositive, SMT
  <2>9. r = [holds EXCEPT ![k] = [quantity |-> q, available |-> a + n]]
    BY <2>2, <2>5, <2>6, <2>7, <2>8
  <2>10. /\ DOMAIN r = DOMAIN holds /\ r[k].quantity = q /\ r[k].available = a + n
         /\ \A x \in DOMAIN holds \ {k} : r[x] = holds[x]
    BY <2>2, <2>9, SMT
  <2>11. AreHoldings(r)
    <3>1. [quantity |-> q, available |-> a + n] \in Shares
      BY <2>4 DEF Shares
    <3> QED BY <2>9, <3>1 DEF AreHoldings, IsMap
  <2>12. \A x \in Stocks : SharesOf(r, x) = SharesOf(holds, x)
    BY <2>3, <2>10 DEF SharesOf
  <2>13. ASSUME NEW y \in DOMAIN r
         PROVE  /\ r[y].quantity = Holding(holds, y).quantity
                                     + At(y, <<buyer, s>>, n) - At(y, <<seller, s>>, n)
                /\ r[y].available = Holding(holds, y).available + At(y, <<buyer, s>>, n)
    <3>1. Holding(holds, y) = holds[y] /\ holds[y].quantity \in Nat /\ holds[y].available \in Nat
      BY <1>1, <2>10 DEF Holding
    <3>2. CASE y = k
      BY <1>11, <2>1, <2>3, <2>10, <3>1, <3>2, SMT DEF At
    <3>3. CASE y # k
      BY <1>11, <2>1, <2>10, <3>1, <3>3, SMT DEF At
    <3> QED BY <3>2, <3>3
  <2>14. DOMAIN r = DOMAIN holds \cup {<<buyer, s>>}
    BY <1>11, <2>1, <2>2, <2>10
  <2> QED BY <2>11, <2>12, <2>13, <2>14 DEF SharesSettled
<1> QED BY <1>10, <1>11

-----------------------------------------------------------------------------
(* A step of the match loop.                                                *)

\* n of the resting order c, the front of the best level, trade at its price p.
Trade(s, id, c, p, n, buyer, seller) ==
  /\ ~Idle /\ s = taker.stock /\ Remaining(taker.order) > 0
  /\ c.side = Opposite(taker.order.side) /\ c.price = p
  /\ taker.order.side = Buy => taker.type = Market \/ p <= taker.order.price
  /\ Filled(books, books', s, id, Remaining(taker.order), c, n)
  /\ buyer = IF taker.order.side = Buy THEN taker.order.account ELSE c.account
  /\ seller = IF taker.order.side = Buy THEN c.account ELSE taker.order.account
  /\ accounts' = SettleCash(buyer, seller, UInt64(p * n))
  /\ holdings' = SettleShares(buyer, seller, s, n)
  /\ taker' = [taker EXCEPT !.order.filled = @ + n, !.cash = UInt64(@ + UInt64(p * n)),
                            !.last = p]
  /\ stocks' = stocks /\ supply' = supply

\* A turn of the loop is such a trade.
LEMMA MatchStepTrades ==
  ASSUME LedgerInv, MatchStep
  PROVE  \E s, id, c, p, n, buyer, seller : Trade(s, id, c, p, n, buyer, seller)
<1>1. ~Idle /\ CanFill
  BY DEF MatchStep
<1>2. taker.stock \in Stocks /\ taker.order \in Orders /\ taker.order.side \in Sides
  BY <1>1, TakerFacts, OrderFields
<1>3. PICK s, b, side, p : s = taker.stock /\ b = books[s] /\ side = CounterSide /\ p = BestPrice
  OBVIOUS
<1>4. side \in Sides /\ side = Opposite(taker.order.side)
  BY <1>3 DEF CounterSide, Opposite, Sides
<1>5. IsBook(b, OrderIds, Orders) /\ Consistent(b) /\ AreOrders(OrderIds, Orders)
  BY <1>2, <1>3, Maps, OrderRecords DEF AreBooks
<1>6. HasBest(b, side) /\ p = Best(b, side)
  BY <1>1, <1>3 DEF CanFill, BestPrice
<1>7. PICK f : f = Front(b, side, p)
  OBVIOUS
<1>8. f \in DOMAIN b.index /\ b.index[f].side = side /\ b.index[f].price = p /\ b.index[f].id = f
  BY <1>4, <1>5, <1>6, <1>7, FrontOfBest, SMT
<1>9. PICK c : c = b.index[f]
  OBVIOUS
<1>10. Counter = c /\ Counter.id = f
  BY <1>3, <1>7, <1>8, <1>9 DEF Counter
<1>11. PICK n : n = FillQuantity(b, f, Remaining(taker.order))
  OBVIOUS
<1>12. PICK buyer, seller :
         /\ buyer = IF taker.order.side = Buy THEN taker.order.account ELSE c.account
         /\ seller = IF taker.order.side = Buy THEN c.account ELSE taker.order.account
  OBVIOUS
<1>13. /\ accounts' = SettleCash(buyer, seller, UInt64(p * n))
       /\ holdings' = SettleShares(buyer, seller, s, n)
       /\ books' = [books EXCEPT ![s] = Fill(@, f, Remaining(taker.order))]
       /\ taker' = [taker EXCEPT !.order.filled = @ + n, !.cash = UInt64(@ + UInt64(p * n)),
                                 !.last = p]
       /\ stocks' = stocks /\ supply' = supply
  BY <1>3, <1>10, <1>11, <1>12 DEF MatchStep
<1>14. Filled(books, books', s, f, Remaining(taker.order), c, n)
  BY <1>3, <1>8, <1>9, <1>11, <1>13 DEF Filled, Has
<1>15. taker.order.side = Buy => taker.type = Market \/ p <= taker.order.price
  BY <1>1, <1>3 DEF CanFill, PriceAgrees, Buy, Sell
<1>16. Remaining(taker.order) > 0
  BY <1>1 DEF CanFill
<1>17. c.side = Opposite(taker.order.side) /\ c.price = p
  BY <1>4, <1>8, <1>9
<1>18. Trade(s, f, c, p, n, buyer, seller)
  BY <1>1, <1>3, <1>12, <1>13, <1>14, <1>15, <1>16, <1>17 DEF Trade
<1> QED BY <1>18

\* What is known of a trade before it is settled.
TradeSound(s, id, c, p, n, buyer, seller) ==
  /\ s \in Stocks /\ id \in OrderIds /\ c \in Orders /\ p \in Prices /\ p \in Nat
  /\ c.side \in Sides /\ taker.order.side \in Sides
  /\ n \in Nat /\ n > 0 /\ n <= Remaining(taker.order) /\ n <= Remaining(c)
  /\ AreBooks(books') /\ SameOrders(books, books', s, id) /\ Has(books[s], id)
  /\ \A a : LocksFilled(books, books', s, c, n, a)
  /\ OwnerKnown(c, s) /\ OwnerKnown(taker.order, s)

\* The types of what one turn of the loop moves.
LEMMA TradeFacts ==
  ASSUME LedgerInv, NEW s, NEW id, NEW c, NEW p, NEW n, NEW buyer, NEW seller,
         Trade(s, id, c, p, n, buyer, seller)
  PROVE  TradeSound(s, id, c, p, n, buyer, seller)
<1>1. /\ ~Idle /\ s = taker.stock /\ Remaining(taker.order) > 0 /\ c.price = p
      /\ Filled(books, books', s, id, Remaining(taker.order), c, n)
  BY DEF Trade
<1>2. /\ s \in Stocks /\ Remaining(taker.order) \in Nat /\ taker.order.side \in Sides
  BY <1>1, TakerFacts, OrderFields
<1>3. Has(books[s], id) /\ c = books[s].index[id]
  BY <1>1 DEF Filled
<1>4. id \in OrderIds /\ c \in Orders
  BY <1>2, <1>3, Maps, RestingOrder
<1>5. p \in Prices /\ p \in Nat /\ c.side \in Sides
  BY <1>1, <1>4, PriceAssumption DEF Orders
<1>6. /\ AreBooks(books') /\ SameOrders(books, books', s, id)
      /\ n \in Nat /\ n > 0 /\ n <= Remaining(taker.order) /\ n <= Remaining(c)
  BY <1>1, <1>2, Maps, FillOrder
<1>7. ASSUME NEW a PROVE LocksFilled(books, books', s, c, n, a)
  BY <1>1, <1>2, Maps, LocksFill
<1>8. OwnerKnown(c, s) /\ OwnerKnown(taker.order, s)
  BY <1>1, <1>2, <1>3 DEF LedgerInv, OwnersKnown, Has
<1> QED BY <1>2, <1>3, <1>4, <1>5, <1>6, <1>7, <1>8 DEF TradeSound

\* Both parties have what the trade takes from them, in reserve.
LEMMA TradeCovered ==
  ASSUME LedgerInv, NEW s, NEW id, NEW c, NEW p, NEW n, NEW buyer, NEW seller,
         Trade(s, id, c, p, n, buyer, seller), NEW x, x = p * n
  PROVE  /\ x \in Nat /\ x < Word
         /\ buyer \in DOMAIN accounts /\ seller \in DOMAIN accounts
         /\ accounts[buyer].available + x <= accounts[buyer].balance
         /\ <<seller, s>> \in DOMAIN holdings
         /\ holdings[<<seller, s>>].available + n <= holdings[<<seller, s>>].quantity
         /\ taker.order.side = Buy => p <= taker.order.price
<1>1. TradeSound(s, id, c, p, n, buyer, seller)
  BY TradeFacts
<1>2. /\ s \in Stocks /\ p \in Nat /\ p \in Prices /\ n \in Nat
      /\ n <= Remaining(taker.order) /\ taker.order.side \in Sides
  BY <1>1 DEF TradeSound
<1>3. x \in Nat
  BY <1>2, MulType
<1>4. buyer \in DOMAIN accounts /\ seller \in DOMAIN accounts /\ <<seller, s>> \in DOMAIN holdings
  BY <1>1 DEF TradeSound, Trade, OwnerKnown, Opposite, Buy, Sell, Sides
<1>5. ~Idle /\ taker.stock = s /\ c.price = p /\ c.side = Opposite(taker.order.side)
  BY DEF Trade
<1>6. ASSUME taker.order.side = Buy PROVE p <= taker.order.price
  <2>1. taker.type = Market \/ p <= taker.order.price
    BY <1>6 DEF Trade
  <2>2. taker.type = Market => taker.order.price = UpperLimit
    BY <1>5, <1>6 DEF LedgerInv, TakerSound
  <2> QED BY <1>2, <2>1, <2>2, PriceAssumption
<1>7. accounts[buyer].available + x <= accounts[buyer].balance
  <2>1. CASE taker.order.side = Buy
    <3>1. buyer = taker.order.account
      BY <2>1 DEF Trade
    <3>2. PICK y : y = taker.order.price * Remaining(taker.order)
      OBVIOUS
    <3>3. x <= y
      <4>1. taker.order.price \in Nat /\ Remaining(taker.order) \in Nat
        BY <1>5, TakerFacts
      <4> QED BY <1>2, <1>6, <2>1, <3>2, <4>1, MulMonotone
    <3>4. PICK z : z = taker.order.price * (taker.order.filled - taker.initial) - taker.cash
      OBVIOUS
    <3>5. TakerCash(buyer) = y + z /\ y \in Nat /\ z \in Nat
      BY <1>5, <2>1, <3>1, <3>2, <3>4, TakerCovers DEF TakerCash
    <3>6. /\ accounts[buyer].balance \in Nat /\ accounts[buyer].available \in Nat
          /\ Total(CashLock(books, buyer)) \in Nat
          /\ accounts[buyer].balance =
               accounts[buyer].available + Total(CashLock(books, buyer)) + TakerCash(buyer)
      BY <1>4, BalanceFacts
    <3> QED BY <1>3, <3>3, <3>5, <3>6, SMT
  <2>2. CASE taker.order.side = Sell
    <3>1. buyer = c.account /\ c.side = Buy
      BY <1>5, <2>2 DEF Trade, Opposite, Buy, Sell
    <3>2. FillCash(c, n, buyer) = x
      BY <1>5, <3>1 DEF FillCash
    <3>3. x <= Total(CashLock(books, buyer))
      BY <1>1, <3>2 DEF TradeSound, LocksFilled
    <3>4. /\ accounts[buyer].balance \in Nat /\ accounts[buyer].available \in Nat
          /\ Total(CashLock(books, buyer)) \in Nat /\ TakerCash(buyer) \in Nat
          /\ accounts[buyer].balance =
               accounts[buyer].available + Total(CashLock(books, buyer)) + TakerCash(buyer)
      BY <1>4, BalanceFacts
    <3> QED BY <1>3, <3>3, <3>4, SMT
  <2> QED BY <1>2, <2>1, <2>2 DEF Sides
<1>8. holdings[<<seller, s>>].available + n <= holdings[<<seller, s>>].quantity
  <2>1. PICK h : h = holdings[<<seller, s>>]
    OBVIOUS
  <2>2. /\ h.quantity \in Nat /\ h.available \in Nat
        /\ Total(ShareLock(books[s], seller)) \in Nat /\ TakerShares(seller, s) \in Nat
        /\ h.quantity = h.available + Total(ShareLock(books[s], seller)) + TakerShares(seller, s)
    BY <1>4, <2>1, HoldingFacts
  <2>3. CASE taker.order.side = Sell
    <3>1. seller = taker.order.account
      BY <2>3 DEF Trade, Buy, Sell
    <3>2. TakerShares(seller, s) = Remaining(taker.order)
      BY <1>5, <2>3, <3>1 DEF TakerShares
    <3>3. h.available + n <= h.quantity
      BY <1>2, <2>2, <3>2, SMT
    <3> QED BY <2>1, <3>3
  <2>4. CASE taker.order.side = Buy
    <3>1. seller = c.account /\ c.side = Sell
      BY <1>5, <2>4 DEF Trade, Opposite
    <3>2. FillShares(c, n, seller) = n
      BY <3>1 DEF FillShares
    <3>3. n <= Total(ShareLock(books[s], seller))
      BY <1>1, <3>2 DEF TradeSound, LocksFilled
    <3>4. h.available + n <= h.quantity
      BY <1>2, <2>2, <3>3, SMT
    <3> QED BY <2>1, <3>4
  <2> QED BY <1>2, <2>3, <2>4 DEF Sides
<1>9. x < Word
  <2>1. accounts[buyer].balance \in Nat /\ accounts[buyer].available \in Nat
        /\ accounts[buyer].balance <= supply.cash /\ supply.cash \in Nat /\ supply.cash < Word
    BY <1>4, BalanceFacts
  <2> QED BY <1>3, <1>7, <2>1, WordPositive, SMT
<1> QED BY <1>3, <1>4, <1>6, <1>7, <1>8, <1>9

\* The taker after a trade: n more filled, and x more paid if it buys.
TakerMoved(s, n, x) ==
  /\ taker' \in Takers /\ ~Idle' /\ taker'.stock = s /\ taker'.type = taker.type
  /\ taker'.initial = taker.initial
  /\ taker'.order.id = taker.order.id /\ taker'.order.account = taker.order.account
  /\ taker'.order.side = taker.order.side /\ taker'.order.price = taker.order.price
  /\ taker'.order.quantity = taker.order.quantity
  /\ taker'.order.filled = taker.order.filled + n
  /\ Remaining(taker'.order) = Remaining(taker.order) - n
  /\ taker.order.side = Buy =>
       /\ taker'.cash = taker.cash + x
       /\ taker'.cash <= taker'.order.price * (taker'.order.filled - taker'.initial)

\* A buyer within its limit keeps within it.
LEMMA PaidMore ==
  ASSUME NEW b \in Nat, NEW f \in Nat, NEW i \in Nat, NEW q \in Nat, NEW n \in Nat,
         NEW p \in Nat, NEW cash \in Nat, i <= f, f + n <= q, p <= b,
         cash <= b * (f - i), b * (q - i) < Word
  PROVE  cash + p * n <= b * (f + n - i) /\ cash + p * n \in 0..(Word - 1)
<1>1. f - i \in Nat /\ q - i \in Nat /\ f + n - i \in Nat /\ f + n - i <= q - i
      /\ f + n - i = (f - i) + n
  BY SMT
<1>2. PICK d \in Nat : d = f - i
  BY <1>1
<1>3. b * (d + n) = b * d + b * n
  BY <1>2, MulDistributes, SMT
<1>4. PICK g \in Nat, h \in Nat, k \in Nat, x \in Nat, m \in Nat :
        g = b * d /\ h = b * n /\ k = b * (q - i) /\ x = p * n /\ m = b * (f + n - i)
  BY <1>1, <1>2, MulType
<1>5. m = g + h
  BY <1>1, <1>2, <1>3, <1>4
<1>6. x <= h
  BY <1>4, MulMonotone, SMT
<1>7. m <= k
  BY <1>1, <1>4, MulMonotone, SMT
<1>8. cash <= g /\ k < Word
  BY <1>2, <1>4
<1>9. cash + x <= m /\ cash + x \in 0..(Word - 1)
  BY <1>5, <1>6, <1>7, <1>8, WordPositive, SMT
<1> QED BY <1>4, <1>9

\* What a buy order has paid stays below what it reserved, so the sum in the loop
\* (totalCash) does not wrap.
LEMMA TakerMoves ==
  ASSUME LedgerInv, NEW s, NEW id, NEW c, NEW p, NEW n, NEW buyer, NEW seller,
         Trade(s, id, c, p, n, buyer, seller), NEW x, x = p * n
  PROVE  TakerMoved(s, n, x)
<1>1. /\ ~Idle /\ s = taker.stock
      /\ taker' = [taker EXCEPT !.order.filled = @ + n, !.cash = UInt64(@ + UInt64(p * n)),
                                !.last = p]
  BY DEF Trade
<1>2. /\ x \in Nat /\ x < Word
      /\ taker.order.side = Buy => p <= taker.order.price
  BY TradeCovered
<1>3. p \in Prices /\ p \in Nat /\ n \in Nat /\ n <= Remaining(taker.order)
  <2>1. TradeSound(s, id, c, p, n, buyer, seller)
    BY TradeFacts
  <2> QED BY <2>1 DEF TradeSound
<1>4. /\ taker \in Takers /\ taker.order \in Orders /\ taker.stock \in Stocks
      /\ taker.initial \in Nat /\ taker.cash \in Nat
      /\ taker.order.price \in Nat /\ taker.order.quantity \in Nat /\ taker.order.filled \in Nat
      /\ taker.initial <= taker.order.filled /\ taker.order.filled <= taker.order.quantity
      /\ Remaining(taker.order) \in Nat
  BY <1>1, TakerFacts
<1>5. PICK w : w = UInt64(taker.cash + UInt64(p * n))
  OBVIOUS
<1>6. UInt64(p * n) = x /\ w = UInt64(taker.cash + x) /\ w \in 0..(Word - 1)
  <2>1. UInt64(x) = x
    BY <1>2, WordExact, WordPositive, SMT
  <2>2. w = UInt64(taker.cash + x) /\ UInt64(p * n) = x
    BY <1>5, <2>1
  <2>3. taker.cash + x \in Int
    BY <1>2, <1>4, SMT
  <2> QED BY <2>2, <2>3, WordRange
<1>7. taker' = [taker EXCEPT !.order.filled = @ + n, !.cash = w, !.last = p]
  BY <1>1, <1>5
<1>8. PICK u : u = [taker.order EXCEPT !.filled = @ + n]
  OBVIOUS
<1>9. /\ u \in Orders /\ u.id = taker.order.id /\ u.account = taker.order.account
      /\ u.side = taker.order.side /\ u.price = taker.order.price
      /\ u.quantity = taker.order.quantity /\ u.filled = taker.order.filled + n
  BY <1>3, <1>4, <1>8, SMT DEF Orders
<1>10. taker' = [taker EXCEPT !.order = u, !.cash = w, !.last = p]
  BY <1>4, <1>7, <1>8 DEF Takers
<1>11. /\ taker' \in Takers /\ taker'.order = u /\ taker'.cash = w /\ taker'.stock = s
       /\ taker'.type = taker.type /\ taker'.initial = taker.initial
       /\ taker'.phase = "matching"
  BY <1>1, <1>3, <1>4, <1>6, <1>9, <1>10 DEF Takers
<1>12. ~Idle'
  BY <1>11, SMT DEF Idle, NoTaker
<1>13. Remaining(u) = Remaining(taker.order) - n
  BY <1>3, <1>4, <1>9, SMT DEF Remaining
<1>14. ASSUME taker.order.side = Buy
       PROVE  w = taker.cash + x /\ w <= u.price * (u.filled - taker.initial)
  <2>1. PICK b, f, i, q : /\ b = taker.order.price /\ f = taker.order.filled
                          /\ i = taker.initial /\ q = taker.order.quantity
    OBVIOUS
  <2>2. b \in Nat /\ f \in Nat /\ i \in Nat /\ q \in Nat /\ i <= f
    BY <1>4, <2>1
  <2>3. Remaining(taker.order) = q - f
    BY <2>1 DEF Remaining
  <2>4. p <= b /\ f + n <= q
    BY <1>2, <1>3, <1>14, <2>1, <2>2, <2>3, SMT
  <2>5. taker.cash <= b * (f - i) /\ b * (q - i) < Word
    BY <1>1, <1>14, <2>1 DEF LedgerInv, PaidWithinLimit, TakerSound
  <2>6. taker.cash + x <= b * (f + n - i) /\ taker.cash + x \in 0..(Word - 1)
    BY <1>3, <1>4, <2>2, <2>4, <2>5, PaidMore
  <2>7. w = taker.cash + x
    BY <1>6, <2>6, WordExact
  <2>8. u.price = b /\ u.filled = f + n
    BY <1>9, <2>1
  <2>9. u.price * (u.filled - taker.initial) = b * (f + n - i)
    BY <1>3, <2>1, <2>2, <2>8, SMT
  <2> QED BY <2>6, <2>7, <2>9
<1> QED BY <1>9, <1>11, <1>12, <1>13, <1>14 DEF TakerMoved

\* What a trade takes off the reservations is what it moves.
LEMMA ReservesMove ==
  ASSUME LedgerInv, NEW s, NEW id, NEW c, NEW p, NEW n, NEW buyer, NEW seller,
         Trade(s, id, c, p, n, buyer, seller), NEW x, x = p * n, NEW a
  PROVE  /\ Total(CashLock(books', a)) + TakerCash(a)' =
              Total(CashLock(books, a)) + TakerCash(a) - At(a, buyer, x)
         /\ Total(ShareLock(books'[s], a)) + TakerShares(a, s)' =
              Total(ShareLock(books[s], a)) + TakerShares(a, s) - At(a, seller, n)
         /\ \A y \in Stocks \ {s} :
              /\ Total(ShareLock(books'[y], a)) = Total(ShareLock(books[y], a))
              /\ TakerShares(a, y)' = TakerShares(a, y)
<1>1. /\ ~Idle /\ s = taker.stock /\ c.side = Opposite(taker.order.side) /\ c.price = p
  BY DEF Trade
<1>2. TakerMoved(s, n, x)
  BY TakerMoves
<1>3. TradeSound(s, id, c, p, n, buyer, seller)
  BY TradeFacts
<1>4. LocksFilled(books, books', s, c, n, a) /\ n \in Nat /\ taker.order.side \in Sides
      /\ s \in Stocks
  BY <1>3 DEF TradeSound
<1>5. x \in Nat
  BY TradeCovered
<1>6. PICK lc, ls, tc, ts : /\ lc = Total(CashLock(books, a)) /\ ls = Total(ShareLock(books[s], a))
                            /\ tc = TakerCash(a) /\ ts = TakerShares(a, s)
  OBVIOUS
<1>7. lc \in Nat /\ ls \in Nat /\ tc \in Nat /\ ts \in Nat
  <2>1. lc \in Nat
    BY <1>6, Maps, LocksType
  <2>2. ls \in Nat
    BY <1>4, <1>6, Maps, ShareLockType
  <2> QED BY <1>6, <2>1, <2>2, TakerReserves
<1>8. ~Idle' /\ taker'.stock = s
  BY <1>2 DEF TakerMoved
<1>9. CASE taker.order.side = Buy
  <2>1. c.side = Sell /\ c.side # Buy /\ buyer = taker.order.account /\ seller = c.account
    BY <1>1, <1>9 DEF Trade, Opposite, Buy, Sell
  <2>2. FillCash(c, n, a) = 0 /\ FillShares(c, n, a) = At(a, seller, n)
    BY <2>1 DEF FillCash, FillShares, At
  <2>3. TakerCash(a)' = TakerCash(a) - At(a, buyer, x)
    <3>1. PICK z : z = taker.order.price * (taker.order.quantity - taker.initial)
      OBVIOUS
    <3>2. TakerCash(a) = IF buyer = a THEN z - taker.cash ELSE 0
      BY <1>1, <1>9, <2>1, <3>1 DEF TakerCash
    <3>3. TakerCash(a)' = IF buyer = a THEN z - taker'.cash ELSE 0
      BY <1>2, <1>9, <2>1, <3>1 DEF TakerMoved, TakerCash
    <3>4. taker'.cash = taker.cash + x
      BY <1>2, <1>9 DEF TakerMoved
    <3>5. taker.cash \in Nat /\ z \in Int
      <4>1. /\ taker.cash \in Nat /\ taker.order.price \in Nat
            /\ taker.order.quantity \in Nat /\ taker.initial \in Nat
        BY <1>1, TakerFacts
      <4> QED BY <3>1, <4>1, SMT
    <3> QED BY <1>5, <3>2, <3>3, <3>4, <3>5, SMT DEF At
  <2>4. \A y : TakerShares(a, y) = 0 /\ TakerShares(a, y)' = 0
    BY <1>2, <1>9 DEF TakerShares, TakerMoved, Buy, Sell
  <2>5. /\ Total(CashLock(books', a)) = lc - 0
        /\ Total(ShareLock(books'[s], a)) = ls - At(a, seller, n)
        /\ \A y \in Stocks \ {s} : Total(ShareLock(books'[y], a)) = Total(ShareLock(books[y], a))
    BY <1>4, <1>6, <2>2 DEF LocksFilled
  <2>6. At(a, buyer, x) \in Nat /\ At(a, seller, n) \in Nat
    BY <1>4, <1>5 DEF At
  <2> QED BY <1>6, <1>7, <2>3, <2>4, <2>5, <2>6, SMT
<1>10. CASE taker.order.side = Sell
  <2>1. c.side = Buy /\ c.side # Sell /\ buyer = c.account /\ seller = taker.order.account
    BY <1>1, <1>10 DEF Trade, Opposite, Buy, Sell
  <2>2. FillShares(c, n, a) = 0 /\ FillCash(c, n, a) = At(a, buyer, x)
    BY <1>1, <2>1 DEF FillCash, FillShares, At
  <2>3. TakerCash(a) = 0 /\ TakerCash(a)' = 0
    BY <1>2, <1>10 DEF TakerCash, TakerMoved, Buy, Sell
  <2>4. /\ TakerShares(a, s)' = TakerShares(a, s) - At(a, seller, n)
        /\ \A y \in Stocks \ {s} : TakerShares(a, y)' = TakerShares(a, y)
    <3>1. TakerShares(a, s) = IF seller = a THEN Remaining(taker.order) ELSE 0
      BY <1>1, <1>10, <2>1 DEF TakerShares
    <3>2. TakerShares(a, s)' = IF seller = a THEN Remaining(taker.order) - n ELSE 0
      BY <1>2, <1>10, <2>1 DEF TakerMoved, TakerShares
    <3>3. \A y \in Stocks \ {s} : TakerShares(a, y) = 0 /\ TakerShares(a, y)' = 0
      BY <1>1, <1>8 DEF TakerShares
    <3> QED BY <1>4, <3>1, <3>2, <3>3, SMT DEF At
  <2>5. /\ Total(CashLock(books', a)) = lc - At(a, buyer, x)
        /\ Total(ShareLock(books'[s], a)) = ls - 0
        /\ \A y \in Stocks \ {s} : Total(ShareLock(books'[y], a)) = Total(ShareLock(books[y], a))
    BY <1>4, <1>6, <2>2 DEF LocksFilled
  <2>6. At(a, buyer, x) \in Nat /\ At(a, seller, n) \in Nat
    BY <1>4, <1>5 DEF At
  <2> QED BY <1>6, <1>7, <2>3, <2>4, <2>5, <2>6, SMT
<1> QED BY <1>4, <1>9, <1>10 DEF Sides

\* A turn of the loop keeps the invariant.
LEMMA MatchStepKeeps ==
  ASSUME LedgerInv, MatchStep
  PROVE  LedgerInv'
<1>1. PICK s, id, c, p, n, buyer, seller : Trade(s, id, c, p, n, buyer, seller)
  BY MatchStepTrades
<1>2. PICK x : x = p * n
  OBVIOUS
<1>3. TradeSound(s, id, c, p, n, buyer, seller)
  BY <1>1, TradeFacts
<1>4. /\ s \in Stocks /\ n \in Nat /\ n <= Remaining(taker.order) /\ AreBooks(books')
  BY <1>3 DEF TradeSound
<1>5. /\ x \in Nat /\ x < Word /\ buyer \in DOMAIN accounts /\ seller \in DOMAIN accounts
      /\ accounts[buyer].available + x <= accounts[buyer].balance
      /\ <<seller, s>> \in DOMAIN holdings
      /\ holdings[<<seller, s>>].available + n <= holdings[<<seller, s>>].quantity
  BY <1>1, <1>2, TradeCovered
<1>6. TakerMoved(s, n, x)
  BY <1>1, <1>2, TakerMoves
<1>7. /\ ~Idle /\ s = taker.stock /\ stocks' = stocks /\ supply' = supply
  BY <1>1 DEF Trade
<1>8. CashSettled(accounts, accounts', buyer, seller, x)
  <2>1. UInt64(p * n) = x
    BY <1>2, <1>5, WordExact, WordPositive, SMT
  <2>2. accounts' = AddCash(AddCash(accounts, buyer, -x, 0), seller, x, x)
    BY <1>1, <2>1 DEF Trade, SettleCash
  <2>3. accounts[seller].available <= accounts[seller].balance /\ Total(Cash(accounts)) < Word
    BY <1>5, BalanceFacts
  <2> QED BY <1>5, <2>2, <2>3, Maps, CashSettles
<1>9. SharesSettled(holdings, holdings', buyer, seller, s, n)
  <2>1. holdings' = AddShares(ReceiveShares(holdings, <<buyer, s>>, n), <<seller, s>>, -n, 0)
    BY <1>1 DEF Trade, SettleShares
  <2>2. Total(SharesOf(holdings, s)) < Word
    BY <1>5, HoldingFacts
  <2>3. <<buyer, s>> \in DOMAIN holdings =>
          holdings[<<buyer, s>>].available <= holdings[<<buyer, s>>].quantity
    BY HoldingFacts
  <2>4. buyer \in Accounts
    BY <1>5, Maps DEF AreAccounts, IsMap
  <2> QED BY <1>4, <1>5, <2>1, <2>2, <2>3, <2>4, Maps, SharesSettle
<1>10. /\ AreAccounts(accounts') /\ DOMAIN accounts' = DOMAIN accounts
       /\ AreHoldings(holdings') /\ DOMAIN holdings' = DOMAIN holdings \cup {<<buyer, s>>}
  BY <1>8, <1>9 DEF CashSettled, SharesSettled
<1>11. TypeOK' /\ BooksConsistent'
  <2>1. taker' \in Takers
    BY <1>6 DEF TakerMoved
  <2> QED BY <1>4, <1>7, <1>10, <2>1
    DEF LedgerInv, TypeOK, BooksConsistent, AreAccounts, AreHoldings, AreBooks
<1>12. OwnersKnown'
  <2>1. \A k \in DOMAIN holdings' : k[1] \in DOMAIN accounts'
    BY <1>5, <1>10, SMT DEF LedgerInv, OwnersKnown
  <2>2. ASSUME NEW y \in Stocks, NEW z \in DOMAIN books'[y].index
        PROVE  OwnerKnown(books[y].index[z], y)'
    <3>1. PICK u : u = books'[y].index[z]
      OBVIOUS
    <3>2. OwnerKnown(u, y)
      <4>1. CASE y = s /\ z = id
        <5>1. u.account = c.account /\ u.side = c.side
          <6>1. Has(books'[s], id)
            BY <4>1 DEF Has
          <6>2. Remaining(c) # n /\ u = [c EXCEPT !.filled = @ + n]
            <7>1. Filled(books, books', s, id, Remaining(taker.order), c, n)
              BY <1>1 DEF Trade
            <7>2. Remaining(taker.order) \in Nat /\ Remaining(taker.order) > 0
              BY <1>1, <1>7, TakerFacts DEF Trade
            <7>3. /\ Remaining(c) = n => ~Has(books'[s], id)
                  /\ Remaining(c) # n => books'[s].index[id] = [c EXCEPT !.filled = @ + n]
              BY <1>4, <7>1, <7>2, Maps, FillOrder, SMT
            <7> QED BY <3>1, <4>1, <6>1, <7>3
          <6>3. c \in Orders
            BY <1>3 DEF TradeSound
          <6> QED BY <6>2, <6>3 DEF Orders
        <5>2. OwnerKnown(c, s)
          BY <1>3 DEF TradeSound
        <5> QED BY <4>1, <5>1, <5>2 DEF OwnerKnown
      <4>2. CASE ~(y = s /\ z = id)
        <5>1. z \in OrderIds
          BY <1>4 DEF AreBooks, IsBook, IsMap
        <5>2. Has(books[y], z) /\ u = books[y].index[z]
          BY <1>3, <3>1, <4>2, <5>1 DEF TradeSound, SameOrders, Has
        <5> QED BY <5>2 DEF LedgerInv, OwnersKnown, Has
      <4> QED BY <4>1, <4>2
    <3> QED BY <1>10, <3>1, <3>2 DEF OwnerKnown
  <2>3. OwnerKnown(taker.order, taker.stock)'
    <3>1. OwnerKnown(taker.order, s)
      BY <1>3 DEF TradeSound
    <3> QED BY <1>6, <1>10, <3>1 DEF OwnerKnown, TakerMoved
  <2> QED BY <2>1, <2>2, <2>3 DEF OwnersKnown
<1>13. TakerSound'
  <2>1. ~Has(books'[s], taker'.order.id)
    <3>1. ~Has(books[s], taker.order.id) /\ taker.order.id \in OrderIds
      BY <1>7, TakerFacts, OrderFields DEF LedgerInv, TakerSound
    <3>2. taker'.order.id = taker.order.id
      BY <1>6 DEF TakerMoved
    <3> QED BY <1>3, <3>1, <3>2 DEF TradeSound, SameOrders
  <2>2. taker'.initial <= taker'.order.filled /\ taker'.order.filled <= taker'.order.quantity
    <3>1. /\ taker.initial \in Nat /\ taker.order.filled \in Nat /\ taker.order.quantity \in Nat
          /\ taker.initial <= taker.order.filled
      BY <1>7, TakerFacts
    <3>2. n <= taker.order.quantity - taker.order.filled
      BY <1>4 DEF Remaining
    <3>3. /\ taker'.initial = taker.initial /\ taker'.order.filled = taker.order.filled + n
          /\ taker'.order.quantity = taker.order.quantity
      BY <1>6 DEF TakerMoved
    <3> QED BY <1>4, <3>1, <3>2, <3>3, SMT
  <2>3. taker'.order.side = Buy =>
          /\ taker'.order.price * (taker'.order.quantity - taker'.initial) < Word
          /\ taker'.type = Market => taker'.order.price = UpperLimit
    BY <1>6, <1>7 DEF TakerMoved, LedgerInv, TakerSound
  <2>4. taker'.stock = s
    BY <1>6 DEF TakerMoved
  <2> QED BY <2>1, <2>2, <2>3, <2>4 DEF TakerSound
<1>14. PaidWithinLimit'
  BY <1>6 DEF TakerMoved, PaidWithinLimit
<1>15. CashReserved'
  <2> SUFFICES ASSUME NEW a \in DOMAIN accounts'
               PROVE  accounts'[a].balance =
                        accounts'[a].available + Total(CashLock(books', a)) + TakerCash(a)'
    BY DEF CashReserved
  <2>1. a \in DOMAIN accounts
    BY <1>10
  <2>2. /\ accounts'[a].balance = accounts[a].balance - At(a, buyer, x) + At(a, seller, x)
        /\ accounts'[a].available = accounts[a].available + At(a, seller, x)
    BY <1>8, <2>1 DEF CashSettled
  <2>3. Total(CashLock(books', a)) + TakerCash(a)' =
          Total(CashLock(books, a)) + TakerCash(a) - At(a, buyer, x)
    BY <1>1, <1>2, ReservesMove, SMT
  <2>4. /\ accounts[a].available \in Nat /\ Total(CashLock(books, a)) \in Nat
        /\ TakerCash(a) \in Nat
        /\ accounts[a].balance = accounts[a].available + Total(CashLock(books, a)) + TakerCash(a)
    BY <2>1, BalanceFacts
  <2>5. At(a, buyer, x) \in Nat /\ At(a, seller, x) \in Nat
    BY <1>5 DEF At
  <2>6. Total(CashLock(books', a)) \in Nat
    BY <1>4, LocksType
  <2>7. TakerCash(a)' \in Int
    <3>1. /\ taker'.order.price \in Nat /\ taker'.order.quantity \in Nat
          /\ taker'.initial \in Nat /\ taker'.cash \in Nat
      BY <1>6, OrderFields, WordPositive, SMT DEF TakerMoved, Takers
    <3> QED BY <3>1, SMT DEF TakerCash
  <2> QED BY <2>2, <2>3, <2>4, <2>5, <2>6, <2>7, SMT
<1>16. SharesReserved'
  <2> SUFFICES ASSUME NEW k \in DOMAIN holdings'
               PROVE  holdings'[k].quantity = holdings'[k].available
                        + Total(ShareLock(books'[k[2]], k[1])) + TakerShares(k[1], k[2])'
    BY DEF SharesReserved
  <2>1. PICK a \in Accounts, y \in Stocks : k = <<a, y>> /\ k[1] = a /\ k[2] = y
    BY <1>10, SMT DEF AreHoldings, IsMap
  <2>2. PICK h : h = Holding(holdings, k)
    OBVIOUS
  <2>3. /\ holdings'[k].quantity = h.quantity + At(k, <<buyer, s>>, n) - At(k, <<seller, s>>, n)
        /\ holdings'[k].available = h.available + At(k, <<buyer, s>>, n)
    BY <1>9, <2>2 DEF SharesSettled
  <2>4. PICK l, t : l = Total(ShareLock(books[y], a)) /\ t = TakerShares(a, y)
    OBVIOUS
  <2>5. h.available \in Nat /\ l \in Nat /\ t \in Nat /\ h.quantity = h.available + l + t
    <3>1. CASE k \in DOMAIN holdings
      BY <2>1, <2>2, <2>4, <3>1, HoldingFacts DEF Holding
    <3>2. CASE k \notin DOMAIN holdings
      <4>1. h.available = 0 /\ h.quantity = 0
        BY <2>2, <3>2 DEF Holding, NoShares
      <4>2. l = 0 /\ t = 0
        BY <2>1, <2>4, <3>2, NoShareLock
      <4> QED BY <4>1, <4>2, SMT
    <3> QED BY <3>1, <3>2
  <2>6. PICK lp, tp : lp = Total(ShareLock(books'[y], a)) /\ tp = TakerShares(a, y)'
    OBVIOUS
  <2>7. lp \in Nat /\ tp \in Int
    <3>1. lp \in Nat
      BY <1>4, <2>1, <2>6, ShareLockType
    <3>2. Remaining(taker'.order) \in Int
      BY <1>6, OrderFields, SMT DEF TakerMoved, Takers, Remaining
    <3> QED BY <2>6, <3>1, <3>2, SMT DEF TakerShares
  <2>8. lp + tp = l + t - At(k, <<seller, s>>, n)
    <3>1. CASE y = s
      <4>1. lp + tp = l + t - At(a, seller, n)
        BY <1>1, <1>2, <2>4, <2>6, <3>1, ReservesMove, SMT
      <4>2. At(k, <<seller, s>>, n) = At(a, seller, n)
        BY <2>1, <3>1 DEF At
      <4> QED BY <4>1, <4>2
    <3>2. CASE y # s
      <4>1. lp = l /\ tp = t
        <5>1. \A z \in Stocks \ {s} :
                /\ Total(ShareLock(books'[z], a)) = Total(ShareLock(books[z], a))
                /\ TakerShares(a, z)' = TakerShares(a, z)
          BY <1>1, <1>2, ReservesMove
        <5>2. y \in Stocks \ {s}
          BY <2>1, <3>2
        <5>3. /\ Total(ShareLock(books'[y], a)) = Total(ShareLock(books[y], a))
              /\ TakerShares(a, y)' = TakerShares(a, y)
          BY <5>1, <5>2
        <5> QED BY <2>4, <2>6, <5>3
      <4>2. At(k, <<seller, s>>, n) = 0
        BY <2>1, <3>2 DEF At
      <4> QED BY <2>5, <4>1, <4>2, SMT
    <3> QED BY <3>1, <3>2
  <2>9. At(k, <<buyer, s>>, n) \in Nat /\ At(k, <<seller, s>>, n) \in Nat
    BY <1>4 DEF At
  <2>10. holdings'[k].quantity = holdings'[k].available + lp + tp
    <3>1. PICK u, v : u = At(k, <<buyer, s>>, n) /\ v = At(k, <<seller, s>>, n)
      OBVIOUS
    <3>2. u \in Nat /\ v \in Nat /\ lp + tp = l + t - v
      BY <2>8, <2>9, <3>1
    <3>3. PICK i, j : i = h.available /\ j = h.quantity
      OBVIOUS
    <3>4. i \in Nat /\ l \in Nat /\ t \in Nat /\ j = i + l + t
      BY <2>5, <3>3
    <3>5. j + u - v = (i + u) + lp + tp
      BY <2>7, <3>2, <3>4, SMT
    <3>6. holdings'[k].quantity = j + u - v /\ holdings'[k].available = i + u
      BY <2>3, <3>1, <3>3
    <3> QED BY <3>5, <3>6
  <2> QED BY <2>1, <2>6, <2>10
<1>17. Conserved'
  BY <1>7, <1>8, <1>9 DEF LedgerInv, Conserved, CashSettled, SharesSettled
<1> QED BY <1>11, <1>12, <1>13, <1>14, <1>15, <1>16, <1>17 DEF LedgerInv
=============================================================================
