--------------------------- MODULE Matching_proofs --------------------------
(***************************************************************************)
(* The handlers of orders keep LedgerInv, and so does the start of a match *)
(* and its end: what is left of the taker rests in the book or is given    *)
(* back, and the refund of a buy is exact.  The match loop stops at a      *)
(* price that does not agree.                                              *)
(***************************************************************************)
EXTENDS Exchange, Ledger_proofs

\* Zenon proves every leaf that names no other prover; SMT is named for the rest.
USE ZenonT(30)

\* t is order id of stock s: it has something left to fill and its owner is known.
TargetSound(t, s, id) ==
  /\ id \in OrderIds /\ t \in Orders /\ t.id = id
  /\ Remaining(t) \in Nat /\ Remaining(t) > 0 /\ t.price \in Nat
  /\ t.side \in Sides /\ t.account \in Accounts /\ t.price * Remaining(t) \in Nat
  /\ Owned(t, s, accounts, holdings)

\* The order an edit or a cancel names (validateTargetRequest found it) is sound and
\* its owner is known.
LEMMA TargetFacts ==
  ASSUME LedgerInv, NEW s \in Stocks, NEW id, Has(books[s], id),
         NEW t, t = books[s].index[id]
  PROVE  TargetSound(t, s, id)
<1>1. /\ id \in OrderIds /\ t \in Orders /\ t.id = id
      /\ Remaining(t) \in Nat /\ Remaining(t) > 0
  BY Maps, RestingOrder, SMT
<1>2. t.price \in Nat /\ t.side \in Sides /\ t.account \in Accounts
  BY <1>1, PriceAssumption DEF Orders
<1>3. OwnerKnown(t, s)
  BY DEF LedgerInv, OwnersKnown, Has
<1>4. Owned(t, s, accounts, holdings)
  BY <1>3 DEF OwnerKnown, Owned
<1>5. t.price * Remaining(t) \in Nat
  BY <1>1, <1>2, MulType
<1> QED BY <1>1, <1>2, <1>4, <1>5 DEF TargetSound

\* t is the order taken out, and A, H and B the ledger removeAndRelease leaves.
Released(s, id, t, A, H, B) ==
  /\ TakenOut(books, B, s, id, t)
  /\ A = IF t.side = Buy THEN AddCash(accounts, t.account, 0, t.price * Remaining(t)) ELSE accounts
  /\ H = IF t.side = Sell THEN AddShares(holdings, <<t.account, s>>, 0, Remaining(t)) ELSE holdings

ReleasedSound(s, id, t, A, H, B) ==
  /\ LedgerSound(A, H, B, supply)
  /\ ~Has(B[s], id) /\ SameOrders(books, B, s, id)
  /\ DOMAIN A = DOMAIN accounts /\ DOMAIN H = DOMAIN holdings
  /\ t.side = Buy => A[t.account].available =
                       accounts[t.account].available + t.price * Remaining(t)
  /\ t.side = Sell => H[<<t.account, s>>].available =
                        holdings[<<t.account, s>>].available + Remaining(t)

\* An order taken out gives back exactly what it had reserved (removeAndRelease).
LEMMA ReleaseSound ==
  ASSUME LedgerInv, Idle, NEW s \in Stocks, NEW id, NEW t, NEW A, NEW H, NEW B,
         Released(s, id, t, A, H, B)
  PROVE  ReleasedSound(s, id, t, A, H, B)
<1>1. /\ id \in OrderIds /\ t \in Orders /\ Remaining(t) \in Nat /\ t.price \in Nat
      /\ t.price * Remaining(t) \in Nat /\ Owned(t, s, accounts, holdings)
  BY TargetFacts DEF TargetSound, Released, TakenOut
<1>2. AreBooks(B) /\ SameOrders(books, B, s, id) /\ ~Has(B[s], id)
  BY Maps, CancelOrder DEF Released
<1>3. LedgerSound(accounts, holdings, books, supply)
  BY IdleSound
<1>4. ASSUME NEW a
      PROVE  /\ OrderCash(t, a) \in Nat /\ OrderCash(t, a) <= Total(CashLock(books, a))
             /\ Total(CashLock(books, a)) \in Nat
             /\ Total(CashLock(B, a)) = Total(CashLock(books, a)) - OrderCash(t, a)
  <2>1. TakenOut(books, B, s, id, t)
    BY DEF Released
  <2> QED BY <2>1, Maps, LocksType, CancelledLocks, SMT
<1>5. ASSUME NEW a
      PROVE  /\ OrderShares(t, a) \in Nat /\ OrderShares(t, a) <= Total(ShareLock(books[s], a))
             /\ Total(ShareLock(books[s], a)) \in Nat
             /\ Total(ShareLock(B[s], a)) = Total(ShareLock(books[s], a)) - OrderShares(t, a)
             /\ \A x \in Stocks \ {s} : Total(ShareLock(B[x], a)) = Total(ShareLock(books[x], a))
  <2>1. TakenOut(books, B, s, id, t)
    BY DEF Released
  <2> QED BY <2>1, Maps, LocksType, CancelledLocks, SMT
<1>6. /\ AreAccounts(A) /\ DOMAIN A = DOMAIN accounts
      /\ Total(Cash(A)) = Total(Cash(accounts))
      /\ \A a \in DOMAIN accounts :
           /\ A[a].balance = accounts[a].balance
           /\ A[a].available = accounts[a].available
                + IF t.side = Buy /\ t.account = a THEN t.price * Remaining(t) ELSE 0
  <2>1. ASSUME t.side = Buy
        PROVE  /\ t.account \in DOMAIN accounts
               /\ accounts[t.account].available + t.price * Remaining(t) \in 0..(Word - 1)
    <3>1. t.account \in DOMAIN accounts /\ OrderCash(t, t.account) = t.price * Remaining(t)
      BY <1>1, <2>1 DEF Owned, OrderCash
    <3>2. /\ accounts[t.account].balance \in Nat /\ accounts[t.account].available \in Nat
          /\ accounts[t.account].balance < Word
          /\ accounts[t.account].balance =
               accounts[t.account].available + Total(CashLock(books, t.account))
      BY <3>1, BalanceFacts, IdleBalances, WordPositive, SMT
    <3> QED BY <1>1, <1>4, <3>1, <3>2, WordPositive, SMT
  <2>2. CashShift(accounts, A, t.side, t.account, t.price * Remaining(t))
    BY <2>1 DEF Released, CashShift
  <2>3. CashAfter(accounts, A, t.side, t.account, t.price * Remaining(t))
    BY <1>1, <2>2, Maps, CashShifted, SMT
  <2> QED BY <2>3 DEF CashAfter
<1>7. /\ AreHoldings(H) /\ DOMAIN H = DOMAIN holdings
      /\ \A x \in Stocks : Total(SharesOf(H, x)) = Total(SharesOf(holdings, x))
      /\ \A k \in DOMAIN holdings :
           /\ H[k].quantity = holdings[k].quantity
           /\ H[k].available = holdings[k].available
                + IF t.side = Sell /\ t.account = k[1] /\ s = k[2] THEN Remaining(t) ELSE 0
  <2>1. ASSUME t.side = Sell
        PROVE  /\ <<t.account, s>> \in DOMAIN holdings
               /\ holdings[<<t.account, s>>].available + Remaining(t) \in 0..(Word - 1)
    <3>1. <<t.account, s>> \in DOMAIN holdings /\ OrderShares(t, t.account) = Remaining(t)
      BY <1>1, <2>1 DEF Owned, OrderShares
    <3>2. PICK h : h = holdings[<<t.account, s>>]
      OBVIOUS
    <3>3. /\ h.quantity \in Nat /\ h.available \in Nat /\ h.quantity < Word
          /\ h.quantity = h.available + Total(ShareLock(books[s], t.account))
      BY <3>1, <3>2, HoldingFacts, IdleBalances, WordPositive, SMT
    <3>4. h.available + Remaining(t) \in 0..(Word - 1)
      BY <1>1, <1>5, <3>1, <3>3, WordPositive, SMT
    <3> QED BY <3>1, <3>2, <3>4
  <2>2. SharesShift(holdings, H, t.side, t.account, s, Remaining(t))
    BY <2>1 DEF Released, SharesShift
  <2>3. SharesAfter(holdings, H, t.side, t.account, s, Remaining(t))
    BY <1>1, <2>2, Maps, SharesShifted, SMT
  <2> QED BY <2>3 DEF SharesAfter
<1>8. \A a \in DOMAIN A : A[a].balance = A[a].available + Total(CashLock(B, a))
  <2> SUFFICES ASSUME NEW a \in DOMAIN A
               PROVE  A[a].balance = A[a].available + Total(CashLock(B, a))
    OBVIOUS
  <2>1. /\ accounts[a].balance = accounts[a].available + Total(CashLock(books, a))
        /\ accounts[a].available \in Nat
    BY <1>6, IdleBalances, BalanceFacts
  <2>2. /\ A[a].balance = accounts[a].balance
        /\ A[a].available = accounts[a].available + OrderCash(t, a)
    BY <1>6 DEF OrderCash
  <2> QED BY <1>4, <2>1, <2>2, SMT
<1>9. \A k \in DOMAIN H : H[k].quantity = H[k].available + Total(ShareLock(B[k[2]], k[1]))
  <2> SUFFICES ASSUME NEW k \in DOMAIN H
               PROVE  H[k].quantity = H[k].available + Total(ShareLock(B[k[2]], k[1]))
    OBVIOUS
  <2>1. /\ holdings[k].quantity = holdings[k].available + Total(ShareLock(books[k[2]], k[1]))
        /\ holdings[k].available \in Nat /\ k[2] \in Stocks
    <3>1. k \in DOMAIN holdings
      BY <1>7
    <3>2. holdings[k].available \in Nat /\ k[2] \in Stocks
      BY <3>1, Maps, WordPositive, SMT DEF AreHoldings, IsMap, Shares
    <3> QED BY <3>1, <3>2, IdleBalances
  <2>2. /\ H[k].quantity = holdings[k].quantity
        /\ H[k].available = holdings[k].available + IF k[2] = s THEN OrderShares(t, k[1]) ELSE 0
    BY <1>7 DEF OrderShares
  <2>3. CASE k[2] = s
    BY <1>5, <2>1, <2>2, <2>3, SMT
  <2>4. CASE k[2] # s
    BY <1>5, <2>1, <2>2, <2>4, SMT
  <2> QED BY <2>3, <2>4
<1>10. \A x \in Stocks : \A y \in DOMAIN B[x].index : Owned(B[x].index[y], x, A, H)
  <2> SUFFICES ASSUME NEW x \in Stocks, NEW y \in DOMAIN B[x].index
               PROVE  Owned(B[x].index[y], x, A, H)
    OBVIOUS
  <2>1. y \in OrderIds /\ ~(x = s /\ y = id)
    BY <1>2 DEF AreBooks, IsBook, IsMap, Has
  <2>2. y \in DOMAIN books[x].index /\ B[x].index[y] = books[x].index[y]
    BY <1>2, <2>1 DEF SameOrders, Has
  <2>3. Owned(books[x].index[y], x, accounts, holdings)
    BY <1>3, <2>2 DEF LedgerSound
  <2> QED BY <1>6, <1>7, <2>2, <2>3 DEF Owned
<1>11. LedgerSound(A, H, B, supply)
  <2>1. /\ Total(Cash(A)) = supply.cash
        /\ \A x \in Stocks : Total(SharesOf(H, x)) = supply.shares[x]
        /\ \A k \in DOMAIN H : k[1] \in DOMAIN A
    BY <1>3, <1>6, <1>7 DEF LedgerSound
  <2> QED BY <1>2, <1>6, <1>7, <1>8, <1>9, <1>10, <2>1 DEF LedgerSound
<1>12. t.side = Buy =>
         A[t.account].available = accounts[t.account].available + t.price * Remaining(t)
  BY <1>1, <1>6 DEF Owned
<1>13. t.side = Sell =>
         H[<<t.account, s>>].available = holdings[<<t.account, s>>].available + Remaining(t)
  BY <1>1, <1>7 DEF Owned
<1> QED BY <1>2, <1>6, <1>7, <1>11, <1>12, <1>13 DEF ReleasedSound

-----------------------------------------------------------------------------
(* The start of a match.                                                    *)

\* The owner of o has what o reserves, and it fits in a word.
Affordable(o, s, type, A, H) ==
  /\ Owned(o, s, A, H)
  /\ o.side = Buy => /\ A[o.account].available >= o.price * Remaining(o)
                     /\ o.price * Remaining(o) < Word
                     /\ type = Market => o.price = UpperLimit
  /\ o.side = Sell => H[<<o.account, s>>].available >= Remaining(o)

\* What BeginMatch does to the ledger.
Begun(o, s, type, A, H, B) ==
  /\ accounts' = LockCash(A, o, Remaining(o))
  /\ holdings' = LockShares(H, o, s, Remaining(o))
  /\ books' = B
  /\ taker' = [phase |-> "matching", order |-> o, stock |-> s, type |-> type,
               initial |-> o.filled, cash |-> 0, last |-> 0]
  /\ stocks' = stocks /\ supply' = supply

\* BeginMatch reserves what is left of an order its owner can afford.
LEMMA BeginMatchKeeps ==
  ASSUME LedgerInv, NEW o \in Orders, NEW s \in Stocks, NEW type \in {Limit, Market},
         NEW A, NEW H, NEW B, LedgerSound(A, H, B, supply), ~Has(B[s], o.id),
         o.filled <= o.quantity, Affordable(o, s, type, A, H), Begun(o, s, type, A, H, B)
  PROVE  LedgerInv'
<1>1. /\ o.price \in Nat /\ o.quantity \in Nat /\ o.filled \in Nat /\ Remaining(o) \in Nat
      /\ o.account \in Accounts
  <2>1. o.price \in Nat /\ o.quantity \in Nat /\ o.filled \in Nat /\ o.account \in Accounts
    BY OrderFields
  <2> QED BY <2>1, SMT DEF Remaining
<1>2. PICK d \in Nat : d = o.price * Remaining(o)
  BY <1>1, MulType
<1>3. AreAccounts(A) /\ AreHoldings(H) /\ AreBooks(B)
  BY DEF LedgerSound
<1>4. CashAfter(A, accounts', o.side, o.account, -d)
  <2>1. ASSUME o.side = Buy
        PROVE  o.account \in DOMAIN A /\ A[o.account].available + (-d) \in 0..(Word - 1)
    <3>1. o.account \in DOMAIN A /\ A[o.account].available >= d
      BY <1>2, <2>1 DEF Affordable, Owned
    <3>2. A[o.account].available \in 0..(Word - 1)
      BY <1>3, <3>1 DEF AreAccounts, IsMap, Balances
    <3> QED BY <3>1, <3>2, WordPositive, SMT
  <2>2. accounts' = IF o.side = Buy THEN AddCash(A, o.account, 0, -d) ELSE A
    BY <1>2 DEF Begun, LockCash
  <2>3. CashShift(A, accounts', o.side, o.account, -d)
    BY <2>1, <2>2 DEF CashShift
  <2> QED BY <1>3, <2>3, CashShifted, SMT
<1>5. SharesAfter(H, holdings', o.side, o.account, s, -Remaining(o))
  <2>1. ASSUME o.side = Sell
        PROVE  /\ <<o.account, s>> \in DOMAIN H
               /\ H[<<o.account, s>>].available + (-Remaining(o)) \in 0..(Word - 1)
    <3>1. <<o.account, s>> \in DOMAIN H /\ H[<<o.account, s>>].available >= Remaining(o)
      BY <2>1 DEF Affordable, Owned
    <3>2. H[<<o.account, s>>].available \in 0..(Word - 1)
      BY <1>3, <3>1 DEF AreHoldings, IsMap, Shares
    <3> QED BY <1>1, <3>1, <3>2, WordPositive, SMT
  <2>2. holdings' = IF o.side = Sell THEN AddShares(H, <<o.account, s>>, 0, -Remaining(o)) ELSE H
    BY DEF Begun, LockShares
  <2>3. SharesShift(H, holdings', o.side, o.account, s, -Remaining(o))
    BY <2>1, <2>2 DEF SharesShift
  <2> QED BY <1>1, <1>3, <2>3, SharesShifted, SMT
<1>6. /\ taker' \in Takers /\ ~Idle' /\ taker'.order = o /\ taker'.stock = s /\ taker'.type = type
      /\ taker'.initial = o.filled /\ taker'.cash = 0
  BY <1>1, WordPositive, SMT DEF Begun, Takers, Idle, NoTaker
<1>7. books' = B /\ supply' = supply /\ stocks' = stocks
  BY DEF Begun
<1>8. TypeOK' /\ BooksConsistent'
  <2>1. AreAccounts(accounts') /\ AreHoldings(holdings')
    BY <1>4, <1>5 DEF CashAfter, SharesAfter
  <2> QED BY <1>3, <1>6, <1>7, <2>1
    DEF LedgerInv, TypeOK, BooksConsistent, AreAccounts, AreHoldings, AreBooks
<1>9. OwnersKnown'
  <2>1. DOMAIN accounts' = DOMAIN A /\ DOMAIN holdings' = DOMAIN H
    BY <1>4, <1>5 DEF CashAfter, SharesAfter
  <2>2. \A k \in DOMAIN holdings' : k[1] \in DOMAIN accounts'
    BY <2>1 DEF LedgerSound
  <2>3. ASSUME NEW x \in Stocks, NEW id \in DOMAIN books'[x].index
        PROVE  OwnerKnown(books[x].index[id], x)'
    <3>1. Owned(B[x].index[id], x, A, H)
      BY <1>7 DEF LedgerSound
    <3> QED BY <1>7, <2>1, <3>1 DEF OwnerKnown, Owned
  <2>4. OwnerKnown(taker.order, taker.stock)'
    BY <1>6, <2>1 DEF Affordable, OwnerKnown, Owned
  <2> QED BY <2>2, <2>3, <2>4 DEF OwnersKnown
<1>10. TakerSound' /\ PaidWithinLimit'
  <2>1. o.side = Buy => o.price * (o.quantity - o.filled) < Word
    BY DEF Affordable, Remaining
  <2>2. o.price * (o.filled - o.filled) = 0
    BY <1>1, SMT
  <2>3. TakerSound'
    BY <1>1, <1>6, <1>7, <2>1, SMT DEF TakerSound, Affordable
  <2>4. PaidWithinLimit'
    BY <1>6, <2>2, SMT DEF PaidWithinLimit
  <2> QED BY <2>3, <2>4
<1>11. CashReserved'
  <2> SUFFICES ASSUME NEW a \in DOMAIN accounts'
               PROVE  accounts'[a].balance =
                        accounts'[a].available + Total(CashLock(books', a)) + TakerCash(a)'
    BY DEF CashReserved
  <2>1. TakerCash(a)' = IF o.side = Buy /\ o.account = a THEN d ELSE 0
    BY <1>1, <1>2, <1>6, SMT DEF TakerCash, Remaining
  <2>2. /\ a \in DOMAIN A /\ accounts'[a].balance = A[a].balance
        /\ accounts'[a].available =
             A[a].available + IF o.side = Buy /\ o.account = a THEN -d ELSE 0
    BY <1>4 DEF CashAfter
  <2>3. A[a].balance = A[a].available + Total(CashLock(B, a))
    BY <2>2 DEF LedgerSound
  <2>4. A[a].available \in Nat /\ Total(CashLock(B, a)) \in Nat
    BY <1>3, <2>2, LocksType, WordPositive, SMT DEF AreAccounts, IsMap, Balances
  <2> QED BY <1>7, <2>1, <2>2, <2>3, <2>4, SMT
<1>12. SharesReserved'
  <2> SUFFICES ASSUME NEW k \in DOMAIN holdings'
               PROVE  holdings'[k].quantity = holdings'[k].available
                        + Total(ShareLock(books'[k[2]], k[1])) + TakerShares(k[1], k[2])'
    BY DEF SharesReserved
  <2>1. TakerShares(k[1], k[2])' =
          IF o.side = Sell /\ o.account = k[1] /\ s = k[2] THEN Remaining(o) ELSE 0
    BY <1>6 DEF TakerShares
  <2>2. /\ k \in DOMAIN H /\ holdings'[k].quantity = H[k].quantity
        /\ holdings'[k].available = H[k].available
             + IF o.side = Sell /\ o.account = k[1] /\ s = k[2] THEN -Remaining(o) ELSE 0
    BY <1>5 DEF SharesAfter
  <2>3. H[k].quantity = H[k].available + Total(ShareLock(B[k[2]], k[1]))
    BY <2>2 DEF LedgerSound
  <2>4. H[k].available \in Nat /\ k[2] \in Stocks
    BY <1>3, <2>2, WordPositive, SMT DEF AreHoldings, IsMap, Shares
  <2>5. Total(ShareLock(B[k[2]], k[1])) \in Nat
    BY <1>3, <2>4, ShareLockType
  <2> QED BY <1>1, <1>7, <2>1, <2>2, <2>3, <2>4, <2>5, SMT
<1>13. Conserved'
  BY <1>4, <1>5, <1>7 DEF CashAfter, SharesAfter, LedgerSound, Conserved
<1> QED BY <1>8, <1>9, <1>10, <1>11, <1>12, <1>13 DEF LedgerInv

\* A request that passes validateBuy or validateSell begins a match.
LEMMA matchKeeps ==
  ASSUME LedgerInv, Idle, NEW o \in TradeRequests, validateOrder(o), Fresh(o.id), match(o)
  PROVE  LedgerInv'
<1>1. /\ o.id \in OrderIds /\ o.account \in Accounts /\ o.stock \in Stocks
      /\ o.trading \in {Buy, Sell} /\ o.type \in {Limit, Market}
      /\ o.price \in Prices \cup {0} /\ o.quantity \in Quantities \cup {0}
      /\ o.trading = Buy /\ o.type = Market => o.price \in {0, UpperLimit}
  BY DEF TradeRequests, validateOrder
<1>2. /\ o.price # 0
      /\ o.trading = Buy => /\ o.account \in DOMAIN accounts
                            /\ o.price * o.quantity < Word
                            /\ accounts[o.account].available >= o.price * o.quantity
      /\ o.trading = Sell => /\ <<o.account, o.stock>> \in DOMAIN holdings
                             /\ holdings[<<o.account, o.stock>>].available >= o.quantity
  BY <1>1 DEF validateOrder, validateBuy, validateSell, validateTrade
<1>3. PICK n : n = [id |-> o.id, account |-> o.account, side |-> o.trading,
                    price |-> o.price, quantity |-> o.quantity, filled |-> 0]
  OBVIOUS
<1>4. /\ n.id = o.id /\ n.account = o.account /\ n.side = o.trading /\ n.price = o.price
      /\ n.quantity = o.quantity /\ n.filled = 0
  BY <1>3
<1>5. o.quantity \in Nat /\ o.price \in Prices
  <2>1. o.quantity \in Nat
    <3>1. Quantities \subseteq Nat
      BY AmountAssumption
    <3>2. o.quantity \in Quantities \/ o.quantity = 0
      BY <1>1
    <3>3. CASE o.quantity \in Quantities
      BY <3>1, <3>3
    <3>4. CASE o.quantity = 0
      BY <3>4, SMT
    <3> QED BY <3>2, <3>3, <3>4
  <2>2. o.price \in Prices
    BY <1>1, <1>2
  <2> QED BY <2>1, <2>2
<1>6. n \in Orders
  BY <1>1, <1>3, <1>5 DEF Orders, Sides
<1>7. Remaining(n) = o.quantity
  BY <1>4, <1>5, SMT DEF Remaining
<1>8. LedgerSound(accounts, holdings, books, supply)
  BY IdleSound
<1>9. ~Has(books[o.stock], n.id)
  BY <1>1, <1>4 DEF Fresh
<1>10. Affordable(n, o.stock, o.type, accounts, holdings)
  <2>1. n.account \in DOMAIN accounts
    <3>1. CASE o.trading = Buy
      BY <1>2, <1>4, <3>1
    <3>2. CASE o.trading = Sell
      <4>1. <<o.account, o.stock>> \in DOMAIN holdings
        BY <1>2, <3>2
      <4>2. <<o.account, o.stock>>[1] \in DOMAIN accounts
        BY <1>8, <4>1 DEF LedgerSound
      <4> QED BY <1>4, <4>2
    <3> QED BY <1>1, <3>1, <3>2
  <2> QED BY <1>1, <1>2, <1>4, <1>7, <2>1 DEF Affordable, Owned
<1>11. Begun(n, o.stock, o.type, accounts, holdings, books)
  BY <1>3 DEF match, BeginMatch, Begun
<1>12. n.filled <= n.quantity
  BY <1>4, <1>5, SMT
<1> QED BY <1>1, <1>6, <1>8, <1>9, <1>10, <1>11, <1>12, BeginMatchKeeps

\* An order whose price is edited gives back its reservation and begins anew.
LEMMA editKeeps ==
  ASSUME LedgerInv, Idle, NEW o \in TargetRequests, validateOrder(o), Fresh(o.id),
         o.trading = EditRequest, edit(o)
  PROVE  LedgerInv'
<1>1. o.id \in OrderIds /\ o.stock \in Stocks /\ o.price \in Prices \cup {0}
  BY DEF TargetRequests, validateOrder
<1>2. PICK t : t = books[o.stock].index[o.target]
  OBVIOUS
<1>3. /\ Has(books[o.stock], o.target) /\ o.id # o.target /\ o.price # 0
      /\ t.side = Buy => /\ o.price * Remaining(t) < Word
                         /\ accounts[t.account].available + t.price * Remaining(t)
                              >= o.price * Remaining(t)
  BY <1>2 DEF validateOrder, validateEdit, validateTargetRequest
<1>4. /\ o.target \in OrderIds /\ t \in Orders
      /\ Remaining(t) \in Nat /\ Remaining(t) > 0 /\ Owned(t, o.stock, accounts, holdings)
      /\ t.price * Remaining(t) \in Nat
  <2>1. Has(books[o.stock], o.target)
    BY <1>3
  <2>2. TargetSound(t, o.stock, o.target)
    BY <1>1, <1>2, <2>1, TargetFacts
  <2> QED BY <2>2 DEF TargetSound
<1>5. PICK L : L = removeAndRelease(o.stock, o.target)
  OBVIOUS
<1>6. PICK A, H, B : A = L.accounts /\ H = L.holdings /\ B = L.books
  OBVIOUS
<1>7. Released(o.stock, o.target, t, A, H, B)
  BY <1>2, <1>3, <1>5, <1>6
  DEF Released, TakenOut, removeAndRelease, ReleaseCash, ReleaseShares
<1>8. /\ LedgerSound(A, H, B, supply)
      /\ ~Has(B[o.stock], o.target) /\ SameOrders(books, B, o.stock, o.target)
      /\ DOMAIN A = DOMAIN accounts /\ DOMAIN H = DOMAIN holdings
      /\ t.side = Buy => A[t.account].available =
                           accounts[t.account].available + t.price * Remaining(t)
      /\ t.side = Sell => H[<<t.account, o.stock>>].available =
                            holdings[<<t.account, o.stock>>].available + Remaining(t)
  <2>1. ReleasedSound(o.stock, o.target, t, A, H, B)
    BY <1>1, <1>7, ReleaseSound
  <2> QED BY <2>1 DEF ReleasedSound
<1>9. PICK n : n = [t EXCEPT !.id = o.id, !.price = o.price]
  OBVIOUS
<1>10. /\ n \in Orders /\ n.id = o.id /\ n.price = o.price /\ n.account = t.account
       /\ n.side = t.side /\ n.quantity = t.quantity /\ n.filled = t.filled
  BY <1>1, <1>3, <1>4, <1>9 DEF Orders
<1>11. Remaining(n) = Remaining(t) /\ n.filled <= n.quantity
  <2>1. t.quantity \in Nat /\ t.filled \in Nat
    BY <1>4, OrderFields
  <2> QED BY <1>4, <1>10, <2>1, SMT DEF Remaining
<1>12. ~Has(B[o.stock], n.id)
  BY <1>1, <1>3, <1>8, <1>10 DEF SameOrders, Fresh
<1>13. Affordable(n, o.stock, Limit, A, H)
  <2>1. Owned(n, o.stock, A, H)
    BY <1>4, <1>8, <1>10 DEF Owned
  <2>2. ASSUME n.side = Sell PROVE H[<<n.account, o.stock>>].available >= Remaining(n)
    <3>1. <<t.account, o.stock>> \in DOMAIN holdings
      BY <1>4, <1>10, <2>2 DEF Owned
    <3>2. holdings[<<t.account, o.stock>>].available \in Nat
      BY <3>1, HoldingFacts
    <3>3. H[<<t.account, o.stock>>].available =
            holdings[<<t.account, o.stock>>].available + Remaining(t)
      BY <1>8, <1>10, <2>2
    <3>4. Remaining(t) \in Nat /\ Remaining(n) = Remaining(t) /\ n.account = t.account
      BY <1>4, <1>10, <1>11
    <3> QED BY <3>2, <3>3, <3>4, SMT
  <2>3. ASSUME n.side = Buy
        PROVE  /\ A[n.account].available >= n.price * Remaining(n)
               /\ n.price * Remaining(n) < Word
    <3>1. t.side = Buy /\ n.account = t.account
      BY <1>10, <2>3
    <3>2. n.price * Remaining(n) = o.price * Remaining(t)
      BY <1>10, <1>11
    <3>3. /\ o.price * Remaining(t) < Word
          /\ A[t.account].available >= o.price * Remaining(t)
      BY <1>3, <1>8, <3>1
    <3> QED BY <3>1, <3>2, <3>3
  <2>4. Limit # Market
    BY DEF Limit, Market
  <2> QED BY <2>1, <2>2, <2>3, <2>4 DEF Affordable
<1>14. Begun(n, o.stock, Limit, A, H, B)
  BY <1>2, <1>5, <1>6, <1>9 DEF edit, BeginMatch, Begun
<1> QED BY <1>1, <1>8, <1>10, <1>11, <1>12, <1>13, <1>14, BeginMatchKeeps

\* A cancelled order gives back its reservation.
LEMMA cancelKeeps ==
  ASSUME LedgerInv, Idle, NEW o \in TargetRequests, validateOrder(o),
         o.trading = CancelRequest, cancel(o)
  PROVE  LedgerInv'
<1>1. o.stock \in Stocks
  BY DEF TargetRequests
<1>2. Has(books[o.stock], o.target)
  BY DEF validateOrder, validateTargetRequest
<1>3. PICK t : t = books[o.stock].index[o.target]
  OBVIOUS
<1>4. PICK L : L = removeAndRelease(o.stock, o.target)
  OBVIOUS
<1>5. /\ accounts' = L.accounts /\ holdings' = L.holdings /\ books' = L.books
      /\ stocks' = stocks /\ taker' = taker /\ supply' = supply
  BY <1>4 DEF cancel
<1>6. Released(o.stock, o.target, t, accounts', holdings', books')
  BY <1>2, <1>3, <1>4, <1>5
  DEF Released, TakenOut, removeAndRelease, ReleaseCash, ReleaseShares
<1>7. LedgerSound(accounts', holdings', books', supply)
  BY <1>1, <1>6, ReleaseSound DEF ReleasedSound
<1>8. AreStocks(stocks') /\ supply' \in SupplyType /\ taker' = NoTaker
  BY <1>5 DEF LedgerInv, TypeOK, AreStocks, SupplyType, Idle
<1> QED BY <1>5, <1>7, <1>8, SoundIdle

-----------------------------------------------------------------------------
(* The end of a match.                                                     *)

\* What is left of o rests in new, or nothing of it does.
LocksRest(bks, new, s, o, rests, a) ==
  /\ Total(CashLock(new, a)) = Total(CashLock(bks, a)) + IF rests THEN OrderCash(o, a) ELSE 0
  /\ Total(ShareLock(new[s], a)) =
       Total(ShareLock(bks[s], a)) + IF rests THEN OrderShares(o, a) ELSE 0
  /\ \A x \in Stocks \ {s} : Total(ShareLock(new[x], a)) = Total(ShareLock(bks[x], a))

\* An order that rests (Add) adds what is left of it to the reservations.
LEMMA RestLocks ==
  ASSUME NEW bks, AreBooks(bks), NEW s \in Stocks, NEW o \in Orders, ~Has(bks[s], o.id),
         o.filled < o.quantity, NEW new, Rested(bks, new, s, o), NEW a
  PROVE  LocksRest(bks, new, s, o, TRUE, a)
<1>1. /\ AreBooks(new) /\ SameOrders(bks, new, s, o.id)
      /\ Has(new[s], o.id) /\ new[s].index[o.id] = o
  BY AddOrder
<1>2. o.id \in OrderIds /\ o.quantity \in Nat /\ o.filled \in Nat
  BY OrderFields
<1>3. Remaining(o) \in Nat
  BY <1>2, SMT DEF Remaining
<1>4. OrderCash(o, a) \in Nat /\ OrderShares(o, a) \in Nat
  BY <1>3, OrderReserves
<1>5. /\ BuyLock(bks[s], o.id, a) = 0 /\ SellLock(bks[s], o.id, a) = 0
      /\ BuyLock(new[s], o.id, a) = OrderCash(o, a) /\ SellLock(new[s], o.id, a) = OrderShares(o, a)
  BY <1>1 DEF BuyLock, SellLock
<1>6. Total(CashLock(new, a)) =
        Total(CashLock(bks, a)) - BuyLock(bks[s], o.id, a) + BuyLock(new[s], o.id, a)
  BY <1>1, <1>2, CashLockMoves, SMT
<1>7. /\ Total(ShareLock(new[s], a)) =
           Total(ShareLock(bks[s], a)) - SellLock(bks[s], o.id, a) + SellLock(new[s], o.id, a)
      /\ \A x \in Stocks \ {s} : Total(ShareLock(new[x], a)) = Total(ShareLock(bks[x], a))
  BY <1>1, <1>2, ShareLockMoves, SMT
<1>8. Total(CashLock(bks, a)) \in Nat /\ Total(ShareLock(bks[s], a)) \in Nat
  BY LocksType, ShareLockType
<1> QED BY <1>4, <1>5, <1>6, <1>7, <1>8, SMT DEF LocksRest

\* What FinishMatch does to the ledger; l of o lapse and z of its cash is unspent.
Finish(s, o, rests, l, z, A) ==
  /\ s = taker.stock /\ o = taker.order
  /\ rests = (Remaining(o) > 0 /\ taker.type = Limit)
  /\ l = Lapsed /\ z = Refund
  /\ A = ReleaseCash(accounts, o, l)
  /\ accounts' = AddCash(A, o.account, 0, z)
  /\ holdings' = ReleaseShares(holdings, o, s, l)
  /\ books' = IF rests THEN [books EXCEPT ![s] = Add(@, o)] ELSE books
  /\ taker' = NoTaker /\ supply' = supply

FinishSound(s, o, rests, l, z) ==
  /\ s \in Stocks /\ o \in Orders /\ o.side \in Sides /\ rests \in BOOLEAN
  /\ Remaining(o) \in Nat /\ l \in Nat /\ o.price * l \in Nat /\ z \in Nat
  /\ AreBooks(books') /\ \A a : LocksRest(books, books', s, o, rests, a)
  /\ rests => l = 0
  /\ ~rests => l = Remaining(o)
  /\ OwnerKnown(o, s)
  /\ \A x \in Stocks : \A id \in DOMAIN books'[x].index : OwnerKnown(books'[x].index[id], x)
  /\ \A a : TakerCash(a) = IF o.side = Buy /\ o.account = a
                           THEN o.price * Remaining(o) + z ELSE 0
  /\ \A a, x : TakerShares(a, x) = IF o.side = Sell /\ o.account = a /\ s = x
                                   THEN Remaining(o) ELSE 0
  /\ o.side = Sell => z = 0

\* What is left of the taker rests or lapses, never both, and the refund is exact.
LEMMA FinishFacts ==
  ASSUME LedgerInv, ~Idle, NEW s, NEW o, NEW rests, NEW l, NEW z, NEW A,
         Finish(s, o, rests, l, z, A)
  PROVE  FinishSound(s, o, rests, l, z)
<1>1. /\ s = taker.stock /\ o = taker.order /\ l = Lapsed /\ z = Refund
      /\ rests = (Remaining(o) > 0 /\ taker.type = Limit)
  BY DEF Finish
<1>2. /\ s \in Stocks /\ o \in Orders /\ Remaining(o) \in Nat /\ taker \in Takers
      /\ o.price \in Nat /\ o.quantity \in Nat /\ o.filled \in Nat
  BY <1>1, TakerFacts
<1>3. o.side \in Sides
  BY <1>2, OrderFields
<1>4. taker.type \in {Limit, Market} /\ Limit # Market
  BY <1>2 DEF Takers, Limit, Market
<1>5. l \in Nat /\ (rests => l = 0) /\ (~rests => l = Remaining(o)) /\ rests \in BOOLEAN
  <2>1. l = IF taker.type = Market THEN Remaining(o) ELSE 0
    BY <1>1 DEF Lapsed
  <2>2. rests <=> Remaining(o) > 0 /\ taker.type = Limit
    BY <1>1
  <2>3. rests \in BOOLEAN
    BY <1>1
  <2> QED BY <1>2, <1>4, <2>1, <2>2, <2>3, SMT
<1>6. o.price * l \in Nat
  BY <1>2, <1>5, MulType
<1>7. OwnerKnown(o, s)
  BY <1>1 DEF LedgerInv, OwnersKnown
<1>8. ~Has(books[s], o.id)
  BY <1>1 DEF LedgerInv, TakerSound
<1>9. /\ AreBooks(books') /\ \A a : LocksRest(books, books', s, o, rests, a)
      /\ \A x \in Stocks : \A id \in DOMAIN books'[x].index : OwnerKnown(books'[x].index[id], x)
  <2>1. CASE rests
    <3>1. Rested(books, books', s, o)
      BY <2>1 DEF Finish, Rested
    <3>2. o.filled < o.quantity
      <4>1. Remaining(o) > 0
        BY <1>1, <2>1
      <4> QED BY <1>2, <4>1, SMT DEF Remaining
    <3>3. /\ AreBooks(books') /\ SameOrders(books, books', s, o.id)
          /\ Has(books'[s], o.id) /\ books'[s].index[o.id] = o
      BY <1>2, <1>8, <3>1, <3>2, Maps, AddOrder
    <3>4. ASSUME NEW a PROVE LocksRest(books, books', s, o, rests, a)
      <4>1. LocksRest(books, books', s, o, TRUE, a)
        BY <1>2, <1>8, <3>1, <3>2, Maps, RestLocks
      <4> QED BY <2>1, <4>1 DEF LocksRest
    <3>5. ASSUME NEW x \in Stocks, NEW id \in DOMAIN books'[x].index
          PROVE  OwnerKnown(books'[x].index[id], x)
      <4>1. CASE x = s /\ id = o.id
        BY <1>7, <3>3, <4>1
      <4>2. CASE ~(x = s /\ id = o.id)
        <5>1. id \in OrderIds
          BY <3>3 DEF AreBooks, IsBook, IsMap
        <5>2. id \in DOMAIN books[x].index /\ books'[x].index[id] = books[x].index[id]
          BY <3>3, <4>2, <5>1 DEF SameOrders, Has
        <5> QED BY <5>2 DEF LedgerInv, OwnersKnown
      <4> QED BY <4>1, <4>2
    <3> QED BY <3>3, <3>4, <3>5
  <2>2. CASE ~rests
    <3>1. books' = books
      BY <2>2 DEF Finish
    <3>2. ASSUME NEW a PROVE LocksRest(books, books', s, o, rests, a)
      <4>1. Total(CashLock(books, a)) \in Nat
        BY Maps, LocksType
      <4>2. Total(ShareLock(books[s], a)) \in Nat
        BY <1>2, Maps, ShareLockType
      <4> QED BY <2>2, <3>1, <4>1, <4>2, SMT DEF LocksRest
    <3> QED BY <3>1, <3>2, Maps DEF LedgerInv, OwnersKnown
  <2> QED BY <2>1, <2>2
<1>10. /\ z \in Nat
       /\ o.side = Sell => z = 0
       /\ \A a : TakerCash(a) = IF o.side = Buy /\ o.account = a
                                THEN o.price * Remaining(o) + z ELSE 0
  <2>1. CASE o.side = Buy
    <3>1. PICK g, y : /\ g = o.price * (o.filled - taker.initial) - taker.cash
                      /\ y = o.price * Remaining(o)
      OBVIOUS
    <3>2. /\ g \in Nat /\ y \in Nat
          /\ o.price * (o.quantity - taker.initial) - taker.cash = y + g
      BY <1>1, <2>1, <3>1, TakerCovers
    <3>3. \A a : TakerCash(a) = IF o.account = a THEN y + g ELSE 0
      BY <1>1, <2>1, <3>2 DEF TakerCash
    <3>4. g \in 0..(Word - 1)
      <4>1. o.account \in DOMAIN accounts
        BY <1>7 DEF OwnerKnown
      <4>2. TakerCash(o.account) = y + g
        BY <3>3
      <4>3. /\ accounts[o.account].balance \in Nat /\ accounts[o.account].available \in Nat
            /\ Total(CashLock(books, o.account)) \in Nat
            /\ accounts[o.account].balance = accounts[o.account].available
                 + Total(CashLock(books, o.account)) + TakerCash(o.account)
            /\ accounts[o.account].balance <= supply.cash
            /\ supply.cash \in Nat /\ supply.cash < Word
        BY <4>1, BalanceFacts
      <4> QED BY <3>2, <4>2, <4>3, WordPositive, SMT
    <3>5. z = UInt64(g)
      BY <1>1, <2>1, <3>1 DEF Refund
    <3>6. z = g
      BY <3>4, <3>5, WordExact
    <3>7. o.side # Sell
      BY <2>1 DEF Buy, Sell
    <3> QED BY <2>1, <3>1, <3>2, <3>3, <3>6, <3>7
  <2>2. CASE o.side # Buy
    <3>1. z = 0
      BY <1>1, <2>2 DEF Refund
    <3> QED BY <1>1, <2>2, <3>1, SMT DEF TakerCash
  <2> QED BY <2>1, <2>2
<1>11. \A a, x : TakerShares(a, x) = IF o.side = Sell /\ o.account = a /\ s = x
                                     THEN Remaining(o) ELSE 0
  BY <1>1 DEF TakerShares
<1> QED BY <1>2, <1>3, <1>5, <1>6, <1>7, <1>9, <1>10, <1>11 DEF FinishSound

\* Refund and release are exact in uint64: the owner's available cash grows by both.
LEMMA FinishCash ==
  ASSUME LedgerInv, ~Idle, NEW s, NEW o, NEW rests, NEW l, NEW z, NEW A,
         Finish(s, o, rests, l, z, A), FinishSound(s, o, rests, l, z)
  PROVE  /\ CashAfter(accounts, A, o.side, o.account, o.price * l)
         /\ CashAfter(A, accounts', Buy, o.account, z)
<1>1. /\ o.account \in DOMAIN accounts /\ o.side \in Sides
      /\ Remaining(o) \in Nat /\ l \in Nat /\ o.price * l \in Nat /\ z \in Nat
      /\ o.side = Sell => z = 0
  BY DEF FinishSound, OwnerKnown
<1>2. PICK b \in Nat, v \in Nat, k \in Nat, y \in Nat :
        /\ b = accounts[o.account].balance /\ v = accounts[o.account].available
        /\ k = Total(CashLock(books, o.account)) /\ y = o.price * l
  BY <1>1, BalanceFacts
<1>3. b = v + k + TakerCash(o.account) /\ b < Word
  <2>1. /\ b = v + k + TakerCash(o.account) /\ b <= supply.cash
        /\ supply.cash \in Nat /\ supply.cash < Word
    BY <1>1, <1>2, BalanceFacts
  <2> QED BY <2>1, WordPositive, SMT
<1>4. y \in Nat
  BY <1>1, <1>2
<1>5. ASSUME o.side = Buy PROVE v + y + z <= b
  <2>1. TakerCash(o.account) = o.price * Remaining(o) + z
    BY <1>5 DEF FinishSound
  <2>2. y <= o.price * Remaining(o) /\ o.price * Remaining(o) \in Nat
    <3>1. o \in Orders /\ (l = 0 \/ l = Remaining(o))
      BY DEF FinishSound
    <3>2. o.price \in Nat
      BY <3>1, OrderFields
    <3>3. o.price * Remaining(o) \in Nat
      BY <1>1, <3>2, MulType
    <3>4. CASE l = 0
      BY <1>2, <3>2, <3>3, <3>4, SMT
    <3>5. CASE l = Remaining(o)
      BY <1>2, <3>3, <3>5, SMT
    <3> QED BY <3>1, <3>4, <3>5
  <2> QED BY <1>1, <1>3, <1>4, <2>1, <2>2, SMT
<1>6. CashAfter(accounts, A, o.side, o.account, y)
  <2>1. A = IF o.side = Buy THEN AddCash(accounts, o.account, 0, y) ELSE accounts
    BY <1>2 DEF Finish, ReleaseCash
  <2>2. ASSUME o.side = Buy PROVE v + y \in 0..(Word - 1)
    BY <1>1, <1>3, <1>4, <1>5, <2>2, WordPositive, SMT
  <2>3. CashShift(accounts, A, o.side, o.account, y)
    BY <1>1, <1>2, <2>1, <2>2 DEF CashShift
  <2> QED BY <1>4, <2>3, Maps, CashShifted, SMT
<1>7. CashAfter(A, accounts', Buy, o.account, z)
  <2>1. AreAccounts(A) /\ o.account \in DOMAIN A
    BY <1>1, <1>6 DEF CashAfter
  <2>2. A[o.account].available + z \in 0..(Word - 1)
    <3>1. CASE o.side = Buy
      <4>1. A[o.account].available = v + y
        BY <1>1, <1>2, <1>6, <3>1 DEF CashAfter
      <4> QED BY <1>1, <1>3, <1>4, <1>5, <3>1, <4>1, WordPositive, SMT
    <3>2. CASE o.side # Buy
      <4>1. z = 0
        BY <1>1, <3>2 DEF Sides
      <4>2. A[o.account].available \in 0..(Word - 1)
        BY <2>1 DEF AreAccounts, IsMap, Balances
      <4> QED BY <4>1, <4>2, WordPositive, SMT
    <3> QED BY <3>1, <3>2
  <2>3. accounts' = AddCash(A, o.account, 0, z)
    BY DEF Finish
  <2>4. CashShift(A, accounts', Buy, o.account, z)
    BY <2>1, <2>2, <2>3 DEF CashShift
  <2> QED BY <1>1, <2>1, <2>4, CashShifted, SMT
<1> QED BY <1>2, <1>6, <1>7

\* The lapsed shares of a sell are exact in uint64 too.
LEMMA FinishShares ==
  ASSUME LedgerInv, ~Idle, NEW s, NEW o, NEW rests, NEW l, NEW z, NEW A,
         Finish(s, o, rests, l, z, A), FinishSound(s, o, rests, l, z)
  PROVE  SharesAfter(holdings, holdings', o.side, o.account, s, l)
<1>1. /\ s \in Stocks /\ Remaining(o) \in Nat /\ l \in Nat /\ l <= Remaining(o)
      /\ o.side = Sell => <<o.account, s>> \in DOMAIN holdings
  <2>1. /\ s \in Stocks /\ Remaining(o) \in Nat /\ l \in Nat /\ (l = 0 \/ l = Remaining(o))
        /\ OwnerKnown(o, s)
    BY DEF FinishSound
  <2> QED BY <2>1, SMT DEF OwnerKnown
<1>2. ASSUME o.side = Sell
      PROVE  /\ <<o.account, s>> \in DOMAIN holdings
             /\ holdings[<<o.account, s>>].available + l \in 0..(Word - 1)
  <2>1. PICK h : h = holdings[<<o.account, s>>]
    OBVIOUS
  <2>2. /\ h.quantity \in Nat /\ h.available \in Nat
        /\ Total(ShareLock(books[s], o.account)) \in Nat
        /\ h.quantity =
             h.available + Total(ShareLock(books[s], o.account)) + TakerShares(o.account, s)
        /\ h.quantity <= supply.shares[s]
        /\ supply.shares[s] \in Nat /\ supply.shares[s] < Word
    BY <1>1, <1>2, <2>1, HoldingFacts
  <2>3. TakerShares(o.account, s) = Remaining(o)
    BY <1>2 DEF FinishSound
  <2>4. h.available + l \in 0..(Word - 1)
    BY <1>1, <2>2, <2>3, WordPositive, SMT
  <2> QED BY <1>1, <1>2, <2>1, <2>4
<1>3. holdings' = IF o.side = Sell THEN AddShares(holdings, <<o.account, s>>, 0, l) ELSE holdings
  BY DEF Finish, ReleaseShares
<1>4. SharesShift(holdings, holdings', o.side, o.account, s, l)
  BY <1>2, <1>3 DEF SharesShift
<1> QED BY <1>1, <1>4, Maps, SharesShifted, SMT

\* Afterwards every won and every share of an account is available or reserved by
\* a resting order: the taker holds nothing back.
LEMMA FinishReserves ==
  ASSUME LedgerInv, ~Idle, NEW s, NEW o, NEW rests, NEW l, NEW z, NEW A,
         Finish(s, o, rests, l, z, A), FinishSound(s, o, rests, l, z)
  PROVE  LedgerSound(accounts', holdings', books', supply')
<1>1. /\ CashAfter(accounts, A, o.side, o.account, o.price * l)
      /\ CashAfter(A, accounts', Buy, o.account, z)
  BY FinishCash
<1>2. SharesAfter(holdings, holdings', o.side, o.account, s, l)
  BY FinishShares
<1>3. /\ AreAccounts(accounts') /\ DOMAIN accounts' = DOMAIN accounts
      /\ AreHoldings(holdings') /\ DOMAIN holdings' = DOMAIN holdings
  BY <1>1, <1>2 DEF CashAfter, SharesAfter
<1>4. AreBooks(books') /\ s \in Stocks /\ o \in Orders /\ o.side \in Sides
  BY DEF FinishSound
<1>5. /\ Remaining(o) \in Nat /\ l \in Nat /\ z \in Nat /\ o.price \in Nat
      /\ o.price * Remaining(o) \in Nat /\ rests \in BOOLEAN
      /\ rests => l = 0 /\ o.price * l = 0
      /\ ~rests => l = Remaining(o) /\ o.price * l = o.price * Remaining(o)
  <2>1. /\ Remaining(o) \in Nat /\ l \in Nat /\ z \in Nat /\ rests \in BOOLEAN
        /\ rests => l = 0
        /\ ~rests => l = Remaining(o)
    BY DEF FinishSound
  <2>2. o.price \in Nat
    BY <1>4, OrderFields
  <2>3. o.price * 0 = 0 /\ o.price * Remaining(o) \in Nat
    BY <2>1, <2>2, MulType, SMT
  <2> QED BY <2>1, <2>2, <2>3
<1>6. ASSUME NEW a \in DOMAIN accounts'
      PROVE  accounts'[a].balance = accounts'[a].available + Total(CashLock(books', a))
  <2>1. a \in DOMAIN accounts /\ DOMAIN A = DOMAIN accounts
    BY <1>1, <1>3, <1>6 DEF CashAfter
  <2>2. /\ accounts[a].available \in Nat /\ Total(CashLock(books, a)) \in Nat
        /\ accounts[a].balance = accounts[a].available + Total(CashLock(books, a)) + TakerCash(a)
    BY <2>1, BalanceFacts
  <2>3. PICK e, y : e = o.price * l /\ y = o.price * Remaining(o)
    OBVIOUS
  <2>4. e \in Nat /\ y \in Nat /\ (rests => e = 0) /\ (~rests => e = y)
    BY <1>5, <2>3
  <2>5. /\ accounts'[a].balance = accounts[a].balance
        /\ A[a].available = accounts[a].available
             + IF o.side = Buy /\ o.account = a THEN e ELSE 0
        /\ accounts'[a].available = A[a].available + IF o.account = a THEN z ELSE 0
    BY <1>1, <2>1, <2>3 DEF CashAfter
  <2>6. TakerCash(a) = IF o.side = Buy /\ o.account = a THEN y + z ELSE 0
    BY <2>3 DEF FinishSound
  <2>7. Total(CashLock(books', a)) = Total(CashLock(books, a))
          + IF rests THEN IF o.side = Buy /\ o.account = a THEN y ELSE 0 ELSE 0
    BY <2>3 DEF FinishSound, LocksRest, OrderCash
  <2>8. o.side # Buy => z = 0
    BY <1>4 DEF FinishSound, Sides
  <2> HIDE DEF Buy
  <2> QED BY <1>5, <2>2, <2>4, <2>5, <2>6, <2>7, <2>8, SMT
<1>7. ASSUME NEW k \in DOMAIN holdings'
      PROVE  holdings'[k].quantity =
               holdings'[k].available + Total(ShareLock(books'[k[2]], k[1]))
  <2>1. PICK a, x : k = <<a, x>> /\ x \in Stocks
    BY <1>3, <1>7, SMT DEF AreHoldings, IsMap
  <2>2. PICK h, h2 : h = holdings[k] /\ h2 = holdings'[k]
    OBVIOUS
  <2>3. /\ h.available \in Nat /\ Total(ShareLock(books[x], a)) \in Nat
        /\ h.quantity = h.available + Total(ShareLock(books[x], a)) + TakerShares(a, x)
    BY <1>3, <1>7, <2>1, <2>2, HoldingFacts
  <2>4. /\ h2.quantity = h.quantity
        /\ h2.available = h.available + IF o.side = Sell /\ o.account = a /\ s = x THEN l ELSE 0
    BY <1>2, <1>3, <1>7, <2>1, <2>2 DEF SharesAfter
  <2>5. TakerShares(a, x) = IF o.side = Sell /\ o.account = a /\ s = x THEN Remaining(o) ELSE 0
    BY DEF FinishSound
  <2>6. LocksRest(books, books', s, o, rests, a)
    BY DEF FinishSound
  <2>7. Total(ShareLock(books'[x], a)) = Total(ShareLock(books[x], a)) +
          IF rests THEN IF o.side = Sell /\ o.account = a /\ s = x THEN Remaining(o) ELSE 0 ELSE 0
    <3>1. CASE s = x
      BY <2>6, <3>1 DEF LocksRest, OrderShares
    <3>2. CASE s # x
      BY <2>1, <2>3, <2>6, <3>2, SMT DEF LocksRest
    <3> QED BY <3>1, <3>2
  <2>8. h2.quantity = h2.available + Total(ShareLock(books'[x], a))
    BY <1>5, <2>3, <2>4, <2>5, <2>7, SMT
  <2> QED BY <2>1, <2>2, <2>8
<1>8. supply' = supply
  BY DEF Finish
<1>9. Total(Cash(accounts')) = supply'.cash
  BY <1>1, <1>8 DEF CashAfter, LedgerInv, Conserved
<1>10. \A x \in Stocks : Total(SharesOf(holdings', x)) = supply'.shares[x]
  BY <1>2, <1>8 DEF SharesAfter, LedgerInv, Conserved
<1>11. \A k \in DOMAIN holdings' : k[1] \in DOMAIN accounts'
  BY <1>3 DEF LedgerInv, OwnersKnown
<1>12. \A x \in Stocks : \A id \in DOMAIN books'[x].index :
         Owned(books'[x].index[id], x, accounts', holdings')
  BY <1>3 DEF FinishSound, OwnerKnown, Owned
<1> QED BY <1>3, <1>4, <1>6, <1>7, <1>9, <1>10, <1>11, <1>12 DEF LedgerSound

\* What matchEvents does after its loop keeps the ledger sound.
LEMMA FinishMatchKeeps ==
  ASSUME LedgerInv, FinishMatch
  PROVE  LedgerInv'
<1>1. ~Idle /\ taker' = NoTaker /\ supply' = supply
  BY DEF FinishMatch
<1>2. PICK s, o, rests, l, z, A : Finish(s, o, rests, l, z, A)
  BY DEF FinishMatch, Finish
<1>3. FinishSound(s, o, rests, l, z)
  BY <1>1, <1>2, FinishFacts
<1>4. LedgerSound(accounts', holdings', books', supply')
  BY <1>1, <1>2, <1>3, FinishReserves
<1>5. AreStocks(stocks')
  <2>1. AreStocks(stocks) /\ taker \in Takers
    BY <1>1 DEF LedgerInv, TypeOK, AreStocks, Idle
  <2>2. taker.last > 0 => taker.last \in Prices
    BY <2>1, SMT DEF Takers
  <2>3. CASE stocks' = stocks
    BY <2>1, <2>3
  <2>4. CASE /\ taker.last > 0 /\ taker.stock \in DOMAIN stocks
             /\ stocks' = [stocks EXCEPT ![taker.stock].price = taker.last]
    BY <2>1, <2>2, <2>4 DEF AreStocks, IsMap
  <2> QED BY <2>3, <2>4 DEF FinishMatch
<1>6. supply' \in SupplyType
  BY <1>1 DEF LedgerInv, TypeOK, SupplyType
<1> QED BY <1>1, <1>4, <1>5, <1>6, SoundIdle

-----------------------------------------------------------------------------
(* No book is crossed.  This does not follow from the ledger invariant, nor *)
(* is it inductive as stated, about idle states and best prices: it is      *)
(* strengthened to all states and to all pairs of resting orders.           *)

NoOrdersCross(bks) ==
  \A s \in Stocks : \A i, j \in DOMAIN bks[s].index :
    bks[s].index[i].side = Buy /\ bks[s].index[j].side = Sell =>
      bks[s].index[i].price < bks[s].index[j].price

\* Every order of new is one of bks, at the same price.
FewerOrders(bks, new) ==
  \A s \in Stocks : \A i \in DOMAIN new[s].index :
    /\ i \in DOMAIN bks[s].index
    /\ new[s].index[i].side = bks[s].index[i].side
    /\ new[s].index[i].price = bks[s].index[i].price

\* Taking orders away crosses nothing.
LEMMA FewerApart ==
  ASSUME NEW bks, NEW new, NoOrdersCross(bks), FewerOrders(bks, new)
  PROVE  NoOrdersCross(new)
BY DEF NoOrdersCross, FewerOrders

\* The orders of every book are numbered by OrderIds.
LEMMA IdsOfBooks ==
  ASSUME NEW bks, AreBooks(bks), NEW s \in Stocks
  PROVE  DOMAIN bks[s].index \subseteq OrderIds
BY DEF AreBooks, IsBook, IsMap

\* Cancel takes one order away.
LEMMA CancelFewer ==
  ASSUME NEW bks, AreBooks(bks), NEW s \in Stocks, NEW id, NEW t, NEW new,
         TakenOut(bks, new, s, id, t)
  PROVE  FewerOrders(bks, new)
<1>1. AreBooks(new) /\ SameOrders(bks, new, s, id) /\ ~Has(new[s], id)
  BY CancelOrder
<1> SUFFICES ASSUME NEW x \in Stocks, NEW i \in DOMAIN new[x].index
             PROVE  i \in DOMAIN bks[x].index /\ new[x].index[i] = bks[x].index[i]
  BY DEF FewerOrders
<1>2. i \in OrderIds /\ ~(x = s /\ i = id) /\ Has(new[x], i)
  BY <1>1, IdsOfBooks DEF Has
<1> QED BY <1>1, <1>2 DEF SameOrders, Has

\* Fill takes one order away or leaves it at its price.
LEMMA FillFewer ==
  ASSUME NEW bks, AreBooks(bks), NEW s \in Stocks, NEW id, NEW want \in Nat, want > 0,
         NEW r, NEW n, NEW new, Filled(bks, new, s, id, want, r, n)
  PROVE  FewerOrders(bks, new)
<1>1. /\ AreBooks(new) /\ SameOrders(bks, new, s, id)
      /\ Remaining(r) = n => ~Has(new[s], id)
      /\ Remaining(r) # n => Has(new[s], id) /\ new[s].index[id] = [r EXCEPT !.filled = @ + n]
  BY FillOrder, SMT
<1>2. Has(bks[s], id) /\ r = bks[s].index[id]
  BY DEF Filled
<1>3. r \in Orders
  BY <1>2, RestingOrder
<1> SUFFICES ASSUME NEW x \in Stocks, NEW i \in DOMAIN new[x].index
             PROVE  /\ i \in DOMAIN bks[x].index
                    /\ new[x].index[i].side = bks[x].index[i].side
                    /\ new[x].index[i].price = bks[x].index[i].price
  BY DEF FewerOrders
<1>4. i \in OrderIds /\ Has(new[x], i)
  BY <1>1, IdsOfBooks DEF Has
<1>5. CASE x = s /\ i = id
  <2>1. new[s].index[id] = [r EXCEPT !.filled = @ + n]
    BY <1>1, <1>4, <1>5
  <2>2. new[s].index[id].side = r.side /\ new[s].index[id].price = r.price
    BY <1>3, <2>1 DEF Orders
  <2> QED BY <1>2, <1>5, <2>2 DEF Has
<1>6. CASE ~(x = s /\ i = id)
  BY <1>1, <1>4, <1>6 DEF SameOrders, Has
<1> QED BY <1>5, <1>6

\* No order is better than the best price of its side (BestAsk, BestBid).
LEMMA BestIsBest ==
  ASSUME NEW b, IsBook(b, OrderIds, Orders), Consistent(b), NEW j \in DOMAIN b.index,
         NEW side \in Sides, b.index[j].side = side
  PROVE  /\ HasBest(b, side) /\ Best(b, side) \in Nat /\ b.index[j].price \in Nat
         /\ side = Sell => Best(b, side) <= b.index[j].price
         /\ side = Buy => b.index[j].price <= Best(b, side)
<1>1. PICK q, p : q = b.prices[side] /\ p = b.index[j].price
  OBVIOUS
<1>2. q \in Seq(Nat) /\ Ascending(q) /\ Elements(q) = DOMAIN b.levels[side]
  BY <1>1, OrderRecords, ConsistentParts, SMT
<1>3. p \in Elements(q)
  BY <1>1, <1>2 DEF Consistent, OrderAgrees
<1>4. PICK k \in DOMAIN q : p = q[k]
  BY <1>3 DEF Elements
<1>5. k \in Nat /\ 1 <= k /\ k <= Len(q) /\ Len(q) \in Nat /\ DOMAIN q = 1..Len(q)
  BY <1>2, <1>4, SMT
<1>6. q[1] \in Nat /\ q[Len(q)] \in Nat /\ p \in Nat
  BY <1>2, <1>4, <1>5, SMT
<1>7. q[1] <= p
  <2>1. CASE k = 1
    BY <1>4, <1>6, <2>1, SMT
  <2>2. CASE k # 1
    BY <1>2, <1>4, <1>5, <1>6, <2>2, SMT DEF Ascending
  <2> QED BY <2>1, <2>2
<1>8. p <= q[Len(q)]
  <2>1. CASE k = Len(q)
    BY <1>4, <1>6, <2>1, SMT
  <2>2. CASE k # Len(q)
    BY <1>2, <1>4, <1>5, <1>6, <2>2, SMT DEF Ascending
  <2> QED BY <2>1, <2>2
<1>9. HasBest(b, side)
  BY <1>1, <1>2, <1>5, SMT DEF HasBest
<1>10. Best(b, side) = IF side = Sell THEN q[1] ELSE q[Len(q)]
  BY <1>1 DEF Best, Sides
<1>11. Buy # Sell
  BY DEF Buy, Sell
<1> QED BY <1>1, <1>6, <1>7, <1>8, <1>9, <1>10, <1>11

\* The loop leaves no order behind that agrees on the price: with something left
\* to fill it only stops at an empty counter side or at a price it does not accept.
LEMMA LoopStops ==
  ASSUME LedgerInv, ~Idle, ~CanFill, Remaining(taker.order) > 0,
         HasBest(books[taker.stock], CounterSide)
  PROVE  ~PriceAgrees
<1>1. PICK b, side, p, f, w :
        /\ b = books[taker.stock] /\ side = CounterSide /\ p = BestPrice
        /\ f = Front(b, side, p) /\ w = Remaining(taker.order)
  OBVIOUS
<1>2. taker.stock \in Stocks /\ w \in Nat /\ w > 0 /\ side \in Sides
  BY <1>1, TakerFacts DEF CounterSide, Opposite, Sides
<1>3. IsBook(b, OrderIds, Orders) /\ Consistent(b)
  BY <1>1, <1>2, Maps DEF AreBooks
<1>4. HasBest(b, side) /\ p = Best(b, side)
  BY <1>1 DEF BestPrice
<1>5. HasFront(b, side, p) /\ f \in DOMAIN b.index /\ b.index[f].id = f
  BY <1>1, <1>2, <1>3, <1>4, OrderRecords, FrontOfBest, SMT
<1>6. Has(b, f) /\ Remaining(b.index[f]) \in Nat /\ Remaining(b.index[f]) > 0
  <2>1. Has(books[taker.stock], f)
    BY <1>1, <1>5 DEF Has
  <2> QED BY <1>1, <1>2, <2>1, Maps, RestingOrder
<1>7. FillQuantity(b, f, w) # 0
  BY <1>2, <1>6, SMT DEF FillQuantity
<1>8. Counter.id = f
  BY <1>1, <1>5 DEF Counter
<1>9. CanFill <=> PriceAgrees
  BY <1>1, <1>2, <1>4, <1>5, <1>7, <1>8 DEF CanFill
<1> QED BY <1>9
=============================================================================
