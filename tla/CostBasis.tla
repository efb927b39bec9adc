------------------------------ MODULE CostBasis -----------------------------
(***************************************************************************)
(* The average price and the total buy amount of a holding (matchEvents,   *)
(* applyStockBalanceAdjust): what one account paid for its shares of one   *)
(* stock.                                                                  *)
(*                                                                         *)
(* No decision of the engine depends on these two fields, and no two       *)
(* holdings touch each other's, so one holding stands for all.  Module     *)
(* Exchange has what decides: that the seller of a fill has the shares it  *)
(* delivers (SharesReserved), and that no more shares exist than           *)
(* administration deposited (Conserved).                                   *)
(***************************************************************************)
EXTENDS Integers

CONSTANTS
  MaxPrice,   \* the highest price of a fill, and of an average given by administration
  ShareCap,   \* most shares of the stock deposited
  Word        \* 2^64

\* Cash fits in a word with room to spare: the exchange's stocks are worth less.
ASSUME CostAssumption ==
  /\ MaxPrice \in Nat \ {0} /\ ShareCap \in Nat \ {0} /\ Word \in Nat
  /\ (2 * MaxPrice + 2 * ShareCap) * (2 * ShareCap) < Word

VARIABLES
  known,    \* the account has an entry for the stock, perhaps of no shares
  holding   \* its quantity, Average and TotalBuyAmount; all 0 if there is no entry

costVars == <<known, holding>>

UInt64(x) == x % Word

Empty == [quantity |-> 0, average |-> 0, total |-> 0]

CostInit == known = FALSE /\ holding = Empty

\* The quotient is rounded down.  The mutant rounds it up.
AverageAbove(total, quantity) == (total + quantity - 1) \div quantity
Average(total, quantity) == total \div quantity

\* The buyer's side of a fill of n shares.
Bought(h, n, cash) ==
  [quantity |-> UInt64(h.quantity + n),
   average  |-> Average(UInt64(h.total + cash), UInt64(h.quantity + n)),
   total    |-> UInt64(h.total + cash)]

\* What n shares that leave have cost.  The mutant leaves it in the total.
NothingLeaves(h, n) == 0
CostOf(h, n) == UInt64(n * h.average)

\* The seller's side, and a withdrawal: the average stays until no share is left.
Sold(h, n) ==
  IF h.quantity = n THEN Empty
  ELSE [h EXCEPT !.quantity = UInt64(@ - n), !.total = UInt64(@ - CostOf(h, n))]

\* A fill with another account.
Buy(n, price) ==
  /\ holding.quantity + n <= ShareCap
  /\ known' = TRUE
  /\ holding' = Bought(holding, n, UInt64(price * n))

Sell(n) ==
  /\ known /\ n <= holding.quantity
  /\ holding' = Sold(holding, n)
  /\ UNCHANGED known

\* A fill of the account with itself: the seller's side reads what the buyer's wrote.
SelfTrade(n, price) ==
  /\ known /\ n <= holding.quantity
  /\ holding' = Sold(Bought(holding, n, UInt64(price * n)), n)
  /\ UNCHANGED known

\* validateStockBalanceAdjust: a withdrawal needs the shares.  The mutant skips it.
AnyShares(n) == TRUE
EnoughShares(n) == n <= holding.quantity

\* applyStockBalanceAdjust: a deposit opens an entry at the average of the request, or
\* comes in at the average of the entry, whatever the request says.
Deposit(n, average) ==
  /\ holding.quantity + n <= ShareCap
  /\ \/ /\ ~known /\ average # 0
        /\ holding' = [quantity |-> n, average |-> average, total |-> UInt64(n * average)]
     \/ /\ known
        /\ holding' = [holding EXCEPT !.quantity = UInt64(@ + n),
                                      !.total = UInt64(@ + n * holding.average)]
  /\ known' = TRUE

Withdraw(n) ==
  /\ known /\ EnoughShares(n)
  /\ holding' = Sold(holding, n)
  /\ UNCHANGED known

Lots == 1..ShareCap
Prices == 1..MaxPrice

CostNext ==
  \/ \E n \in Lots, p \in Prices : Buy(n, p) \/ SelfTrade(n, p)
  \/ \E n \in Lots : Sell(n) \/ Withdraw(n)
  \/ \E n \in Lots, average \in Prices \cup {0} : Deposit(n, average)

CostSpec == CostInit /\ [][CostNext]_costVars

-----------------------------------------------------------------------------
(* Properties                                                               *)

\* A holding without an entry is empty, and none has more shares than there are.
CostTypeOK ==
  /\ known \in BOOLEAN
  /\ holding \in [quantity: 0..ShareCap, average: 0..(Word - 1), total: 0..(Word - 1)]
  /\ ~known => holding = Empty

\* What n shares are written off at never exceeds what is recorded as paid, however
\* purchases, sales and adjustments follow each other: TotalBuyAmount never wraps
\* below zero, and is 0 when no share is left.
CostCovered ==
  /\ holding.average * holding.quantity <= holding.total
  /\ holding.quantity = 0 => holding.total = 0

\* What the rounding down of the average leaves behind at sales does not add up without
\* bound: the total exceeds quantity times average by less than the most shares one
\* fill can show (twice those that exist, when an account trades with itself), and the
\* average exceeds the highest price by no more.
DriftBounded ==
  /\ holding.total < holding.average * holding.quantity + 2 * ShareCap
  /\ holding.average < MaxPrice + 2 * ShareCap

\* What the event documentation calls the average: an average of the prices paid, so
\* not above the highest of them.
AverageWithinPrices == holding.average <= MaxPrice
=============================================================================
