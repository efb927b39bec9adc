\* As MCExchange.cfg, with what the edit tests say of a quantity.
CONSTANTS
  Accounts = {a1, a2}
  Stocks = {s1}
  OrderIds = {o1, o2, o3}
  NoId = NoId
  Prices = {1, 2}
  UpperLimit = 2
  Quantities = {1, 2}
  Amounts = {1, 3}
  Lots = {1, 2}
  CashCap = 4
  ShareCap = 2
  Word = 16
SPECIFICATION Spec
SYMMETRY Symmetry
INVARIANT EditQuantityRefused
