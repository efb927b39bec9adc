\* Up to six shares at prices 1 to 3.
CONSTANTS
  MaxPrice = 3
  ShareCap = 6
  Word = 512
SPECIFICATION CostSpec
INVARIANT AverageWithinPrices
