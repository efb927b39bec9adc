\* Up to twelve shares at prices 1 to 4.
CONSTANTS
  MaxPrice = 4
  ShareCap = 12
  Word = 1024
SPECIFICATION CostSpec
INVARIANTS CostTypeOK CostCovered DriftBounded
