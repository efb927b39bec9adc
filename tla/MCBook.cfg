\* Three orders over three prices: a queue of three, three levels, a fill that
\* empties a level in the middle of a slice.
CONSTANTS
  OrderIds = {o1, o2, o3}
  Prices = {1, 2, 3}
  Quantities = {1, 2}
SPECIFICATION Spec
SYMMETRY Symmetry
INVARIANTS BookConsistent RoundTrip DepthComplete
PROPERTY PriorityKept
