CONSTANTS
  Kinds = {"order.created", "transfer.created"}
  Window = 2
  Ids <- MCIds
  MaxInput = 5
SPECIFICATION DedupSpec
INVARIANT WithinCapacity
