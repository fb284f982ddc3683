SPECIFICATION InventorySpec
CONSTANTS
  Updates <- MCUpdates
  MaxUpdates = 3
  None = "-"
  Catalogue <- MCCatalogue
  maxQuantity = 2
  autoFeedThreshold = 1
  DEFAULT_DIRECT_CONCURRENCY = 2
  INVENTORY_FEED_MAX_RECORDS = 2
  GET_BATCH_INVENTORY_MAX_VALUES = 1
  allowZeroQuantity = FALSE
  allowedWarehouses = {"USA", "CAN"}
INVARIANTS
  MissingWasNotReturned
CHECK_DEADLOCK FALSE
