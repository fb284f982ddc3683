SPECIFICATION MCSpec
CONSTANTS
  Pieces <- MCPieces
  MaxTokens = 7
  MAX_SLASHES = 6
  MAX_DECODE_ROUNDS = 8
  Objects = {"n1", "n2"}
  MAX_CAUSE_DEPTH = 12
  MAX_CAUSE_NODES = 4
  MAX_DEPTH = 3
  PRINT_DEPTH = 3
  MaxDeparture = 3
  Session = {s1, s2}
  Lengths = {31, 32}
  Starts = {33, 122}
  Steps <- MCSteps
  Blocks <- MCBlocks
  Callers = {q1, q2, q3, q4}
  Addresses = {a1, a2}
  NoRecord = NoRecord
  baseMs = 1
  maxMs = 2
  MAX_PENDING = 2
  MEMORY = 3
  DECAY_INTERVAL = 2
  MAX_TRACKED = 1
  Updates <- MCUpdates
  MaxUpdates = 3
  None = "-"
  Catalogue <- MCCatalogue
  maxQuantity = 2
  autoFeedThreshold = 1
  DEFAULT_DIRECT_CONCURRENCY = 2
  INVENTORY_FEED_MAX_RECORDS = 2
  GET_BATCH_INVENTORY_MAX_VALUES = 1
  allowZeroQuantity = FALSE
  allowedWarehouses = {"USA", "CAN"}
  PriceUpdates <- MCPriceUpdates
  PriceLists <- MCPriceLists
  Unset = Unset
  Shelves <- MCShelves
  PortalPrices = {90, 150}
  MaxMoves = 1
  Owners = {"o1", "o2"}
  maxPriceChangePercent = 50
  DiscountLists <- MCDiscounts
  Uppercase <- MCUppercase
  VOLUME_DISCOUNT_FEED_MAX_RECORDS = 2
  Unread = Unread
  NoOrder = NoOrder
  NotRead = Unread
  Absent = NoOrder
  Desks <- MCDesks
  Plans <- MCPlans
  RmaNumbers = {"r1", "r2", "r3"}
  RefundIds = {"c1", "c2"}
  PortalPrice = 5
  MaxDeskMoves = 1
  MaxServiceCalls = 1
  maxRefundAmount = 8
  RMA_WRITE_MAX_ITEMS = 2
  maxItemsPerOperation = 1
  PAGE_SIZE = 2
  Limits = {1, 3, 4}
  MaxReportRows = 5
  ID_NUMBER_VISIBLE_CHARS = 2
  MaxIdLength = 3
  MaxReads = 2
  c1 = c1
  c2 = c2
  c3 = c3
  p1 = p1
  p2 = p2
  Calls <- MCCalls
  Payloads <- MCPayloads
  Chunks <- MCChunks
  MaxAttempts = 2
  Faults = {"abort", "crash"}
  Sequential = TRUE
  Durable = TRUE
INVARIANTS
  UrlsRedacted CausesComeOutClean
  KeysServeTheirAccount ConfigurationIsHonoured
  PatternsAreRefused
  AdmissionIsSound
  NoDoubleFeed FailureIsDefinitive
  UpdatesAnsweredTruly PlanIsExecuted
  AppliedAsReviewed DiscountAsPreviewed
  SentWithinOrder ReleasesAsPreviewed
  PersonalDataIsHeldBack TruncationIsTold
CHECK_DEADLOCK FALSE
