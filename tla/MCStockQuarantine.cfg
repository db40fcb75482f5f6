SPECIFICATION MCSpec
CONSTANTS
  Rows = {main, shop}
  OpeningStock <- MCOpening
  Jobs = {j1, j2}
  MaxEdits = 1
  NoKey = NoKey
  Orders = {o1}
  OrderQty <- MCQty
  OrderTotal = 2
  Shelf = main
  CouponLimit = 1
  Reqs = {r1}
  Asked = 2
  Source = main
  Destination = shop
  LoadKeys = {NoKey, k1}
  Purchases = {p1}
  Ordered = 2
  Dock = main
  DeliveryKeys = {NoKey, k1}
  OverReceive = TRUE
  MaxOver = 1
  Batches = {b1}
  BatchQty = 2
  Bay = main
  NeedsQc = TRUE
  MaxRecords = 2
  Shipments = {x1}
  EventIds = {e1}
  NoEventId = NoEventId
  MaxReports = 2
  Runs = {m1}
  Required = 2
  Store = main
  Approval = TRUE
  IssueKeys = {i1, i2}
  MaxNotes = 1
  MaxIssues = 2
  Receipts = {c1}
  Approved = 2
  GoodsKeys = {i1, i2}
  MaxPlans = 2
  main = main
  shop = shop
  k1 = k1
  Rivals = {}
  Desks = {{"orders", "quality"}}
CHECK_DEADLOCK FALSE
INVARIANT NoReserveEaten
