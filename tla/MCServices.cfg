SPECIFICATION FairMCSpec
CONSTANTS
  Parts = {"events", "points", "counters", "requests", "webhooks", "sms", "whatsapp"}
  c1 = c1
  c2 = c2
  d2 = d2
  g1 = g1
  g2 = g2
  g3 = g3
  Events = {1, 2}
  Drains = {d1, d2}
  MAX_ATTEMPTS = 2
  BatchSize = 2
  MaxFaults = 1
  Tills = {d1, d2, c1, c2}
  Payments = {1}
  Points = 2
  MaxRedeems = 2
  MaxBreaks = 1
  Keys = {1, 2}
  Requests = {g1, g2, g3}
  KeyOf <- MCKeyOf
  Answers = {"ok", "error"}
  MaxRestarts = 1
  Deliveries = {1, 2}
  Couriers = {w1, w2}
  WebhookAttempts = 2
  MaxMishaps = 1
  Campaigns = {m1}
  Senders = {s1, s2}
  Scheduled = {m1}
  Cost = 2
  OpeningCredit = 1
  Package = 2
  Receipts = {x1}
  HasQueue = TRUE
  QueueAttempts = 2
  MaxStops = 1
  Recipients = {1, 2}
  Passes = {p1, p2}
  SendAttempts = 2
  Queued = TRUE
  MaxResumes = 1
  MaxExits = 1
  MaxSwitches = 2
CHECK_DEADLOCK FALSE
INVARIANTS
  OutcomeEarned
  PointsExplained
  OnceOnly
  Recoverable
  CreditsExplained
  ReachedOnce
PROPERTIES
  EventsSettle
  ScheduledIsSent
  CampaignFinishes
