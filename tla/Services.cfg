SPECIFICATION ServicesSpec
CONSTANTS
  key = key
  Roots = {p, q}
  Extractions = {e1, e2}
  Posts = {a, b}
  KeyOf <- MCKeyOf
  MaxRepairs = 2
  name = name
  products = products
  vpns = vpns
  Place <- MCPlace
  FieldCodes = {name, products, vpns}
  Lists = {products, vpns}
  FieldsOf <- MCFieldsOf
  Rules <- MCRules
  Values = {v1, v2}
  Confidences = {1, 2}
  Periods = {past, open}
  InForce = {open}
  Minimum = 2
  MaxRows = 3
  Workers = {w1, w2}
  Entries = {d1, d2}
  Nobody = Nobody
  MaxAttempts = 2
  Tasks = {t1, t2}
  Threshold = 2
  Requests = {r1, r2}
  ShadowRuns = 1
  CanaryRuns = 2
  MaxFailed = 2
  Contents = {c1}
  Putters = {p1}
  S3 = TRUE
  MaxFaults = 4
  Backfills = {b1, b2}
  MaxVersion = 3
  MaxItems = 3
  Loops = {l1, l2, l3}
  Local = {i1, i2}
  Remote = {i3}
INVARIANTS
  ServicesTypeOK
  LatestIsActive SameKeySameRepair
  LedgerIsRight OrderDoesNotMatter
  AttemptsLeaveOneResult
  ActivationIsEarned PatternIsProposed
  ObjectsAreKept
  HashIsOfTheEntry
  TurnIsShared
  WakeUpsAreNotLost
CHECK_DEADLOCK FALSE
