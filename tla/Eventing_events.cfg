SPECIFICATION MCSpec
CONSTANTS
  t1 = t1
  t2 = t2
  h1 = h1
  h2 = h2
  go = go
  web = web
  Handler = {h1, h2}
  Topic = {t1}
  Trigger = {go, web}
  Offered <- MCOffered
  None = None
  MaxEvents = 1
  MaxConfig = 2
  MaxMeta = 3
CHECK_DEADLOCK FALSE
INVARIANTS Accounted DeliveredOnce
PROPERTIES ConfigsStay EventsSettle
