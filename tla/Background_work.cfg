SPECIFICATION MCSpec
CONSTANTS
  Handler = {h1, h2, h3}
  Queue = {q1}
  Task = {t1}
  MaxRuns = 3
  Pair = {h1, h2}
  Job = {j1}
  Ticker = {k1, k2}
  Build = {b1, b2}
  Steps = 2
  None = None
INVARIANTS TypeOK CountsBalance OneCreator TickersFollowJobs SuccessEarned
PROPERTIES KeepsFiring StrayTickersEnd SettledStays BuildsEnd
