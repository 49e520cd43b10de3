SPECIFICATION MCSpec
CONSTANTS
  Handler = {h1}
  Racer = {h1, h2}
  RaceName <- Pair
  RaceOwned <- OwnName
  RaceGen = 1
  Bucket = {b1}
  Name <- Single
  Chunk = {x, y}
  Upload = {u1}
  Period = {1, 2}
  Owned <- AnyName
  Offered <- Everything
  None = None
  MaxGen = 2
  MaxClock = 2
  MaxSize = 2
CHECK_DEADLOCK FALSE
INVARIANTS BlobBacked RacersBlobBacked
PROPERTIES RetentionHonoured LockHolds ImplementsVersions RacersRowsKept
