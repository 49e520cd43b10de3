SPECIFICATION DeletedSpec
CONSTANTS
  main = main
  dead = dead
  worker = worker
  audit = audit
  d1 = d1
  h1 = h1
  h2 = h2
  NoTopic = NoTopic
  NoSub = NoSub
  NoMessage = NoMessage
  NoWork = NoWork
  Topic = {main, dead}
  Sub = {worker, audit}
  Payload = {d1}
  Handler = {h1, h2}
  Offered <- MCOffered
  MaxAttempts = 2
  PullMax = 1
  MaxId = 5
  MaxTries = 4
  MaxPublish = 2
PROPERTIES WorkerReached
