\* A task is appended while main moves and removes the job file.
SPECIFICATION Spec
CONSTANTS
  WanCount = 2
  Addr = {a1}
  X = X
  NOIP = NOIP
  NULL = NULL
  Balancer = Balancer
  FastBalancer = FastBalancer
  Disable = Disable
  Fails = 2
  Passes = 1
  FailRetries <- AllFail
  RecoveryRetries <- AllPass
  FailoverTo <- Chain
  Weighted <- Everyone
  Monitored <- Everyone
  Pinged <- Everyone
  MaxJobs = 2
  Env = {"append"}
INVARIANTS EachTaskProcessed
