\* Two WANs whose interfaces change; multiwan is restarted at any time.
SPECIFICATION Spec
CONSTANTS
  WanCount = 2
  Addr = {a1, a2}
  X = X
  NOIP = NOIP
  NULL = NULL
  Balancer = Balancer
  FastBalancer = FastBalancer
  Disable = Disable
  Fails = 3
  Passes = 2
  FailRetries <- AllFail
  RecoveryRetries <- AllPass
  FailoverTo <- LastDisabled
  Weighted <- Everyone
  Monitored <- Everyone
  Pinged <- Everyone
  MaxJobs = 1
  Env = {"link", "restart"}
INVARIANTS TypeOK Watched Redirected OnlineHasAddress
